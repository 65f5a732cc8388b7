--------------------------- MODULE UnboundedProofs --------------------------
(***************************************************************************)
(* Theorems about Unbounded, for any number of threads and any size of     *)
(* blocks.  The invariant speaks of indices: an index is in a block and,   *)
(* unless it is the waiting position, at a slot of it.                     *)
(***************************************************************************)
EXTENDS Unbounded, FiniteSetTheorems, SequenceTheorems, TLAPS

(* The block and the offset of an index, and how many slots come before it. *)
Blk(i) == i \div Lap + 1
Off(i) == i % Lap
Num(i) == i - (Blk(i) - 1)

(* The indices at which values are stored, and the state bits there. *)
Slots   == {i \in Nat : Blk(i) \in Blocks /\ Off(i) < BlockCap}
Bits(i) == state[<<Blk(i), Off(i)>>]

Idx(t) == loc[t].pos.index

(* Who has a slot that it has yet to write or to read. *)
PushOwner(p) == pc[p] \in {"install", "skip", "link", "write"}
PopOwner(c)  == pc[c] \in {"waitNext", "peek", "moveBlock", "moveIndex", "read", "mark"}
Moving(c)    == pc[c] \in {"waitNext", "peek", "moveBlock", "moveIndex"}

Position == [index : Nat, mark : BOOLEAN]
Memory   == [pos : Position, block : Pointers, fresh : Pointers, mark : BOOLEAN, slot : Nat]

Typed ==
    /\ head \in Position /\ tail \in Position
    /\ headBlock \in Pointers /\ tailBlock \in Pointers
    /\ next \in [Blocks -> Pointers]
    /\ cell \in [Blocks \X Offsets -> Values \cup {NoValue}]
    /\ state \in [Blocks \X Offsets -> SUBSET {WRITE, READ, DESTROY}]
    /\ live \subseteq Blocks
    /\ pc \in [Threads -> PushPlaces \cup PopPlaces \cup {"idle"}]
    /\ \A p \in Pushers : pc[p] \in PushPlaces \cup {"idle"}
    /\ \A c \in Poppers : pc[c] \in PopPlaces \cup {"idle"}
    /\ loc \in [Threads -> Memory]
    /\ result \in [Threads -> Results]
    /\ calls \in [Threads -> Nat]
    /\ \A p \in Pushers : calls[p] <= MaxPushes
    /\ dropper \in [pc : {"none", "walk", "done"}, index : Nat, block : Pointers]
    /\ entered \in Seq(Values) /\ left \in Nat

(* What was pushed: each value once, at its index. *)
EnteredInv ==
    /\ Len(entered) = Num(tail.index)
    /\ \A i, j \in 1..Len(entered) : entered[i] = entered[j] => i = j
    /\ \A i \in 1..Len(entered) :
          /\ entered[i][2] <= calls[entered[i][1]]
          /\ entered[i][2] = calls[entered[i][1]] =>
                pc[entered[i][1]] = "idle" \/ PushOwner(entered[i][1])

TailInv ==
    /\ tailBlock = Null => tail.index = 0
    /\ tailBlock # Null /\ Off(tail.index) < BlockCap => tailBlock = Blk(tail.index)
    /\ Off(tail.index) = BlockCap => \E p \in Pushers : pc[p] \in {"install", "skip"}

HeadInv ==
    /\ left = Num(head.index)
    /\ head.index <= tail.index
    /\ head.mark => Blk(head.index) < Blk(tail.index)
    /\ headBlock = Null => head.index = 0
    /\ headBlock = Null /\ tailBlock # Null => \E p \in Pushers : pc[p] = "headBlock"
    /\ headBlock # Null => tailBlock # Null
    /\ headBlock # Null /\ Off(head.index) < BlockCap => headBlock = Blk(head.index)
    /\ Off(head.index) = BlockCap => \E c \in Poppers : Moving(c)

LinkInv ==
    \A b \in Blocks :
        /\ next[b] # Null => next[b] = b + 1 /\ b < Blk(tail.index)
        /\ b < Blk(tail.index) /\ next[b] = Null =>
              \E p \in Pushers : pc[p] = "link" /\ loc[p].block = b
        /\ b < Blk(head.index) => next[b] # Null

PushInv(p) ==
    /\ Idx(p) <= tail.index
    /\ pc[p] # "idle" => calls[p] > 0
    /\ pc[p] \in {"block", "first", "headBlock", "advance"} => ~loc[p].pos.mark
    /\ pc[p] \in {"first", "headBlock", "advance"} => Off(Idx(p)) < BlockCap
    /\ pc[p] = "headBlock" =>
          loc[p].block = 1 /\ Idx(p) = 0 /\ headBlock = Null /\ tailBlock # Null
    /\ pc[p] = "advance" =>
          tailBlock # Null /\ (Idx(p) = tail.index => loc[p].block = Blk(Idx(p)))
    /\ PushOwner(p) =>
          /\ Idx(p) < tail.index /\ Off(Idx(p)) < BlockCap
          /\ loc[p].block = Blk(Idx(p))
          /\ WRITE \notin Bits(Idx(p))
          /\ entered[Num(Idx(p)) + 1] = <<p, calls[p]>>
          /\ tailBlock # Null
    /\ pc[p] \in {"install", "skip", "link"} => Off(Idx(p)) = BlockCap - 1
    /\ pc[p] \in {"install", "skip"} => Idx(p) + 1 = tail.index /\ Off(tail.index) = BlockCap
    /\ pc[p] = "install" => tailBlock = Blk(tail.index)
    /\ pc[p] = "skip" => tailBlock = Blk(tail.index) + 1 /\ loc[p].fresh = tailBlock
    /\ pc[p] = "link" => /\ loc[p].fresh = loc[p].block + 1 /\ loc[p].block < Blk(tail.index)
                         /\ next[loc[p].block] = Null

PopInv(c) ==
    /\ Idx(c) <= head.index
    /\ pc[c] # "destroy" => loc[c].slot = 0
    /\ pc[c] = "block" /\ loc[c].pos.mark => Blk(Idx(c)) < Blk(tail.index)
    /\ pc[c] \in {"tail", "claim"} =>
          /\ Off(Idx(c)) < BlockCap
          /\ loc[c].block # Null =>
                headBlock # Null /\ (Idx(c) = head.index => loc[c].block = Blk(Idx(c)))
    /\ pc[c] = "claim" =>
          loc[c].block # Null /\ Idx(c) < tail.index /\ (loc[c].mark => Blk(Idx(c)) < Blk(tail.index))
    /\ PopOwner(c) =>
          /\ Idx(c) < head.index /\ Off(Idx(c)) < BlockCap /\ loc[c].block = Blk(Idx(c))
          /\ READ \notin Bits(Idx(c))
          /\ result[c] = F!Got(entered[Num(Idx(c)) + 1])
          /\ headBlock # Null
    /\ Moving(c) => Idx(c) + 1 = head.index /\ Off(head.index) = BlockCap
    /\ pc[c] \in {"waitNext", "peek", "moveBlock"} => headBlock = Blk(head.index)
    /\ pc[c] = "moveIndex" => headBlock = Blk(head.index) + 1
    /\ pc[c] \in {"peek", "moveBlock", "moveIndex"} =>
          loc[c].fresh = loc[c].block + 1 /\ next[loc[c].block] # Null
    /\ pc[c] \in {"moveBlock", "moveIndex"} /\ loc[c].mark => next[loc[c].fresh] # Null
    /\ pc[c] = "mark" => WRITE \in Bits(Idx(c)) /\ Off(Idx(c)) < BlockCap - 1

OnePerPlace ==
    /\ \A p, q \in Pushers : pc[p] = "headBlock" /\ pc[q] = "headBlock" => p = q
    /\ \A c, d \in Poppers : PopOwner(c) /\ PopOwner(d) /\ Idx(c) = Idx(d) => c = d
    /\ \A c, d \in Poppers :
          pc[c] = "destroy" /\ pc[d] = "destroy" /\ loc[c].block = loc[d].block => c = d

(* The last slot of block b was read. *)
LastRead(b) ==
    /\ b < Blk(head.index)
    /\ \A c \in Poppers : PopOwner(c) /\ loc[c].block = b => Off(Idx(c)) < BlockCap - 1

SlotInv(i) ==
    /\ WRITE \in Bits(i) => i < tail.index
    /\ WRITE \in Bits(i) /\ dropper.pc = "none" => cell[<<Blk(i), Off(i)>>] = entered[Num(i) + 1]
    /\ i < tail.index /\ WRITE \notin Bits(i) => \E p \in Pushers : PushOwner(p) /\ Idx(p) = i
    /\ READ \in Bits(i) => WRITE \in Bits(i) /\ i < head.index /\ Off(i) < BlockCap - 1
    /\ i < head.index /\ (WRITE \notin Bits(i) \/ (READ \notin Bits(i) /\ Off(i) < BlockCap - 1)) =>
          \E c \in Poppers : PopOwner(c) /\ Idx(c) = i
    /\ DESTROY \in Bits(i) =>
          /\ Off(i) < BlockCap - 1 /\ LastRead(Blk(i))
          /\ \A j \in Slots : Blk(j) = Blk(i) /\ j < i => READ \in Bits(j)

DestroyInv(c) ==
    pc[c] = "destroy" =>
        /\ loc[c].block \in live /\ LastRead(loc[c].block) /\ loc[c].slot <= BlockCap - 1
        /\ \A i \in Slots : Blk(i) = loc[c].block =>
              ((Off(i) < loc[c].slot \/ DESTROY \in Bits(i)) => READ \in Bits(i))

LiveInv ==
    dropper.pc = "none" =>
        /\ live \subseteq 1..tailBlock
        /\ \A b \in (1..tailBlock) \ live :
              /\ LastRead(b)
              /\ \A i \in Slots : Blk(i) = b /\ Off(i) < BlockCap - 1 => READ \in Bits(i)
        /\ \A b \in live : LastRead(b) =>
              \/ \E c \in Poppers : pc[c] = "destroy" /\ loc[c].block = b
              \/ \E i \in Slots : Blk(i) = b /\ DESTROY \in Bits(i) /\ READ \notin Bits(i)

DropInv ==
    /\ dropper.pc # "none" => \A t \in Threads : pc[t] = "idle"
    /\ dropper.pc = "walk" =>
          /\ head.index <= dropper.index /\ dropper.index <= tail.index
          /\ headBlock # Null =>
                dropper.block = Blk(dropper.index) /\ live = dropper.block..tailBlock
          /\ headBlock = Null => tail.index = 0 /\ live = {} /\ dropper.block = Null
    /\ dropper.pc = "done" => live = {}

IInv ==
    /\ Typed /\ EnteredInv /\ TailInv /\ HeadInv /\ LinkInv
    /\ \A p \in Pushers : PushInv(p)
    /\ \A c \in Poppers : PopInv(c)
    /\ OnePerPlace
    /\ \A i \in Slots : SlotInv(i)
    /\ \A c \in Poppers : DestroyInv(c)
    /\ LiveInv /\ DropInv

-----------------------------------------------------------------------------
(* Lemmas about the grid of indices: an index has one block and one offset, *)
(* and its successor is next to it in the block or the first of the next.   *)
LEMMA IndexAt ==
  ASSUME NEW q \in Nat, NEW r \in Nat, r < Lap
  PROVE  (q * Lap + r) \div Lap = q /\ (q * Lap + r) % Lap = r
  BY LapAssumption

LEMMA IndexTypes ==
  ASSUME NEW i \in Nat
  PROVE  /\ Blk(i) \in Nat /\ Blk(i) > 0
         /\ Off(i) \in Nat /\ Off(i) <= BlockCap
         /\ Num(i) \in Nat
  <1>1. i \div Lap \in Nat /\ i % Lap \in Nat /\ i % Lap < Lap
    BY LapAssumption
  <1>2. i \div Lap <= i
    BY LapAssumption
  <1> QED
    BY <1>1, <1>2, LapAssumption DEF Blk, Off, Num, BlockCap

LEMMA CapType == BlockCap \in Nat /\ BlockCap > 0 /\ Lap = BlockCap + 1
  BY LapAssumption DEF BlockCap

LEMMA NextInBlock ==
  ASSUME NEW i \in Nat, Off(i) < BlockCap
  PROVE  Blk(i + 1) = Blk(i) /\ Off(i + 1) = Off(i) + 1 /\ Num(i + 1) = Num(i) + 1
  <1>1. Blk(i + 1) = Blk(i) /\ Off(i + 1) = Off(i) + 1
    BY LapAssumption DEF Blk, Off, BlockCap
  <1>2. Blk(i) \in Nat
    BY IndexTypes
  <1> QED
    BY <1>1, <1>2 DEF Num

LEMMA NextBlock ==
  ASSUME NEW i \in Nat, Off(i) = BlockCap
  PROVE  Blk(i + 1) = Blk(i) + 1 /\ Off(i + 1) = 0 /\ Num(i + 1) = Num(i)
  <1> DEFINE q == i \div Lap
  <1>1. q \in Nat /\ i = q * Lap + (Lap - 1)
    BY LapAssumption DEF Off, BlockCap
  <1>2. i + 1 = (q + 1) * Lap + 0
    BY <1>1, LapAssumption
  <1>3. (i + 1) \div Lap = q + 1 /\ (i + 1) % Lap = 0
    <2> HIDE DEF q
    <2> QED BY <1>1, <1>2, IndexAt, LapAssumption
  <1>4. Blk(i + 1) = Blk(i) + 1 /\ Off(i + 1) = 0
    BY <1>3 DEF Blk, Off
  <1>5. Blk(i) \in Nat
    BY IndexTypes
  <1> QED
    BY <1>4, <1>5 DEF Num

LEMMA WaitingOrNot ==
  ASSUME NEW i \in Nat
  PROVE  Off(i) < BlockCap \/ Off(i) = BlockCap
  <1>1. Off(i) \in Nat /\ Off(i) <= BlockCap
    BY IndexTypes
  <1> QED
    BY <1>1, CapType

LEMMA BlockOrder ==
  ASSUME NEW i \in Nat, NEW j \in Nat, i <= j
  PROVE  Blk(i) <= Blk(j) /\ Num(i) <= Num(j)
  BY LapAssumption DEF Blk, Num

LEMMA EarlierBlock ==
  ASSUME NEW i \in Nat, NEW j \in Nat, Blk(i) < Blk(j)
  PROVE  i < j
  BY LapAssumption DEF Blk

LEMMA NumOrder ==
  ASSUME NEW i \in Nat, NEW j \in Nat, i < j, Off(i) < BlockCap
  PROVE  Num(i) < Num(j)
  BY LapAssumption DEF Blk, Num, Off, BlockCap

LEMMA OneIndex ==
  ASSUME NEW i \in Nat, NEW j \in Nat, Blk(i) = Blk(j)
  PROVE  /\ Off(i) = Off(j) => i = j
         /\ Off(i) < Off(j) <=> i < j
  BY LapAssumption DEF Blk, Off

LEMMA FirstIndex == Blk(0) = 1 /\ Off(0) = 0 /\ Num(0) = 0
  BY IndexAt, LapAssumption DEF Blk, Off, Num

(* Each slot of a block has an index. *)
LEMMA IndexOfSlot ==
  ASSUME NEW b \in Blocks, NEW o \in Nat, o < BlockCap
  PROVE  \E i \in Slots : Blk(i) = b /\ Off(i) = o
  <1>1. b - 1 \in Nat /\ o < Lap /\ (b - 1) * Lap + o \in Nat
    BY LapAssumption DEF Blocks, BlockCap
  <1>2. Blk((b - 1) * Lap + o) = b - 1 + 1 /\ Off((b - 1) * Lap + o) = o
    BY <1>1, IndexAt DEF Blk, Off
  <1>3. b - 1 + 1 = b
    BY DEF Blocks
  <1> QED
    BY <1>1, <1>2, <1>3 DEF Slots

LEMMA SlotOfIndex ==
  ASSUME NEW i \in Slots
  PROVE  /\ i \in Nat /\ Blk(i) \in Blocks /\ Off(i) \in Offsets
         /\ <<Blk(i), Off(i)>> \in Blocks \X Offsets
  BY IndexTypes, CapType DEF Slots, Offsets

(* Writing at the slot of one index leaves the others alone. *)
LEMMA BitsWritten ==
  ASSUME Typed, NEW i \in Slots, NEW S, state' = [state EXCEPT ![<<Blk(i), Off(i)>>] = S]
  PROVE  \A j \in Slots : Bits(j)' = IF j = i THEN S ELSE Bits(j)
  BY SlotOfIndex, OneIndex DEF Bits, Typed

LEMMA CellWritten ==
  ASSUME Typed, NEW i \in Slots, NEW v, cell' = [cell EXCEPT ![<<Blk(i), Off(i)>>] = v]
  PROVE  \A j \in Slots : cell'[<<Blk(j), Off(j)>>] = IF j = i THEN v ELSE cell[<<Blk(j), Off(j)>>]
  BY SlotOfIndex, OneIndex DEF Typed

LEMMA BlockTypes == MaxBlocks \in Nat /\ MaxBlocks > 0 /\ 1 \in Blocks /\ Null \notin Blocks
  <1>1. IsFiniteSet(Pushers) /\ Cardinality(Pushers) \in Nat
    BY FS_Subset, FS_CardinalityType, ThreadAssumption DEF Threads
  <1> DEFINE n == Cardinality(Pushers) * MaxPushes
  <1>2. n \in Nat
    BY <1>1, BoundAssumption
  <1>3. n \div BlockCap \in Nat
    <2> HIDE DEF n
    <2> QED BY <1>2, CapType
  <1> QED
    BY <1>3 DEF MaxBlocks, Blocks, Null

-----------------------------------------------------------------------------
(* What the invariant says of a state.  Indices are numbers, and whoever    *)
(* has a slot has it to itself.                                             *)
LEMMA Numbers ==
  ASSUME IInv
  PROVE  /\ head.index \in Nat /\ tail.index \in Nat /\ head.index <= tail.index
         /\ \A t \in Threads : loc[t] \in Memory
         /\ \A t \in Threads : Idx(t) \in Nat
         /\ Pushers \subseteq Threads /\ Poppers \subseteq Threads
  BY DEF IInv, Typed, HeadInv, Position, Memory, Idx, Threads

LEMMA PushSlot ==
  ASSUME IInv, NEW p \in Pushers, PushOwner(p)
  PROVE  /\ Idx(p) \in Slots /\ Idx(p) < tail.index /\ Off(Idx(p)) < BlockCap
         /\ loc[p].block = Blk(Idx(p)) /\ Slot(p) = <<Blk(Idx(p)), Off(Idx(p))>>
         /\ WRITE \notin Bits(Idx(p))
         /\ entered[Num(Idx(p)) + 1] = <<p, calls[p]>>
         /\ tailBlock # Null
  <1>1. PushInv(p)
    BY DEF IInv
  <1>2. Idx(p) \in Nat /\ loc[p].block \in Pointers
    BY Numbers DEF Memory
  <1>3. Blk(Idx(p)) \in Nat /\ Blk(Idx(p)) > 0
    BY <1>2, IndexTypes
  <1>4. /\ Idx(p) < tail.index /\ Off(Idx(p)) < BlockCap
        /\ loc[p].block = Blk(Idx(p))
        /\ WRITE \notin Bits(Idx(p))
        /\ entered[Num(Idx(p)) + 1] = <<p, calls[p]>>
        /\ tailBlock # Null
    BY <1>1 DEF PushInv
  <1>5. Slot(p) = <<Blk(Idx(p)), Off(Idx(p))>>
    BY <1>4 DEF Slot, Offset, Off, Idx
  <1> QED
    BY <1>2, <1>3, <1>4, <1>5 DEF Slots, Pointers, Null

LEMMA PopSlot ==
  ASSUME IInv, NEW c \in Poppers, PopOwner(c)
  PROVE  /\ Idx(c) \in Slots /\ Idx(c) < head.index /\ Off(Idx(c)) < BlockCap
         /\ loc[c].block = Blk(Idx(c)) /\ Slot(c) = <<Blk(Idx(c)), Off(Idx(c))>>
         /\ READ \notin Bits(Idx(c))
         /\ result[c] = F!Got(entered[Num(Idx(c)) + 1])
         /\ headBlock # Null
  <1>1. PopInv(c)
    BY DEF IInv
  <1>2. Idx(c) \in Nat /\ loc[c].block \in Pointers
    BY Numbers DEF Memory
  <1>3. Blk(Idx(c)) \in Nat /\ Blk(Idx(c)) > 0
    BY <1>2, IndexTypes
  <1>4. /\ Idx(c) < head.index /\ Off(Idx(c)) < BlockCap
        /\ loc[c].block = Blk(Idx(c))
        /\ READ \notin Bits(Idx(c))
        /\ result[c] = F!Got(entered[Num(Idx(c)) + 1])
        /\ headBlock # Null
    BY <1>1 DEF PopInv
  <1>5. Slot(c) = <<Blk(Idx(c)), Off(Idx(c))>>
    BY <1>4 DEF Slot, Offset, Off, Idx
  <1> QED
    BY <1>2, <1>3, <1>4, <1>5 DEF Slots, Pointers, Null

LEMMA PushersApart ==
  ASSUME IInv, NEW p \in Pushers, NEW q \in Pushers, PushOwner(p), PushOwner(q), Idx(p) = Idx(q)
  PROVE  p = q
  BY PushSlot

LEMMA PoppersApart ==
  ASSUME IInv, NEW c \in Poppers, NEW d \in Poppers, PopOwner(c), PopOwner(d), Idx(c) = Idx(d)
  PROVE  c = d
  BY DEF IInv, OnePerPlace

(* The block of the last slot, the waiting position that follows it.        *)
LEMMA AfterLast ==
  ASSUME NEW i \in Nat, NEW j \in Nat, i + 1 = j, Off(j) = BlockCap
  PROVE  Off(i) = BlockCap - 1 /\ Blk(i) = Blk(j)
  <1>1. Off(i) \in Nat /\ Off(i) <= BlockCap
    BY IndexTypes
  <1>2. Off(i) < BlockCap
    BY <1>1, NextBlock, CapType
  <1> QED
    BY <1>1, <1>2, NextInBlock, CapType

(* At most one pusher installs a block and at most one popper moves the head.*)
LEMMA OneInstalls ==
  ASSUME IInv, NEW p \in Pushers, NEW q \in Pushers,
         pc[p] \in {"install", "skip"}, pc[q] \in {"install", "skip"}
  PROVE  p = q
  <1>1. Idx(p) + 1 = tail.index /\ Idx(q) + 1 = tail.index
    BY DEF IInv, PushInv
  <1>2. Idx(p) = Idx(q)
    BY <1>1, Numbers
  <1> QED
    BY <1>2, PushersApart DEF PushOwner

LEMMA OneLinks ==
  ASSUME IInv, NEW p \in Pushers, NEW q \in Pushers,
         pc[p] \in {"install", "skip", "link"}, pc[q] \in {"install", "skip", "link"},
         loc[p].block = loc[q].block
  PROVE  p = q
  <1>1. Off(Idx(p)) = BlockCap - 1 /\ Off(Idx(q)) = BlockCap - 1
    BY DEF IInv, PushInv
  <1>2. PushOwner(p) /\ PushOwner(q)
    BY DEF PushOwner
  <1>3. Blk(Idx(p)) = Blk(Idx(q))
    BY <1>2, PushSlot
  <1>4. Idx(p) \in Nat /\ Idx(q) \in Nat
    BY Numbers
  <1>5. Idx(p) = Idx(q)
    BY <1>1, <1>3, <1>4, OneIndex
  <1> QED
    BY <1>2, <1>5, PushersApart

LEMMA OneMoves ==
  ASSUME IInv, NEW c \in Poppers, NEW d \in Poppers, Moving(c), Moving(d)
  PROVE  c = d
  <1>1. Idx(c) + 1 = head.index /\ Idx(d) + 1 = head.index
    BY DEF IInv, PopInv
  <1>2. Idx(c) = Idx(d)
    BY <1>1, Numbers
  <1> QED
    BY <1>2, PoppersApart DEF PopOwner, Moving

(* The tail block is the block of the tail, or the next one while the tail  *)
(* has yet to move there.                                                   *)
LEMMA TailBlockIs ==
  ASSUME IInv, tailBlock # Null
  PROVE  /\ tailBlock \in Nat /\ Blk(tail.index) <= tailBlock
         /\ tailBlock = Blk(tail.index) \/ \E p \in Pushers : pc[p] = "skip"
  <1>1. tailBlock \in Nat /\ tail.index \in Nat
    BY DEF IInv, Typed, Pointers, Blocks, Null, Position
  <1>2. CASE Off(tail.index) < BlockCap
    BY <1>1, <1>2, IndexTypes DEF IInv, TailInv
  <1>3. CASE Off(tail.index) = BlockCap
    <2>1. PICK p \in Pushers : pc[p] \in {"install", "skip"}
      BY <1>3 DEF IInv, TailInv
    <2>2. PushInv(p)
      BY DEF IInv
    <2> QED
      BY <1>1, <2>1, <2>2, IndexTypes DEF PushInv
  <1>4. Off(tail.index) \in Nat /\ Off(tail.index) <= BlockCap
    BY <1>1, IndexTypes
  <1>5. Off(tail.index) < BlockCap \/ Off(tail.index) = BlockCap
    BY <1>4, CapType
  <1> QED
    BY <1>2, <1>3, <1>5

(* The head block is the block of the head, or the next one while the head  *)
(* has yet to move there.                                                   *)
LEMMA HeadBlockIs ==
  ASSUME IInv, headBlock # Null
  PROVE  /\ headBlock \in Blocks
         /\ \/ headBlock = Blk(head.index)
            \/ \E c \in Poppers : pc[c] = "moveIndex" /\ headBlock = Blk(head.index) + 1
  <1>1. headBlock \in Blocks /\ head.index \in Nat
    BY DEF IInv, Typed, Pointers, Position
  <1>2. CASE Off(head.index) < BlockCap
    BY <1>1, <1>2 DEF IInv, HeadInv
  <1>3. CASE Off(head.index) = BlockCap
    <2>1. PICK c \in Poppers : Moving(c)
      BY <1>3 DEF IInv, HeadInv
    <2>2. PopInv(c)
      BY DEF IInv
    <2> QED
      BY <1>1, <2>1, <2>2 DEF PopInv, Moving
  <1>4. Off(head.index) \in Nat /\ Off(head.index) <= BlockCap
    BY <1>1, IndexTypes
  <1>5. Off(head.index) < BlockCap \/ Off(head.index) = BlockCap
    BY <1>4, CapType
  <1> QED
    BY <1>2, <1>3, <1>5

(* A block that was freed was read to its end, and all its slots with it.   *)
LEMMA FreedWasRead ==
  ASSUME IInv, dropper.pc = "none", NEW b \in 1..tailBlock, b \notin live
  PROVE  /\ LastRead(b)
         /\ \A i \in Slots : Blk(i) = b /\ Off(i) < BlockCap - 1 => READ \in Bits(i)
  BY DEF IInv, LiveInv

(* A call in progress keeps the drop away. *)
LEMMA BusyNoDrop ==
  ASSUME IInv, NEW t \in Threads, pc[t] # "idle"
  PROVE  dropper.pc = "none"
  BY DEF IInv, DropInv

(* The block that is allocated next. *)
LEMMA FreshIs ==
  ASSUME IInv, dropper.pc = "none"
  PROVE  Fresh = tailBlock + 1
  <1> DEFINE used == {b \in Blocks : b \in live \/ next[b] # Null}
  <1>1. tailBlock \in Nat /\ tailBlock \in Pointers /\ tail.index \in Nat /\ head.index \in Nat
    BY DEF IInv, Typed, Pointers, Blocks, Null, Position
  <1>2. tailBlock <= MaxBlocks
    BY <1>1, BlockTypes DEF Pointers, Blocks, Null
  <1>3. ASSUME NEW b \in used PROVE b \in 1..tailBlock
    <2>1. CASE b \in live
      BY <2>1 DEF IInv, LiveInv
    <2>2. CASE next[b] # Null
      <3>1. b \in Blocks /\ b < Blk(tail.index)
        BY <2>2 DEF IInv, LinkInv
      <3>2. CASE tailBlock = Null
        BY <3>1, <3>2, FirstIndex DEF IInv, TailInv, Blocks
      <3>3. CASE tailBlock # Null
        <4>1. Blk(tail.index) <= tailBlock /\ Blk(tail.index) \in Nat
          BY <3>3, <1>1, TailBlockIs, IndexTypes
        <4> QED
          BY <4>1, <3>1, <1>1 DEF Blocks
      <3> QED BY <3>2, <3>3
    <2> QED BY <2>1, <2>2
  <1>4. ASSUME NEW b \in 1..tailBlock PROVE b \in used
    <2>1. b \in Blocks
      BY <1>1, <1>2, BlockTypes DEF Blocks
    <2>2. CASE b \notin live
      <3>1. b < Blk(head.index)
        BY <2>2, FreedWasRead DEF LastRead
      <3> QED
        BY <3>1, <2>1 DEF IInv, LinkInv
    <2> QED BY <2>1, <2>2
  <1>5. used = 1..tailBlock
    BY <1>3, <1>4
  <1>6. Cardinality(1..tailBlock) = tailBlock
    BY <1>1, FS_Interval
  <1>7. Fresh = 1 + Cardinality(used)
    BY DEF Fresh
  <1> HIDE DEF used
  <1> QED
    BY <1>1, <1>5, <1>6, <1>7

(* There is room for it when it is installed: each block before it is full, *)
(* and there are no more values than slots.                                 *)
LEMMA Full ==
  ASSUME NEW i \in Nat, Off(i) = BlockCap
  PROVE  Num(i) = Blk(i) * BlockCap
  <1> DEFINE q == i \div Lap
  <1>1. q \in Nat /\ i = q * Lap + (Lap - 1)
    BY LapAssumption DEF Off, BlockCap
  <1>2. i - q = (q + 1) * (Lap - 1)
    <2> HIDE DEF q
    <2> QED BY <1>1, LapAssumption
  <1> QED
    BY <1>1, <1>2, LapAssumption DEF Num, Blk, BlockCap

LEMMA Quotient ==
  ASSUME NEW n \in Nat, NEW q \in Nat, NEW d \in Nat, d > 0, q * d <= n
  PROVE  q <= n \div d
  OBVIOUS

LEMMA DistinctValues ==
  ASSUME NEW n \in Nat, NEW S, IsFiniteSet(S), NEW f \in [1..n -> S],
         \A i, j \in 1..n : f[i] = f[j] => i = j
  PROVE  n <= Cardinality(S)
  <1>1. f \in Injection(1..n, S)
    BY DEF Injection, IsInjective
  <1>2. Cardinality(1..n) <= Cardinality(S)
    BY <1>1, FS_Injection
  <1>3. Cardinality(1..n) = n
    BY FS_Interval
  <1> QED
    BY <1>2, <1>3

LEMMA EnoughRoom ==
  ASSUME IInv
  PROVE  /\ Len(entered) \in Nat
         /\ Len(entered) <= Cardinality(Pushers) * MaxPushes
         /\ Cardinality(Pushers) \in Nat
  <1>1. IsFiniteSet(Pushers) /\ Cardinality(Pushers) \in Nat
    BY FS_Subset, FS_CardinalityType, ThreadAssumption DEF Threads
  <1>2. IsFiniteSet(1..MaxPushes) /\ Cardinality(1..MaxPushes) = MaxPushes
    BY FS_Interval, BoundAssumption
  <1>3. IsFiniteSet(Values) /\ Cardinality(Values) = Cardinality(Pushers) * MaxPushes
    BY <1>1, <1>2, FS_Product DEF Values
  <1>4. /\ entered \in [1..Len(entered) -> Values] /\ Len(entered) \in Nat
        /\ \A i, j \in 1..Len(entered) : entered[i] = entered[j] => i = j
    BY DEF IInv, Typed, EnteredInv
  <1>5. Len(entered) <= Cardinality(Values)
    BY <1>3, <1>4, DistinctValues
  <1> QED
    BY <1>1, <1>3, <1>4, <1>5

LEMMA RoomToInstall ==
  ASSUME IInv, NEW t \in Pushers, pc[t] = "install"
  PROVE  tailBlock \in Nat /\ tailBlock + 1 \in Blocks /\ tailBlock = Blk(tail.index)
  <1> DEFINE n == Cardinality(Pushers) * MaxPushes
  <1>1. Off(tail.index) = BlockCap /\ tailBlock = Blk(tail.index)
    BY DEF IInv, PushInv
  <1>2. tail.index \in Nat /\ tailBlock \in Nat
    BY <1>1, Numbers, IndexTypes
  <1>3. Len(entered) = tailBlock * BlockCap
    BY <1>1, <1>2, Full DEF IInv, EnteredInv
  <1>4. n \in Nat /\ tailBlock * BlockCap <= n
    BY <1>3, EnoughRoom, BoundAssumption
  <1>5. tailBlock <= n \div BlockCap
    <2> HIDE DEF n
    <2> QED BY <1>2, <1>4, Quotient, CapType
  <1>6. n \div BlockCap \in Nat
    <2> HIDE DEF n
    <2> QED BY <1>4, CapType
  <1>7. MaxBlocks = 1 + n \div BlockCap
    BY DEF MaxBlocks
  <1> HIDE DEF n
  <1> QED
    BY <1>1, <1>2, <1>5, <1>6, <1>7 DEF Blocks

-----------------------------------------------------------------------------
(* A block is alive as long as somebody has a slot in it, or destroys it.   *)
LEMMA WithinTail ==
  ASSUME IInv, NEW i \in Nat, i <= tail.index, tailBlock # Null
  PROVE  Blk(i) \in 1..tailBlock
  <1>1. tailBlock \in Nat /\ Blk(tail.index) <= tailBlock /\ tail.index \in Nat
    BY TailBlockIs, Numbers
  <1>2. Blk(i) \in Nat /\ Blk(i) > 0 /\ Blk(tail.index) \in Nat /\ Blk(i) <= Blk(tail.index)
    BY <1>1, BlockOrder, IndexTypes
  <1> QED
    BY <1>1, <1>2

LEMMA PusherLive ==
  ASSUME IInv, NEW p \in Pushers, PushOwner(p)
  PROVE  loc[p].block \in live
  <1>1. /\ Idx(p) \in Slots /\ Idx(p) < tail.index /\ Off(Idx(p)) < BlockCap
        /\ loc[p].block = Blk(Idx(p)) /\ WRITE \notin Bits(Idx(p)) /\ tailBlock # Null
    BY PushSlot
  <1>2. Idx(p) \in Nat /\ Off(Idx(p)) \in Nat /\ tail.index \in Nat
    BY <1>1, SlotOfIndex, IndexTypes, Numbers
  <1>3. Blk(Idx(p)) \in 1..tailBlock
    BY <1>1, <1>2, WithinTail
  <1>4. dropper.pc = "none"
    BY BusyNoDrop, Numbers DEF PushOwner
  <1> SUFFICES ASSUME Blk(Idx(p)) \notin live PROVE FALSE
    BY <1>1
  <1>5. LastRead(Blk(Idx(p))) /\ (Off(Idx(p)) < BlockCap - 1 => READ \in Bits(Idx(p)))
    BY <1>1, <1>3, <1>4, FreedWasRead
  <1>6. SlotInv(Idx(p))
    BY <1>1 DEF IInv
  <1>7. READ \notin Bits(Idx(p))
    BY <1>1, <1>6 DEF SlotInv
  <1>8. Off(Idx(p)) = BlockCap - 1
    BY <1>1, <1>2, <1>5, <1>7, CapType
  <1>9. Idx(p) < head.index
    <2>1. head.index \in Nat
      BY Numbers
    <2>2. Blk(Idx(p)) < Blk(head.index)
      BY <1>5 DEF LastRead
    <2> QED
      BY <1>2, <2>1, <2>2, EarlierBlock
  <1>10. PICK c \in Poppers : PopOwner(c) /\ Idx(c) = Idx(p)
    BY <1>1, <1>6, <1>9 DEF SlotInv
  <1>11. loc[c].block = Blk(Idx(p))
    BY <1>10, PopSlot
  <1> QED
    BY <1>5, <1>8, <1>10, <1>11, CapType DEF LastRead

LEMMA PopperLive ==
  ASSUME IInv, NEW c \in Poppers, PopOwner(c)
  PROVE  loc[c].block \in live
  <1>1. /\ Idx(c) \in Slots /\ Idx(c) < head.index /\ Off(Idx(c)) < BlockCap
        /\ loc[c].block = Blk(Idx(c)) /\ READ \notin Bits(Idx(c)) /\ headBlock # Null
    BY PopSlot
  <1>2. /\ Idx(c) \in Nat /\ Off(Idx(c)) \in Nat /\ tail.index \in Nat /\ head.index \in Nat
        /\ head.index <= tail.index /\ tailBlock # Null
    BY <1>1, SlotOfIndex, IndexTypes, Numbers DEF IInv, HeadInv
  <1>3. Blk(Idx(c)) \in 1..tailBlock
    BY <1>1, <1>2, WithinTail
  <1>4. dropper.pc = "none"
    BY BusyNoDrop, Numbers DEF PopOwner
  <1> SUFFICES ASSUME Blk(Idx(c)) \notin live PROVE FALSE
    BY <1>1
  <1>5. LastRead(Blk(Idx(c))) /\ (Off(Idx(c)) < BlockCap - 1 => READ \in Bits(Idx(c)))
    BY <1>1, <1>3, <1>4, FreedWasRead
  <1> QED
    BY <1>1, <1>5 DEF LastRead

(* The block that the head moves to is there.                               *)
LEMMA NextLive ==
  ASSUME IInv, dropper.pc = "none", NEW b \in Blocks, Blk(head.index) <= b,
         b <= Blk(tail.index), tailBlock # Null
  PROVE  b \in live
  <1>1. tailBlock \in Nat /\ Blk(tail.index) <= tailBlock /\ Blk(tail.index) \in Nat /\ Blk(head.index) \in Nat
    BY TailBlockIs, Numbers, IndexTypes
  <1>2. b \in 1..tailBlock
    BY <1>1 DEF Blocks
  <1>3. b \notin live => b < Blk(head.index)
    BY <1>2, FreedWasRead DEF LastRead
  <1> QED
    BY <1>1, <1>3 DEF Blocks

LEMMA PeekLive ==
  ASSUME IInv, NEW c \in Poppers, pc[c] \in {"peek", "moveBlock", "moveIndex"}
  PROVE  /\ loc[c].fresh \in live
         /\ loc[c].fresh = Blk(head.index) + 1 /\ loc[c].fresh <= Blk(tail.index)
         /\ loc[c].block = Blk(head.index)
  <1>1. PopOwner(c) /\ Moving(c) /\ dropper.pc = "none"
    BY BusyNoDrop, Numbers DEF PopOwner, Moving
  <1>2. /\ loc[c].fresh = loc[c].block + 1 /\ next[loc[c].block] # Null
        /\ Idx(c) + 1 = head.index /\ Off(head.index) = BlockCap
    BY <1>1 DEF IInv, PopInv
  <1>3. loc[c].block = Blk(Idx(c)) /\ Idx(c) \in Slots /\ headBlock # Null
    BY <1>1, PopSlot
  <1>4. Idx(c) \in Nat /\ head.index \in Nat /\ tail.index \in Nat /\ loc[c].block \in Blocks
    BY <1>3, SlotOfIndex, Numbers
  <1>5. loc[c].block = Blk(head.index)
    BY <1>2, <1>3, <1>4, AfterLast
  <1>6. loc[c].block < Blk(tail.index) /\ Blk(tail.index) \in Nat
    BY <1>2, <1>4, IndexTypes DEF IInv, LinkInv
  <1>7. loc[c].fresh \in Blocks
    BY <1>4, <1>2, Numbers DEF Memory, Blocks, Pointers, Null
  <1>8. tailBlock # Null
    BY <1>3 DEF IInv, HeadInv
  <1> QED
    BY <1>1, <1>2, <1>4, <1>5, <1>6, <1>7, <1>8, NextLive DEF Blocks

LEMMA AllWritten ==
  ASSUME IInv, NEW i \in Slots, i < tail.index, \A t \in Threads : pc[t] = "idle"
  PROVE  WRITE \in Bits(i)
  BY Numbers DEF IInv, SlotInv, PushOwner

-----------------------------------------------------------------------------
(* The invariant implies the properties. *)
LEMMA InvMemorySafe == IInv => MemorySafe
  <1> SUFFICES ASSUME IInv PROVE MemorySafe
    OBVIOUS
  <1>1. ASSUME NEW t \in Threads PROVE Touched(t) \subseteq live
    <2>1. CASE t \in Pushers
      <3>1. pc[t] \in PushPlaces \cup {"idle"}
        BY <2>1 DEF IInv, Typed
      <3>2. pc[t] \in {"install", "link", "write"} => loc[t].block \in live
        BY <2>1, PusherLive DEF PushOwner
      <3> QED
        BY <3>1, <3>2 DEF Touched, PushPlaces
    <2>2. CASE t \in Poppers
      <3>1. pc[t] \in {"waitNext", "read", "mark"} => loc[t].block \in live
        BY <2>2, PopperLive DEF PopOwner
      <3>2. pc[t] = "peek" => loc[t].fresh \in live
        BY <2>2, PeekLive
      <3>3. pc[t] = "destroy" => loc[t].block \in live
        BY <2>2 DEF IInv, DestroyInv
      <3>4. pc[t] \in PopPlaces \cup {"idle"}
        BY <2>2 DEF IInv, Typed
      <3> QED
        BY <3>1, <3>2, <3>3, <3>4 DEF Touched, PopPlaces
    <2> QED BY <2>1, <2>2 DEF Threads
  <1>2. ASSUME dropper.pc = "none" PROVE {headBlock, tailBlock} \ {Null} \subseteq live
    <2>1. headBlock # Null => tailBlock # Null
      BY DEF IInv, HeadInv
    <2>2. ASSUME tailBlock # Null PROVE tailBlock \in live
      <3>1. tailBlock \in Blocks /\ head.index \in Nat /\ tail.index \in Nat /\ head.index <= tail.index
        BY <2>2, Numbers DEF IInv, Typed, Pointers
      <3>2. Blk(tail.index) <= tailBlock
        BY <2>2, TailBlockIs
      <3>3. Blk(head.index) <= Blk(tail.index) /\ Blk(head.index) \in Nat /\ Blk(tail.index) \in Nat
        BY <3>1, BlockOrder, IndexTypes
      <3>4. tailBlock \notin live => tailBlock < Blk(head.index)
        BY <1>2, <3>1, FreedWasRead DEF LastRead, Blocks
      <3> QED
        BY <3>1, <3>2, <3>3, <3>4 DEF Blocks
    <2>3. ASSUME headBlock # Null PROVE headBlock \in live
      <3>1. CASE headBlock = Blk(head.index)
        <4>1. head.index \in Nat /\ tail.index \in Nat /\ head.index <= tail.index
          BY Numbers
        <4>2. Blk(head.index) <= Blk(tail.index) /\ Blk(head.index) \in Nat
          BY <4>1, BlockOrder, IndexTypes
        <4> QED
          BY <1>2, <2>1, <2>3, <3>1, <4>2, NextLive, HeadBlockIs
      <3>2. ASSUME NEW c \in Poppers, pc[c] = "moveIndex", headBlock = Blk(head.index) + 1
            PROVE  headBlock \in live
        BY <3>2, PeekLive
      <3> QED BY <2>3, <3>1, <3>2, HeadBlockIs
    <2> QED BY <2>1, <2>2, <2>3
  <1>3. ASSUME dropper.pc = "walk", dropper.index # tail.index
        PROVE  /\ dropper.block \in live
               /\ dropper.index % Lap < BlockCap =>
                      state[<<dropper.block, dropper.index % Lap>>] = {WRITE}
    <2> DEFINE i == dropper.index
    <2>1. /\ \A t \in Threads : pc[t] = "idle"
          /\ head.index <= i /\ i <= tail.index
          /\ headBlock # Null => dropper.block = Blk(i) /\ live = dropper.block..tailBlock
          /\ headBlock = Null => tail.index = 0
      BY <1>3 DEF IInv, DropInv
    <2>2. i \in Nat /\ head.index \in Nat /\ tail.index \in Nat /\ i < tail.index
      BY <1>3, <2>1, Numbers DEF IInv, Typed
    <2>3. headBlock # Null /\ tailBlock # Null
      BY <2>1, <2>2 DEF IInv, HeadInv
    <2>4. dropper.block = Blk(i) /\ live = dropper.block..tailBlock
      BY <2>1, <2>3
    <2>5. Blk(i) \in 1..tailBlock
      BY <2>2, <2>3, WithinTail
    <2>6. dropper.block \in live
      BY <2>4, <2>5
    <2>7. ASSUME Off(i) < BlockCap PROVE Bits(i) = {WRITE}
      <3>1. i \in Slots
        <4>1. Blk(i) \in Blocks
          BY <2>4, <2>6 DEF IInv, Typed
        <4> QED BY <2>2, <2>7, <4>1 DEF Slots
      <3>2. SlotInv(i)
        BY <3>1 DEF IInv
      <3>3. WRITE \in Bits(i)
        BY <2>1, <2>2, <3>1, AllWritten
      <3>4. READ \notin Bits(i)
        BY <2>1, <2>2, <3>2 DEF SlotInv
      <3>5. Blk(head.index) <= Blk(i) /\ Blk(head.index) \in Nat /\ Blk(i) \in Nat
        BY <2>1, <2>2, BlockOrder, IndexTypes
      <3>6. DESTROY \notin Bits(i)
        BY <3>2, <3>5 DEF SlotInv, LastRead
      <3>7. Bits(i) \subseteq {WRITE, READ, DESTROY}
        BY <3>1, SlotOfIndex DEF IInv, Typed, Bits
      <3> QED
        BY <3>3, <3>4, <3>6, <3>7
    <2> QED
      BY <2>4, <2>6, <2>7 DEF Bits, Off
  <1>4. dropper.pc = "done" => live = {}
    BY DEF IInv, DropInv
  <1> QED
    BY <1>1, <1>2, <1>3, <1>4 DEF MemorySafe

LEMMA InvWaitsForAnother == IInv => WaitsForAnother
  <1> SUFFICES ASSUME IInv PROVE WaitsForAnother
    OBVIOUS
  <1>1. Offset(tail) = BlockCap => SomeoneAt(Pushers, {"install", "skip"})
    BY DEF IInv, TailInv, Offset, Off, SomeoneAt
  <1>2. Offset(head) = BlockCap =>
          SomeoneAt(Poppers, {"waitNext", "peek", "moveBlock", "moveIndex"})
    BY DEF IInv, HeadInv, Offset, Off, SomeoneAt, Moving
  <1>3. headBlock = Null /\ tail.index > 0 => SomeoneAt(Pushers, {"headBlock"})
    BY DEF IInv, HeadInv, TailInv, SomeoneAt
  <1>4. ASSUME NEW c \in Poppers, pc[c] = "waitNext", next[loc[c].block] = Null
        PROVE  \E p \in Pushers : pc[p] \in {"install", "skip", "link"} /\ loc[p].block = loc[c].block
    <2>1. /\ Idx(c) + 1 = head.index /\ Off(head.index) = BlockCap
          /\ loc[c].block = Blk(Idx(c)) /\ Idx(c) \in Slots /\ Blk(Idx(c)) \in Blocks
          /\ Idx(c) \in Nat /\ head.index \in Nat /\ tail.index \in Nat /\ head.index <= tail.index
      BY <1>4, PopSlot, SlotOfIndex, Numbers DEF PopOwner, Moving, IInv, PopInv
    <2>2. loc[c].block = Blk(head.index)
      BY <2>1, AfterLast
    <2>3. CASE loc[c].block < Blk(tail.index)
      BY <1>4, <2>1, <2>3 DEF IInv, LinkInv
    <2>4. CASE ~(loc[c].block < Blk(tail.index))
      <3>1. Blk(tail.index) = Blk(head.index)
        <4>1. Blk(head.index) <= Blk(tail.index) /\ Blk(head.index) \in Nat /\ Blk(tail.index) \in Nat
          BY <2>1, BlockOrder, IndexTypes
        <4> QED
          BY <4>1, <2>2, <2>4
      <3>2. Off(tail.index) \in Nat /\ Off(tail.index) <= BlockCap
        BY <2>1, IndexTypes
      <3>3. Off(tail.index) = BlockCap
        BY <2>1, <3>1, <3>2, OneIndex, CapType
      <3>4. PICK p \in Pushers : pc[p] \in {"install", "skip"}
        BY <3>3 DEF IInv, TailInv
      <3>5. Idx(p) + 1 = tail.index /\ loc[p].block = Blk(Idx(p)) /\ Idx(p) \in Nat
        BY <3>4, PushSlot, Numbers DEF IInv, PushInv, PushOwner
      <3>6. loc[p].block = Blk(tail.index)
        BY <2>1, <3>3, <3>5, AfterLast
      <3> QED
        BY <2>2, <3>1, <3>4, <3>6
    <2> QED BY <2>3, <2>4
  <1>5. ASSUME NEW c \in Poppers, pc[c] = "read", WRITE \notin state[Slot(c)]
        PROVE  \E p \in Pushers : /\ pc[p] \in {"install", "skip", "link", "write"}
                                  /\ Slot(p) = Slot(c)
    <2>1. Idx(c) \in Slots /\ Idx(c) < head.index /\ Slot(c) = <<Blk(Idx(c)), Off(Idx(c))>>
      BY <1>5, PopSlot DEF PopOwner
    <2>2. Idx(c) < tail.index
      BY <2>1, Numbers, SlotOfIndex
    <2>3. PICK p \in Pushers : PushOwner(p) /\ Idx(p) = Idx(c)
      BY <1>5, <2>1, <2>2 DEF IInv, SlotInv, Bits
    <2> QED
      BY <2>1, <2>3, PushSlot DEF PushOwner
  <1> QED
    BY <1>1, <1>2, <1>3, <1>4, <1>5 DEF WaitsForAnother

-----------------------------------------------------------------------------
(* The initial states. *)
LEMMA InitIInv == Init => IInv
  <1> SUFFICES ASSUME Init PROVE IInv
    OBVIOUS
  <1> USE DEF Init
  <1>1. Typed
    <2>1. /\ NoPos \in Position /\ Null \in Pointers /\ F!NoResult \in Results
          /\ NoLocals \in Memory
          /\ {} \in SUBSET {WRITE, READ, DESTROY} /\ 0 \in Nat /\ 0 <= MaxPushes
      BY BoundAssumption DEF NoPos, NoLocals, Memory, Position, Pointers, Null, Results
    <2>2. <<>> \in Seq(Values)
      OBVIOUS
    <2> QED
      BY <2>1, <2>2 DEF Typed, Threads
  <1>2. EnteredInv
    BY FirstIndex DEF EnteredInv, NoPos
  <1>3. TailInv /\ HeadInv
    BY FirstIndex, CapType DEF TailInv, HeadInv, NoPos
  <1>4. LinkInv
    BY FirstIndex DEF LinkInv, NoPos, Blocks
  <1>5. ASSUME NEW p \in Pushers PROVE PushInv(p)
    BY DEF PushInv, PushOwner, Idx, Threads, NoPos, NoLocals
  <1>6. ASSUME NEW c \in Poppers PROVE PopInv(c) /\ DestroyInv(c)
    BY DEF PopInv, DestroyInv, PopOwner, Moving, Idx, Threads, NoPos, NoLocals
  <1>7. OnePerPlace
    BY DEF OnePerPlace, PopOwner, Threads
  <1>8. ASSUME NEW i \in Slots PROVE SlotInv(i)
    <2>1. Bits(i) = {}
      BY SlotOfIndex DEF Bits
    <2>2. head.index = 0 /\ tail.index = 0 /\ i \in Nat
      BY SlotOfIndex DEF NoPos
    <2>3. ~(i < 0) /\ WRITE \notin Bits(i) /\ READ \notin Bits(i) /\ DESTROY \notin Bits(i)
      BY <2>1, <2>2
    <2> HIDE DEF Init
    <2> QED
      BY <2>2, <2>3 DEF SlotInv
  <1>9. LiveInv /\ DropInv
    BY DEF LiveInv, DropInv, Null
  <1> QED
    BY <1>1, <1>2, <1>3, <1>4, <1>5, <1>6, <1>7, <1>8, <1>9 DEF IInv

-----------------------------------------------------------------------------
(* Steps that only look: a thread that has no slot, and gets none, moves on *)
(* and everything else stays.                                               *)
Calm == {"idle", "index", "block", "first", "advance", "head", "tail", "claim"}

Others(t) ==
    \A u \in Threads \ {t} : /\ pc'[u] = pc[u] /\ loc'[u] = loc[u]
                             /\ calls'[u] = calls[u] /\ result'[u] = result[u]

Looks(t) ==
    /\ Others(t) /\ UNCHANGED <<queueVars, blockVars, dropper, history>>
    /\ dropper.pc = "none"
    /\ pc[t] \in Calm /\ pc'[t] \in Calm
    /\ (pc[t] # "idle" /\ calls'[t] = calls[t]) \/ calls'[t] = calls[t] + 1

LEMMA LooksKeeps ==
  ASSUME IInv, NEW t \in Threads, Looks(t)
  PROVE  /\ EnteredInv' /\ TailInv' /\ HeadInv' /\ LinkInv' /\ OnePerPlace'
         /\ \A p \in Pushers \ {t} : PushInv(p)'
         /\ \A c \in Poppers \ {t} : PopInv(c)'
         /\ \A i \in Slots : SlotInv(i)'
         /\ \A c \in Poppers : DestroyInv(c)'
         /\ LiveInv' /\ DropInv'
  <1>1. /\ head' = head /\ tail' = tail /\ headBlock' = headBlock /\ tailBlock' = tailBlock
        /\ next' = next /\ cell' = cell /\ state' = state /\ live' = live
        /\ dropper' = dropper /\ entered' = entered /\ left' = left
        /\ dropper.pc = "none" /\ pc[t] \in Calm /\ pc'[t] \in Calm
        /\ (pc[t] # "idle" /\ calls'[t] = calls[t]) \/ calls'[t] = calls[t] + 1
    BY DEF Looks, queueVars, blockVars, history
  <1>2. \A u \in Threads : u # t => /\ pc'[u] = pc[u] /\ loc'[u] = loc[u]
                                    /\ calls'[u] = calls[u] /\ result'[u] = result[u]
    BY DEF Looks, Others
  <1>3. Pushers \subseteq Threads /\ Poppers \subseteq Threads
    BY Numbers
  <1>4. \A p \in Pushers : PushOwner(p)' <=> PushOwner(p)
    BY <1>1, <1>2, <1>3 DEF PushOwner, Calm
  <1>5. \A c \in Poppers : PopOwner(c)' <=> PopOwner(c)
    BY <1>1, <1>2, <1>3 DEF PopOwner, Calm
  <1>6. \A p \in Pushers : PushOwner(p) => p # t /\ Idx(p)' = Idx(p)
    BY <1>1, <1>2, <1>3 DEF PushOwner, Calm, Idx
  <1>7. \A c \in Poppers : PopOwner(c) => c # t /\ Idx(c)' = Idx(c)
    BY <1>1, <1>2, <1>3 DEF PopOwner, Calm, Idx
  <1>8. \A i \in Slots : Bits(i)' = Bits(i)
    BY <1>1 DEF Bits
  <1>9. \A b \in Nat : LastRead(b)' <=> LastRead(b)
    BY <1>1, <1>2, <1>3, <1>5, <1>7 DEF LastRead
  <1>10. EnteredInv'
    <2>1. \A i \in 1..Len(entered) : entered[i] \in Values /\ entered[i][1] \in Pushers /\ entered[i][2] \in Nat
      BY DEF IInv, Typed, Values
    <2>2. calls[t] \in Nat
      BY DEF IInv, Typed
    <2> QED
      BY <1>1, <1>2, <1>3, <1>4, <2>1, <2>2 DEF IInv, EnteredInv, Calm, PushOwner
  <1>11. TailInv'
    BY <1>1, <1>2, <1>3 DEF IInv, TailInv, Calm
  <1>12. HeadInv'
    BY <1>1, <1>2, <1>3 DEF IInv, HeadInv, Calm, Moving
  <1>13. LinkInv'
    BY <1>1, <1>2, <1>3 DEF IInv, LinkInv, Calm
  <1>14. OnePerPlace'
    BY <1>1, <1>2, <1>3, <1>5, <1>7 DEF IInv, OnePerPlace, Calm
  <1>15. ASSUME NEW p \in Pushers, p # t PROVE PushInv(p)'
    <2>1. PushInv(p) /\ pc'[p] = pc[p] /\ loc'[p] = loc[p] /\ calls'[p] = calls[p]
      BY <1>2, <1>3, <1>15 DEF IInv
    <2> QED
      BY <1>1, <2>1 DEF PushInv, PushOwner, Idx, Bits
  <1>16. ASSUME NEW c \in Poppers, c # t PROVE PopInv(c)'
    <2>1. PopInv(c) /\ pc'[c] = pc[c] /\ loc'[c] = loc[c] /\ result'[c] = result[c]
      BY <1>2, <1>3, <1>16 DEF IInv
    <2> QED
      BY <1>1, <2>1 DEF PopInv, PopOwner, Moving, Idx, Bits
  <1>17. ASSUME NEW i \in Slots PROVE SlotInv(i)'
    <2>1. SlotInv(i) /\ i \in Nat /\ Blk(i) \in Nat
      BY SlotOfIndex, IndexTypes DEF IInv
    <2> QED
      BY <1>1, <1>4, <1>5, <1>6, <1>7, <1>8, <1>9, <1>17, <2>1 DEF SlotInv
  <1>18. ASSUME NEW c \in Poppers PROVE DestroyInv(c)'
    <2>1. DestroyInv(c) /\ loc[c].block \in Nat
      BY <1>3, Numbers DEF IInv, Memory, Pointers, Blocks, Null
    <2> QED
      BY <1>1, <1>2, <1>3, <1>8, <1>9, <2>1 DEF DestroyInv, Calm
  <1>19. LiveInv'
    <2>1. live \subseteq Nat /\ 1..tailBlock \subseteq Nat
      BY DEF IInv, Typed, Blocks
    <2> QED
      BY <1>1, <1>2, <1>3, <1>8, <1>9, <2>1 DEF IInv, LiveInv, Calm
  <1>20. DropInv'
    BY <1>1 DEF DropInv
  <1> QED
    BY <1>10, <1>11, <1>12, <1>13, <1>14, <1>15, <1>16, <1>17, <1>18, <1>19, <1>20

LEMMA Disjoint == \A p \in Pushers, c \in Poppers : p # c
  BY ThreadAssumption

LEMMA PushLooked ==
  ASSUME IInv, NEW t \in Pushers, Looks(t), Typed', PushInv(t)'
  PROVE  IInv'
  <1>1. t \in Threads /\ t \notin Poppers
    BY Disjoint DEF Threads
  <1> QED
    BY <1>1, LooksKeeps DEF IInv

LEMMA PopLooked ==
  ASSUME IInv, NEW t \in Poppers, Looks(t), Typed', PopInv(t)'
  PROVE  IInv'
  <1>1. t \in Threads /\ t \notin Pushers
    BY Disjoint DEF Threads
  <1> QED
    BY <1>1, LooksKeeps DEF IInv

(* A step of one thread keeps the types of what threads have. *)
ThreadTyped ==
    /\ pc \in [Threads -> PushPlaces \cup PopPlaces \cup {"idle"}]
    /\ \A p \in Pushers : pc[p] \in PushPlaces \cup {"idle"}
    /\ \A c \in Poppers : pc[c] \in PopPlaces \cup {"idle"}
    /\ loc \in [Threads -> Memory]
    /\ result \in [Threads -> Results]

Moves(t, place, memory, answer) ==
    /\ pc' = [pc EXCEPT ![t] = place]
    /\ loc' = [loc EXCEPT ![t] = memory]
    /\ result' = [result EXCEPT ![t] = answer]

LEMMA Stays ==
  ASSUME Typed, NEW t \in Threads
  PROVE  /\ loc = [loc EXCEPT ![t] = loc[t]] /\ result = [result EXCEPT ![t] = result[t]]
         /\ pc = [pc EXCEPT ![t] = pc[t]]
         /\ loc[t] \in Memory /\ result[t] \in Results
  BY DEF Typed

LEMMA MovesTyped ==
  ASSUME Typed, NEW t \in Threads, NEW x, NEW m \in Memory, NEW r \in Results, Moves(t, x, m, r),
         \/ t \in Pushers /\ x \in PushPlaces \cup {"idle"}
         \/ t \in Poppers /\ x \in PopPlaces \cup {"idle"}
  PROVE  /\ ThreadTyped'
         /\ pc'[t] = x /\ loc'[t] = m /\ result'[t] = r
         /\ \A u \in Threads : u # t => pc'[u] = pc[u] /\ loc'[u] = loc[u] /\ result'[u] = result[u]
  <1>1. /\ pc \in [Threads -> PushPlaces \cup PopPlaces \cup {"idle"}]
        /\ \A p \in Pushers : pc[p] \in PushPlaces \cup {"idle"}
        /\ \A c \in Poppers : pc[c] \in PopPlaces \cup {"idle"}
        /\ loc \in [Threads -> Memory] /\ result \in [Threads -> Results]
    BY DEF Typed
  <1>2. /\ pc' = [pc EXCEPT ![t] = x] /\ loc' = [loc EXCEPT ![t] = m] /\ result' = [result EXCEPT ![t] = r]
    BY DEF Moves
  <1>3. loc' \in [Threads -> Memory] /\ result' \in [Threads -> Results]
    BY <1>1, <1>2
  <1>4. pc' \in [Threads -> PushPlaces \cup PopPlaces \cup {"idle"}]
    BY <1>1, <1>2
  <1>5. /\ \A p \in Pushers : pc'[p] \in PushPlaces \cup {"idle"}
        /\ \A c \in Poppers : pc'[c] \in PopPlaces \cup {"idle"}
    BY <1>1, <1>2, Disjoint DEF Threads
  <1>6. /\ pc'[t] = x /\ loc'[t] = m /\ result'[t] = r
        /\ \A u \in Threads : u # t => pc'[u] = pc[u] /\ loc'[u] = loc[u] /\ result'[u] = result[u]
    BY <1>1, <1>2
  <1> QED
    BY <1>3, <1>4, <1>5, <1>6 DEF ThreadTyped

LEMMA MemoryFields ==
  ASSUME NEW m \in Memory
  PROVE  /\ \A p \in Position : [m EXCEPT !.pos = p] \in Memory
         /\ \A b \in Pointers : [m EXCEPT !.block = b] \in Memory
         /\ \A b \in Pointers : [m EXCEPT !.fresh = b] \in Memory
         /\ \A k \in BOOLEAN : [m EXCEPT !.mark = k] \in Memory
         /\ \A n \in Nat : [m EXCEPT !.slot = n] \in Memory
  BY DEF Memory

LEMMA NoMemory == NoLocals \in Memory /\ NoLocals.pos.index = 0 /\ NoLocals.slot = 0
  <1>1. NoPos \in Position /\ Null \in Pointers
    BY DEF NoPos, Position, Pointers
  <1> QED
    BY <1>1 DEF NoPos, NoLocals, Memory

LEMMA PushStartKeeps ==
  ASSUME IInv, NEW t \in Pushers, PushStart(t)
  PROVE  IInv'
  <1>1. t \in Threads
    BY Numbers
  <1>2. Typed
    BY DEF IInv
  <1> USE DEF PushStart, Goto, queueVars, blockVars, history
  <1>3. Looks(t)
    BY <1>1, <1>2 DEF Looks, Others, Typed, Calm, queueVars, blockVars, history
  <1>4. Typed'
    BY <1>1, <1>2, Disjoint, BoundAssumption DEF Typed, PushPlaces
  <1>5. PushInv(t)'
    <2>1. pc'[t] = "index" /\ calls'[t] > 0 /\ loc' = loc /\ tail' = tail
      BY <1>1, <1>2 DEF Typed
    <2>2. Idx(t) <= tail.index
      BY DEF IInv, PushInv
    <2> QED
      BY <2>1, <2>2 DEF PushInv, PushOwner, Idx
  <1> QED
    BY <1>3, <1>4, <1>5, PushLooked

LEMMA PushSeesKeeps ==
  ASSUME IInv, NEW t \in Pushers, pc[t] \in {"index", "advance"}, PushSees(t, tail),
         UNCHANGED <<queueVars, blockVars, calls, dropper, history>>
  PROVE  IInv'
  <1> DEFINE m == [loc[t] EXCEPT !.pos = tail]
  <1>1. t \in Threads /\ dropper.pc = "none" /\ Typed /\ tail \in Position
    BY Numbers, BusyNoDrop DEF IInv, Typed
  <1>2. /\ m \in Memory /\ m.pos = tail
        /\ NoLocals \in Memory /\ NoLocals.pos.index = 0
        /\ F!Refused \in Results /\ result[t] \in Results
    BY <1>1, Stays, MemoryFields, NoMemory DEF Results, Memory
  <1>3. \/ tail.mark /\ Moves(t, "idle", NoLocals, F!Refused)
        \/ ~tail.mark /\ Moves(t, "block", m, result[t])
    BY <1>1, Stays DEF PushSees, Return, Goto, Local, Moves
  <1>4. UNCHANGED <<head, headBlock, tail, tailBlock, next, cell, state, live, calls,
                    dropper, entered, left>>
    BY DEF queueVars, blockVars, history
  <1> HIDE DEF m
  <1>5. /\ ThreadTyped'
        /\ \A u \in Threads : u # t => pc'[u] = pc[u] /\ loc'[u] = loc[u] /\ result'[u] = result[u]
        /\ \/ pc'[t] = "idle" /\ loc'[t] = NoLocals
           \/ pc'[t] = "block" /\ loc'[t] = m /\ ~tail.mark
    BY <1>1, <1>2, <1>3, MovesTyped DEF PushPlaces
  <1>6. Looks(t)
    BY <1>1, <1>4, <1>5 DEF Looks, Others, Calm, queueVars, blockVars, history
  <1>7. Typed'
    BY <1>1, <1>4, <1>5 DEF Typed, ThreadTyped
  <1>8. PushInv(t)'
    <2>1. tail.index \in Nat /\ (pc[t] # "idle" => calls[t] > 0)
      BY Numbers DEF IInv, PushInv
    <2> QED
      BY <1>2, <1>4, <1>5, <2>1 DEF PushInv, PushOwner, Idx
  <1> QED
    BY <1>6, <1>7, <1>8, PushLooked

LEMMA PushBlockKeeps ==
  ASSUME IInv, NEW t \in Pushers, PushBlock(t)
  PROVE  IInv'
  <1> DEFINE m == [loc[t] EXCEPT !.block = tailBlock]
  <1>1. t \in Threads /\ dropper.pc = "none" /\ Typed /\ tailBlock \in Pointers /\ pc[t] = "block"
    BY Numbers, BusyNoDrop DEF IInv, Typed, PushBlock
  <1>2. /\ m \in Memory /\ m.pos = loc[t].pos /\ m.block = tailBlock
        /\ loc[t] \in Memory /\ result[t] \in Results
    BY <1>1, Stays, MemoryFields DEF Memory
  <1>3. \/ Moves(t, "index", loc[t], result[t])
        \/ Off(Idx(t)) # BlockCap /\ tailBlock = Null /\ Moves(t, "first", m, result[t])
        \/ Off(Idx(t)) # BlockCap /\ tailBlock # Null /\ Moves(t, "advance", m, result[t])
    BY <1>1, Stays DEF PushBlock, Goto, Local, Offset, Off, Idx, Moves
  <1>4. UNCHANGED <<head, headBlock, tail, tailBlock, next, cell, state, live, calls,
                    result, dropper, entered, left>>
    BY DEF PushBlock, queueVars, blockVars, history
  <1> HIDE DEF m
  <1>5. /\ ThreadTyped'
        /\ \A u \in Threads : u # t => pc'[u] = pc[u] /\ loc'[u] = loc[u] /\ result'[u] = result[u]
        /\ \/ pc'[t] = "index" /\ loc'[t] = loc[t]
           \/ pc'[t] = "first" /\ loc'[t] = m /\ Off(Idx(t)) # BlockCap
           \/ pc'[t] = "advance" /\ loc'[t] = m /\ Off(Idx(t)) # BlockCap /\ tailBlock # Null
    BY <1>1, <1>2, <1>3, MovesTyped DEF PushPlaces
  <1>6. Looks(t)
    BY <1>1, <1>4, <1>5 DEF Looks, Others, Calm, queueVars, blockVars, history
  <1>7. Typed'
    BY <1>1, <1>4, <1>5 DEF Typed, ThreadTyped
  <1>8. PushInv(t)'
    <2>1. Idx(t)' = Idx(t)
      BY <1>2, <1>5 DEF Idx
    <2>2. Idx(t) \in Nat /\ tail.index \in Nat /\ PushInv(t) /\ TailInv
      BY <1>1, Numbers DEF IInv
    <2>3. Off(Idx(t)) # BlockCap => Off(Idx(t)) < BlockCap
      BY <2>2, WaitingOrNot
    <2> QED
      BY <1>1, <1>2, <1>4, <1>5, <2>1, <2>2, <2>3 DEF PushInv, PushOwner, TailInv
  <1> QED
    BY <1>6, <1>7, <1>8, PushLooked

LEMMA PushIndexKeeps ==
  ASSUME IInv, NEW t \in Pushers, PushIndex(t) \/ PushRetry(t)
  PROVE  IInv'
  BY PushSeesKeeps DEF PushIndex, PushRetry

LEMMA PopStartKeeps ==
  ASSUME IInv, NEW t \in Poppers, PopStart(t)
  PROVE  IInv'
  <1>1. t \in Threads
    BY Numbers
  <1>2. Typed
    BY DEF IInv
  <1> USE DEF PopStart, Goto, queueVars, blockVars, history
  <1>3. Looks(t)
    BY <1>1, <1>2 DEF Looks, Others, Typed, Calm, queueVars, blockVars, history
  <1>4. Typed'
    BY <1>1, <1>2, Disjoint, BoundAssumption DEF Typed, PopPlaces
  <1>5. PopInv(t)'
    <2>1. pc'[t] = "head" /\ loc' = loc /\ head' = head
      BY <1>1, <1>2 DEF Typed
    <2>2. Idx(t) <= head.index /\ loc[t].slot = 0
      BY DEF IInv, PopInv
    <2> QED
      BY <2>1, <2>2 DEF PopInv, PopOwner, Moving, Idx
  <1> QED
    BY <1>3, <1>4, <1>5, PopLooked

LEMMA PopHeadKeeps ==
  ASSUME IInv, NEW t \in Poppers, PopHead(t) \/ PopRetry(t)
  PROVE  IInv'
  <1> DEFINE m == [loc[t] EXCEPT !.pos = head]
  <1>1. t \in Threads /\ dropper.pc = "none" /\ Typed /\ head \in Position /\ pc[t] \in {"head", "claim"}
    BY Numbers, BusyNoDrop DEF IInv, Typed, PopHead, PopRetry
  <1>2. /\ m \in Memory /\ m.pos = head /\ m.slot = loc[t].slot
        /\ loc[t] \in Memory /\ result[t] \in Results
    BY <1>1, Stays, MemoryFields DEF Memory
  <1>3. Moves(t, "block", m, result[t])
    BY <1>1, Stays DEF PopHead, PopRetry, Goto, Local, Moves
  <1>4. UNCHANGED <<head, headBlock, tail, tailBlock, next, cell, state, live, calls,
                    dropper, entered, left>>
    BY DEF PopHead, PopRetry, queueVars, blockVars, history
  <1> HIDE DEF m
  <1>5. /\ ThreadTyped'
        /\ \A u \in Threads : u # t => pc'[u] = pc[u] /\ loc'[u] = loc[u] /\ result'[u] = result[u]
        /\ pc'[t] = "block" /\ loc'[t] = m
    <2>1. "block" \in PopPlaces \cup {"idle"}
      BY DEF PopPlaces
    <2> QED
      BY <1>1, <1>2, <1>3, <2>1, MovesTyped
  <1>6. Looks(t)
    BY <1>1, <1>4, <1>5 DEF Looks, Others, Calm, queueVars, blockVars, history
  <1>7. Typed'
    BY <1>1, <1>4, <1>5 DEF Typed, ThreadTyped
  <1>8. PopInv(t)'
    <2>1. head.index \in Nat /\ PopInv(t) /\ HeadInv
      BY Numbers DEF IInv
    <2> QED
      BY <1>1, <1>2, <1>4, <1>5, <2>1 DEF PopInv, PopOwner, Moving, Idx, HeadInv
  <1> QED
    BY <1>6, <1>7, <1>8, PopLooked

LEMMA PopBlockKeeps ==
  ASSUME IInv, NEW t \in Poppers, PopBlock(t)
  PROVE  IInv'
  <1> DEFINE m == [loc[t] EXCEPT !.block = headBlock, !.mark = loc[t].pos.mark]
  <1>1. t \in Threads /\ dropper.pc = "none" /\ Typed /\ headBlock \in Pointers /\ pc[t] = "block"
    BY Numbers, BusyNoDrop DEF IInv, Typed, PopBlock
  <1>2. /\ m \in Memory /\ m.pos = loc[t].pos /\ m.slot = loc[t].slot
        /\ m.block = headBlock /\ m.mark = loc[t].pos.mark
        /\ loc[t] \in Memory /\ result[t] \in Results
    <2>1. loc[t] \in Memory /\ result[t] \in Results
      BY <1>1, Stays
    <2> QED
      BY <1>1, <2>1 DEF Memory, Position
  <1>3. \/ Moves(t, "head", loc[t], result[t])
        \/ /\ Off(Idx(t)) # BlockCap /\ loc[t].pos.mark /\ headBlock # Null
           /\ Moves(t, "claim", m, result[t])
        \/ Off(Idx(t)) # BlockCap /\ ~loc[t].pos.mark /\ Moves(t, "tail", m, result[t])
    BY <1>1, Stays DEF PopBlock, Goto, Offset, Off, Idx, Moves
  <1>4. UNCHANGED <<head, headBlock, tail, tailBlock, next, cell, state, live, calls,
                    result, dropper, entered, left>>
    BY DEF PopBlock, queueVars, blockVars, history
  <1> HIDE DEF m
  <1>5. /\ ThreadTyped'
        /\ \A u \in Threads : u # t => pc'[u] = pc[u] /\ loc'[u] = loc[u] /\ result'[u] = result[u]
        /\ \/ pc'[t] = "head" /\ loc'[t] = loc[t]
           \/ /\ pc'[t] = "claim" /\ loc'[t] = m
              /\ Off(Idx(t)) # BlockCap /\ loc[t].pos.mark /\ headBlock # Null
           \/ pc'[t] = "tail" /\ loc'[t] = m /\ Off(Idx(t)) # BlockCap
    BY <1>1, <1>2, <1>3, MovesTyped DEF PopPlaces
  <1>6. Looks(t)
    BY <1>1, <1>4, <1>5 DEF Looks, Others, Calm, queueVars, blockVars, history
  <1>7. Typed'
    BY <1>1, <1>4, <1>5 DEF Typed, ThreadTyped
  <1>8. PopInv(t)'
    <2>1. Idx(t)' = Idx(t)
      BY <1>2, <1>5 DEF Idx
    <2>2. Idx(t) \in Nat /\ tail.index \in Nat /\ PopInv(t) /\ HeadInv
      BY <1>1, Numbers DEF IInv
    <2>3. Off(Idx(t)) # BlockCap => Off(Idx(t)) < BlockCap
      BY <2>2, WaitingOrNot
    <2>4. loc[t].pos.mark => Blk(Idx(t)) < Blk(tail.index) /\ Idx(t) < tail.index
      BY <1>1, <2>2, EarlierBlock DEF PopInv
    <2> QED
      BY <1>1, <1>2, <1>4, <1>5, <2>1, <2>2, <2>3, <2>4 DEF PopInv, PopOwner, Moving, HeadInv
  <1> QED
    BY <1>6, <1>7, <1>8, PopLooked

LEMMA PopTailKeeps ==
  ASSUME IInv, NEW t \in Poppers, PopTail(t)
  PROVE  IInv'
  <1> DEFINE far == Blk(Idx(t)) # Blk(tail.index)
             m == [loc[t] EXCEPT !.mark = far]
             answer == IF tail.mark THEN F!Closed ELSE F!Empty
  <1>1. t \in Threads /\ dropper.pc = "none" /\ Typed /\ pc[t] = "tail"
    BY Numbers, BusyNoDrop DEF IInv, PopTail
  <1>2. /\ m \in Memory /\ m.pos = loc[t].pos /\ m.slot = loc[t].slot
        /\ m.block = loc[t].block /\ m.mark = far
        /\ loc[t] \in Memory /\ result[t] \in Results /\ answer \in Results
        /\ NoLocals \in Memory /\ NoLocals.pos.index = 0 /\ NoLocals.slot = 0
    <2>1. loc[t] \in Memory /\ result[t] \in Results
      BY <1>1, Stays
    <2>2. answer \in Results
      BY DEF Results
    <2> QED
      BY <2>1, <2>2, NoMemory DEF Memory
  <1>3. /\ Idx(t) \in Nat /\ tail.index \in Nat /\ head.index \in Nat
        /\ loc[t].pos.index \div Lap # tail.index \div Lap <=> far
    <2>1. Idx(t) \in Nat /\ tail.index \in Nat /\ head.index \in Nat
      BY <1>1, Numbers
    <2>2. Idx(t) \div Lap \in Nat /\ tail.index \div Lap \in Nat
      BY <2>1, LapAssumption
    <2> QED
      BY <2>1, <2>2 DEF Blk, Idx
  <1>4. \/ Idx(t) = tail.index /\ Moves(t, "idle", NoLocals, answer)
        \/ Idx(t) # tail.index /\ loc[t].block = Null /\ Moves(t, "head", m, result[t])
        \/ Idx(t) # tail.index /\ loc[t].block # Null /\ Moves(t, "claim", m, result[t])
    <2>1. CASE Idx(t) = tail.index
      BY <1>1, <2>1 DEF PopTail, Return, Goto, Idx, Moves
    <2>2. CASE Idx(t) # tail.index
      <3>1. /\ loc' = [loc EXCEPT ![t].mark = loc[t].pos.index \div Lap # tail.index \div Lap]
            /\ pc' = [pc EXCEPT ![t] = IF loc[t].block = Null THEN "head" ELSE "claim"]
            /\ result' = result
        BY <2>2 DEF PopTail, Goto, Local, Idx
      <3>2. loc' = [loc EXCEPT ![t] = m]
        BY <1>3, <3>1
      <3> QED
        BY <1>1, <2>2, <3>1, <3>2, Stays DEF Moves
    <2> QED BY <2>1, <2>2
  <1>5. UNCHANGED <<head, headBlock, tail, tailBlock, next, cell, state, live, calls,
                    dropper, entered, left>>
    BY DEF PopTail, queueVars, blockVars, history
  <1> HIDE DEF m, answer
  <1>6. /\ ThreadTyped'
        /\ \A u \in Threads : u # t => pc'[u] = pc[u] /\ loc'[u] = loc[u] /\ result'[u] = result[u]
        /\ \/ pc'[t] = "idle" /\ loc'[t] = NoLocals
           \/ pc'[t] = "head" /\ loc'[t] = m
           \/ pc'[t] = "claim" /\ loc'[t] = m /\ Idx(t) # tail.index /\ loc[t].block # Null
    BY <1>1, <1>2, <1>4, MovesTyped DEF PopPlaces
  <1>7. Looks(t)
    BY <1>1, <1>5, <1>6 DEF Looks, Others, Calm, queueVars, blockVars, history
  <1>8. Typed'
    BY <1>1, <1>5, <1>6 DEF Typed, ThreadTyped
  <1>9. PopInv(t)'
    <2>1. loc'[t] = m => Idx(t)' = Idx(t)
      BY <1>2, <1>6 DEF Idx
    <2>2. PopInv(t) /\ HeadInv /\ head.index <= tail.index /\ Idx(t) <= head.index
      BY DEF IInv, HeadInv, PopInv
    <2>3. Idx(t) # tail.index => Idx(t) < tail.index
      BY <1>3, <2>2
    <2>4. far => Blk(Idx(t)) < Blk(tail.index)
      <3>1. Idx(t) <= tail.index
        BY <1>3, <2>2
      <3>2. Blk(Idx(t)) <= Blk(tail.index) /\ Blk(Idx(t)) \in Nat /\ Blk(tail.index) \in Nat
        BY <1>3, <3>1, BlockOrder, IndexTypes
      <3> QED
        BY <3>2
    <2>5. loc'[t] = NoLocals => Idx(t)' = 0
      BY <1>2 DEF Idx
    <2> HIDE DEF far
    <2> QED
      BY <1>1, <1>2, <1>3, <1>5, <1>6, <2>1, <2>2, <2>3, <2>4, <2>5 DEF PopInv, PopOwner, Moving, HeadInv
  <1> QED
    BY <1>7, <1>8, <1>9, PopLooked

-----------------------------------------------------------------------------
(* Steps of pushers.  They leave the head, what poppers have, and the bits  *)
(* that poppers set; values are only appended, and links only made.         *)
Pushes(t) ==
    /\ Others(t) /\ calls' = calls
    /\ head' = head /\ left' = left /\ dropper' = dropper /\ dropper.pc = "none"
    /\ headBlock' = headBlock \/ (headBlock = Null /\ headBlock' = 1 /\ head.index = 0)
    /\ tail'.index \in Nat /\ tail.index <= tail'.index
    /\ \A k \in 1..Len(entered) : entered'[k] = entered[k]
    /\ \A b \in Blocks : next[b] # Null => next'[b] = next[b]
    /\ \A i \in Slots : /\ READ \in Bits(i)' <=> READ \in Bits(i)
                        /\ DESTROY \in Bits(i)' <=> DESTROY \in Bits(i)
                        /\ WRITE \in Bits(i) => WRITE \in Bits(i)'
    /\ live \subseteq live'

LEMMA PushesFrame ==
  ASSUME IInv, NEW t \in Pushers, Pushes(t)
  PROVE  /\ \A c \in Poppers : /\ pc'[c] = pc[c] /\ loc'[c] = loc[c] /\ result'[c] = result[c]
                               /\ Idx(c)' = Idx(c)
                               /\ PopOwner(c)' <=> PopOwner(c)
                               /\ Moving(c)' <=> Moving(c)
         /\ \A p \in Pushers : p # t => /\ pc'[p] = pc[p] /\ loc'[p] = loc[p] /\ calls'[p] = calls[p]
                                        /\ Idx(p)' = Idx(p)
                                        /\ PushOwner(p)' <=> PushOwner(p)
         /\ \A b \in Nat : LastRead(b)' <=> LastRead(b)
  <1>1. t \in Threads /\ Pushers \subseteq Threads /\ Poppers \subseteq Threads /\ head' = head
    BY Numbers DEF Pushes
  <1>2. \A c \in Poppers : /\ pc'[c] = pc[c] /\ loc'[c] = loc[c] /\ result'[c] = result[c]
                           /\ Idx(c)' = Idx(c)
                           /\ PopOwner(c)' <=> PopOwner(c)
                           /\ Moving(c)' <=> Moving(c)
    BY <1>1, Disjoint DEF Pushes, Others, PopOwner, Moving, Idx
  <1>3. \A p \in Pushers : p # t => /\ pc'[p] = pc[p] /\ loc'[p] = loc[p] /\ calls'[p] = calls[p]
                                    /\ Idx(p)' = Idx(p)
                                    /\ PushOwner(p)' <=> PushOwner(p)
    BY <1>1 DEF Pushes, Others, PushOwner, Idx
  <1>4. \A b \in Nat : LastRead(b)' <=> LastRead(b)
    BY <1>1, <1>2 DEF LastRead
  <1> QED
    BY <1>2, <1>3, <1>4

LEMMA PushesKeeps ==
  ASSUME IInv, NEW t \in Pushers, Pushes(t)
  PROVE  /\ \A c \in Poppers : PopInv(c)' /\ DestroyInv(c)'
         /\ DropInv'
  <1>1. ASSUME NEW c \in Poppers PROVE PopInv(c)'
    <2>1. /\ pc'[c] = pc[c] /\ loc'[c] = loc[c] /\ result'[c] = result[c]
          /\ Idx(c)' = Idx(c)
          /\ PopOwner(c)' <=> PopOwner(c)
          /\ Moving(c)' <=> Moving(c)
      BY PushesFrame
    <2>2. PopInv(c) /\ head' = head
      BY DEF IInv, Pushes
    <2>3. /\ tail.index \in Nat /\ tail'.index \in Nat /\ tail.index <= tail'.index
          /\ Idx(c) \in Nat /\ loc[c] \in Memory /\ head.index \in Nat
      BY Numbers DEF Pushes
    <2>4. Blk(tail.index) <= Blk(tail'.index)
      BY <2>3, BlockOrder
    <2>5. Blk(tail.index) \in Nat /\ Blk(tail'.index) \in Nat /\ Blk(Idx(c)) \in Nat
      BY <2>3, IndexTypes
    <2>6. Blk(Idx(c)) < Blk(tail.index) => Blk(Idx(c)) < Blk(tail'.index)
      BY <2>4, <2>5
    <2>7. Idx(c) < tail.index => Idx(c) < tail'.index
      BY <2>3
    <2>8. ASSUME PopOwner(c)
          PROVE  /\ (READ \in Bits(Idx(c)))' <=> READ \in Bits(Idx(c))
                 /\ WRITE \in Bits(Idx(c)) => (WRITE \in Bits(Idx(c)))'
                 /\ entered'[Num(Idx(c)) + 1] = entered[Num(Idx(c)) + 1]
                 /\ headBlock' = headBlock /\ headBlock # Null
                 /\ next[loc[c].block] # Null => next'[loc[c].block] # Null
                 /\ (next[loc[c].block] # Null /\ loc[c].fresh = loc[c].block + 1 /\ next[loc[c].fresh] # Null)
                        => next'[loc[c].fresh] # Null
      <3>1. Idx(c) \in Slots /\ Idx(c) < head.index /\ headBlock # Null /\ loc[c].block = Blk(Idx(c)) /\ Off(Idx(c)) < BlockCap
        BY <2>8, PopSlot
      <3>2. /\ (READ \in Bits(Idx(c)))' <=> READ \in Bits(Idx(c))
            /\ WRITE \in Bits(Idx(c)) => (WRITE \in Bits(Idx(c)))'
        <4>1. PICK i \in Slots : i = Idx(c)
          BY <3>1
        <4>2. /\ (READ \in Bits(i))' <=> READ \in Bits(i)
              /\ WRITE \in Bits(i) => (WRITE \in Bits(i))'
          BY DEF Pushes
        <4> QED
          BY <2>1, <4>1, <4>2 DEF Bits
      <3>3. Num(Idx(c)) + 1 \in 1..Len(entered)
        <4>1. Idx(c) < tail.index
          BY <2>3, <3>1, Numbers
        <4>2. Num(Idx(c)) < Num(tail.index) /\ Num(Idx(c)) \in Nat /\ Num(tail.index) \in Nat
          BY <2>3, <3>1, <4>1, NumOrder, IndexTypes
        <4> QED BY <4>2 DEF IInv, EnteredInv
      <3>4. entered'[Num(Idx(c)) + 1] = entered[Num(Idx(c)) + 1]
        BY <3>3 DEF Pushes
      <3>5. loc[c].block \in Blocks
        BY <3>1, SlotOfIndex
      <3>6. (loc[c].fresh = loc[c].block + 1) => loc[c].fresh \in Blocks
        BY <2>3, <3>5 DEF Memory, Pointers, Blocks, Null
      <3> QED
        BY <3>1, <3>2, <3>4, <3>5, <3>6 DEF Pushes
    <2>9. headBlock # Null => headBlock' = headBlock
      BY DEF Pushes
    <2> QED
      BY <2>1, <2>2, <2>6, <2>7, <2>8, <2>9 DEF PopInv, PopOwner, Moving
  <1>2. ASSUME NEW c \in Poppers PROVE DestroyInv(c)'
    <2>1. pc'[c] = pc[c] /\ loc'[c] = loc[c] /\ DestroyInv(c) /\ live \subseteq live'
      BY PushesFrame DEF IInv, Pushes
    <2>2. loc[c].block \in Nat
      BY Numbers DEF Memory, Pointers, Blocks, Null
    <2>3. \A b \in Nat : LastRead(b)' <=> LastRead(b)
      BY PushesFrame
    <2> QED
      BY <2>1, <2>2, <2>3 DEF Pushes, DestroyInv
  <1>3. DropInv'
    BY DEF Pushes, DropInv
  <1> QED
    BY <1>1, <1>2, <1>3

LEMMA PushesOnePerPlace ==
  ASSUME IInv, NEW t \in Pushers, Pushes(t),
         pc'[t] = "headBlock" => \A p \in Pushers : pc[p] # "headBlock"
  PROVE  OnePerPlace'
  <1>1. \A c \in Poppers : pc'[c] = pc[c] /\ loc'[c] = loc[c] /\ Idx(c)' = Idx(c)
    BY PushesFrame
  <1>2. \A c \in Poppers : PopOwner(c)' <=> PopOwner(c)
    BY PushesFrame
  <1>3. \A p \in Pushers : p # t => pc'[p] = pc[p]
    BY PushesFrame
  <1> QED
    BY <1>1, <1>2, <1>3 DEF IInv, OnePerPlace

LEMMA PushesKeepsLive ==
  ASSUME IInv, NEW t \in Pushers, Pushes(t), tailBlock' = tailBlock, live' = live
  PROVE  LiveInv'
  <1>1. \A c \in Poppers : pc'[c] = pc[c] /\ loc'[c] = loc[c]
    BY PushesFrame
  <1>2. \A b \in Nat : LastRead(b)' <=> LastRead(b)
    BY PushesFrame
  <1>3. live \subseteq Nat /\ 1..tailBlock \subseteq Nat
    BY DEF IInv, Typed, Blocks
  <1> QED
    BY <1>1, <1>2, <1>3 DEF Pushes, IInv, LiveInv

LEMMA PushesKeepsValues ==
  ASSUME IInv, NEW t \in Pushers, Pushes(t), pc[t] # "idle",
         state' = state, cell' = cell, entered' = entered,
         PushOwner(t)' <=> PushOwner(t), Idx(t)' = Idx(t),
         Num(tail'.index) = Num(tail.index),
         \A i \in Slots : i < tail'.index <=> i < tail.index
  PROVE  EnteredInv' /\ \A i \in Slots : SlotInv(i)'
  <1>1. \A p \in Pushers : Idx(p)' = Idx(p)
    BY PushesFrame
  <1>2. \A p \in Pushers : PushOwner(p)' <=> PushOwner(p)
    BY PushesFrame
  <1>3. \A c \in Poppers : Idx(c)' = Idx(c)
    BY PushesFrame
  <1>4. \A c \in Poppers : PopOwner(c)' <=> PopOwner(c)
    BY PushesFrame
  <1>5. \A b \in Nat : LastRead(b)' <=> LastRead(b)
    BY PushesFrame
  <1>6. head' = head /\ dropper' = dropper /\ calls' = calls
    BY DEF Pushes
  <1>7. EnteredInv'
    <2>1. \A i \in 1..Len(entered) : entered[i][1] \in Pushers
      BY DEF IInv, Typed, Values
    <2>2. \A p \in Pushers : pc[p] = "idle" => pc'[p] = "idle"
      BY PushesFrame
    <2> QED
      BY <1>2, <1>6, <2>1, <2>2 DEF IInv, EnteredInv
  <1>8. ASSUME NEW i \in Slots PROVE SlotInv(i)'
    <2>1. SlotInv(i) /\ Blk(i) \in Nat
      BY SlotOfIndex, IndexTypes DEF IInv
    <2>2. \A j \in Slots : Bits(j)' = Bits(j)
      BY DEF Bits
    <2>3. i < tail'.index <=> i < tail.index
      OBVIOUS
    <2> QED
      BY <1>1, <1>2, <1>3, <1>4, <1>5, <1>6, <2>1, <2>2, <2>3 DEF SlotInv
  <1> QED
    BY <1>7, <1>8

(* The first block: in the tail, then in the head. *)
LEMMA PushFirstKeeps ==
  ASSUME IInv, NEW t \in Pushers, PushFirst(t)
  PROVE  IInv'
  <1>1. t \in Threads /\ dropper.pc = "none" /\ Typed /\ pc[t] = "first"
    BY Numbers, BusyNoDrop DEF IInv, PushFirst
  <1>2. UNCHANGED <<head, headBlock, tail, next, cell, state, result, calls, dropper,
                    entered, left>>
    BY DEF PushFirst, history
  <1>3. loc[t] \in Memory /\ result[t] \in Results /\ Idx(t) \in Nat
    BY <1>1, Stays, Numbers
  <1>4. CASE tailBlock # Null
    <2>1. Moves(t, "index", loc[t], result[t]) /\ tailBlock' = tailBlock /\ live' = live
      BY <1>1, <1>2, <1>4, Stays DEF PushFirst, Goto, Moves
    <2>2. /\ ThreadTyped'
          /\ \A u \in Threads : u # t => pc'[u] = pc[u] /\ loc'[u] = loc[u] /\ result'[u] = result[u]
          /\ pc'[t] = "index" /\ loc'[t] = loc[t]
      BY <1>1, <1>3, <2>1, MovesTyped DEF PushPlaces
    <2>3. Looks(t)
      BY <1>1, <1>2, <2>1, <2>2 DEF Looks, Others, Calm, queueVars, blockVars, history
    <2>4. Typed'
      BY <1>1, <1>2, <2>1, <2>2 DEF Typed, ThreadTyped
    <2>5. PushInv(t)'
      <3>1. PushInv(t)
        BY DEF IInv
      <3> QED
        BY <1>1, <1>2, <2>2, <3>1 DEF PushInv, PushOwner, Idx
    <2> QED
      BY <2>3, <2>4, <2>5, PushLooked
  <1>5. CASE tailBlock = Null
    <2> DEFINE m == [loc[t] EXCEPT !.block = 1]
    <2>1. Fresh = 1 /\ tailBlock' = 1 /\ live' = live \cup {1}
      BY <1>1, <1>5, FreshIs DEF PushFirst, Null
    <2>2. m \in Memory /\ m.pos = loc[t].pos /\ m.block = 1
      BY <1>3, MemoryFields, BlockTypes DEF Memory, Pointers
    <2>3. Moves(t, "headBlock", m, result[t])
      BY <1>1, <1>2, <1>5, <2>1, Stays DEF PushFirst, Goto, Local, Moves
    <2> HIDE DEF m
    <2>4. /\ ThreadTyped'
          /\ \A u \in Threads : u # t => pc'[u] = pc[u] /\ loc'[u] = loc[u] /\ result'[u] = result[u]
          /\ pc'[t] = "headBlock" /\ loc'[t] = m
      BY <1>1, <1>3, <2>2, <2>3, MovesTyped DEF PushPlaces
    <2>5. /\ tail.index = 0 /\ head.index = 0 /\ headBlock = Null /\ live = {}
      <3>1. tail.index = 0 /\ headBlock = Null /\ live \subseteq 1..0
        BY <1>1, <1>5 DEF IInv, TailInv, HeadInv, LiveInv, Null
      <3> QED
        BY <3>1 DEF IInv, HeadInv
    <2>6. Pushes(t)
      BY <1>1, <1>2, <2>1, <2>4, <2>5 DEF Pushes, Others, Bits
    <2>7. Typed'
      BY <1>1, <1>2, <2>1, <2>4, BlockTypes DEF Typed, ThreadTyped, Pointers
    <2>8. PushInv(t) /\ Idx(t)' = Idx(t) /\ Idx(t) = 0
      BY <1>3, <2>2, <2>4, <2>5 DEF IInv, PushInv, Idx
    <2>9. ASSUME NEW p \in Pushers PROVE ~PushOwner(p) /\ pc[p] \notin {"headBlock", "advance"}
      BY <1>5, PushSlot DEF IInv, PushInv
    <2>10. EnteredInv' /\ \A i \in Slots : SlotInv(i)'
      <3>1. PushOwner(t)' <=> PushOwner(t)
        BY <1>1, <2>4 DEF PushOwner
      <3> QED
        BY <1>1, <1>2, <2>6, <2>8, <3>1, PushesKeepsValues
    <2>11. TailInv'
      BY <1>2, <2>1, <2>5, FirstIndex, CapType DEF TailInv, Null
    <2>12. HeadInv'
      BY <1>2, <2>1, <2>4, <2>5, FirstIndex, CapType DEF IInv, HeadInv, Null
    <2>13. LinkInv'
      BY <1>2, <2>5, FirstIndex DEF IInv, LinkInv, Blocks
    <2>14. ASSUME NEW p \in Pushers PROVE PushInv(p)'
      <3>1. CASE p = t
        BY <1>1, <1>2, <2>1, <2>2, <2>4, <2>5, <2>8, <3>1 DEF PushInv, PushOwner, Null
      <3>2. CASE p # t
        <4>1. pc'[p] = pc[p] /\ loc'[p] = loc[p] /\ Idx(p)' = Idx(p) /\ PushInv(p)
          BY <2>6, <3>2, PushesFrame DEF IInv
        <4>2. ~PushOwner(p)'
          BY <2>9, <4>1 DEF PushOwner
        <4> QED
          BY <1>2, <2>9, <4>1, <4>2 DEF PushInv, PushOwner
      <3> QED BY <3>1, <3>2
    <2>15. OnePerPlace'
      BY <2>6, <2>9, PushesOnePerPlace
    <2>16. LiveInv'
      <3>1. ~LastRead(1)'
        BY <1>2, <2>5, FirstIndex DEF LastRead
      <3> QED
        BY <1>1, <1>2, <2>1, <2>5, <3>1 DEF LiveInv
    <2> QED
      BY <2>6, <2>7, <2>10, <2>11, <2>12, <2>13, <2>14, <2>15, <2>16, PushesKeeps DEF IInv
  <1> QED BY <1>4, <1>5

LEMMA PushHeadBlockKeeps ==
  ASSUME IInv, NEW t \in Pushers, PushHeadBlock(t)
  PROVE  IInv'
  <1>1. t \in Threads /\ dropper.pc = "none" /\ Typed /\ pc[t] = "headBlock"
    BY Numbers, BusyNoDrop DEF IInv, PushHeadBlock
  <1>2. UNCHANGED <<head, tail, tailBlock, next, cell, state, live, result, calls, dropper,
                    entered, left>>
    BY DEF PushHeadBlock, blockVars, history
  <1>3. loc[t] \in Memory /\ result[t] \in Results /\ Idx(t) \in Nat /\ PushInv(t)
    BY <1>1, Stays, Numbers DEF IInv
  <1>4. /\ loc[t].block = 1 /\ Idx(t) = 0 /\ headBlock = Null /\ tailBlock # Null /\ head.index = 0
        /\ calls[t] > 0 /\ ~loc[t].pos.mark
    BY <1>1, <1>3 DEF PushInv, IInv, HeadInv
  <1>5. Moves(t, "advance", loc[t], result[t]) /\ headBlock' = 1
    BY <1>1, <1>2, <1>4, Stays DEF PushHeadBlock, Goto, Moves
  <1>6. /\ ThreadTyped'
        /\ \A u \in Threads : u # t => pc'[u] = pc[u] /\ loc'[u] = loc[u] /\ result'[u] = result[u]
        /\ pc'[t] = "advance" /\ loc'[t] = loc[t]
    BY <1>1, <1>3, <1>5, MovesTyped DEF PushPlaces
  <1>7. tail.index \in Nat /\ Idx(t)' = Idx(t)
    BY <1>6, Numbers DEF Idx
  <1>8. Pushes(t)
    BY <1>1, <1>2, <1>4, <1>5, <1>6, <1>7 DEF Pushes, Others, Bits
  <1>9. Typed'
    BY <1>1, <1>2, <1>5, <1>6, BlockTypes DEF Typed, ThreadTyped, Pointers
  <1>10. EnteredInv' /\ \A i \in Slots : SlotInv(i)'
    <2>1. PushOwner(t)' <=> PushOwner(t)
      BY <1>1, <1>6 DEF PushOwner
    <2> QED
      BY <1>1, <1>2, <1>7, <1>8, <2>1, PushesKeepsValues
  <1>11. TailInv'
    <2>1. \A p \in Pushers : pc[p] \in {"install", "skip"} => pc'[p] = pc[p]
      BY <1>1, <1>8, PushesFrame
    <2> QED
      BY <1>2, <2>1 DEF IInv, TailInv
  <1>12. HeadInv'
    BY <1>2, <1>4, <1>5, FirstIndex, CapType DEF IInv, HeadInv, Null
  <1>13. LinkInv'
    <2>1. \A p \in Pushers : pc[p] = "link" => pc'[p] = pc[p] /\ loc'[p] = loc[p]
      BY <1>1, <1>8, PushesFrame
    <2> QED
      BY <1>2, <2>1 DEF IInv, LinkInv
  <1>14. ASSUME NEW p \in Pushers PROVE PushInv(p)'
    <2>1. CASE p = t
      BY <1>2, <1>3, <1>4, <1>6, <1>7, <2>1, FirstIndex, CapType DEF PushInv, PushOwner
    <2>2. CASE p # t
      <3>1. pc'[p] = pc[p] /\ loc'[p] = loc[p] /\ Idx(p)' = Idx(p) /\ PushInv(p)
        BY <1>8, <2>2, PushesFrame DEF IInv
      <3>2. pc[p] # "headBlock"
        BY <1>1, <2>2 DEF IInv, OnePerPlace
      <3> QED
        BY <1>2, <3>1, <3>2 DEF PushInv, PushOwner, Bits, Idx
    <2> QED BY <2>1, <2>2
  <1>15. OnePerPlace'
    BY <1>6, <1>8, PushesOnePerPlace
  <1>16. LiveInv'
    BY <1>2, <1>8, PushesKeepsLive
  <1> QED
    BY <1>8, <1>9, <1>10, <1>11, <1>12, <1>13, <1>14, <1>15, <1>16, PushesKeeps DEF IInv

(* The next block: in the tail, past the waiting position, in the list. *)
LEMMA PushInstallKeeps ==
  ASSUME IInv, NEW t \in Pushers, PushInstall(t)
  PROVE  IInv'
  <1> DEFINE b == tailBlock + 1
             m == [loc[t] EXCEPT !.fresh = b]
  <1>1. t \in Threads /\ dropper.pc = "none" /\ Typed /\ pc[t] = "install"
    BY Numbers, BusyNoDrop DEF IInv, PushInstall
  <1>2. UNCHANGED <<head, headBlock, tail, next, cell, state, result, calls, dropper,
                    entered, left>>
    BY DEF PushInstall, history
  <1>3. loc[t] \in Memory /\ result[t] \in Results /\ Idx(t) \in Nat /\ PushInv(t)
    BY <1>1, Stays, Numbers DEF IInv
  <1>4. tailBlock \in Nat /\ b \in Blocks /\ tailBlock = Blk(tail.index) /\ tailBlock # Null
    BY <1>1, RoomToInstall, PushSlot DEF PushOwner
  <1>5. /\ tailBlock' = b /\ live' = live \cup {b} /\ m \in Memory /\ m.pos = loc[t].pos
        /\ m.block = loc[t].block /\ m.fresh = b
    BY <1>1, <1>3, <1>4, FreshIs, MemoryFields DEF PushInstall, Memory, Pointers
  <1>6. Moves(t, "skip", m, result[t])
    BY <1>1, <1>2, FreshIs, Stays DEF PushInstall, Goto, Local, Moves
  <1> HIDE DEF m
  <1>7. /\ ThreadTyped'
        /\ \A u \in Threads : u # t => pc'[u] = pc[u] /\ loc'[u] = loc[u] /\ result'[u] = result[u]
        /\ pc'[t] = "skip" /\ loc'[t] = m
    BY <1>1, <1>3, <1>5, <1>6, MovesTyped DEF PushPlaces
  <1>8. tail.index \in Nat /\ head.index \in Nat /\ head.index <= tail.index /\ Idx(t)' = Idx(t)
    BY <1>5, <1>7, Numbers DEF Idx
  <1>9. Pushes(t)
    BY <1>1, <1>2, <1>5, <1>7, <1>8 DEF Pushes, Others, Bits
  <1>10. Typed'
    BY <1>1, <1>2, <1>4, <1>5, <1>7 DEF Typed, ThreadTyped, Pointers
  <1>11. EnteredInv' /\ \A i \in Slots : SlotInv(i)'
    <2>1. PushOwner(t)' <=> PushOwner(t)
      BY <1>1, <1>7 DEF PushOwner
    <2> QED
      BY <1>1, <1>2, <1>8, <1>9, <2>1, PushesKeepsValues
  <1>12. Off(tail.index) = BlockCap /\ b # Null /\ Off(Idx(t)) = BlockCap - 1 /\ Idx(t) + 1 = tail.index
    BY <1>1, <1>3, <1>4 DEF PushInv, Null
  <1>13. TailInv'
    BY <1>2, <1>5, <1>7, <1>12, CapType DEF TailInv
  <1>14. HeadInv'
    <2>1. \A p \in Pushers : pc[p] = "headBlock" => pc'[p] = pc[p]
      BY <1>1, <1>9, PushesFrame
    <2>2. \A c \in Poppers : Moving(c)' <=> Moving(c)
      BY <1>9, PushesFrame
    <2> QED
      BY <1>2, <1>4, <1>5, <1>12, <2>1, <2>2 DEF IInv, HeadInv
  <1>15. LinkInv'
    <2>1. \A p \in Pushers : pc[p] = "link" => pc'[p] = pc[p] /\ loc'[p] = loc[p]
      BY <1>1, <1>9, PushesFrame
    <2> QED
      BY <1>2, <2>1 DEF IInv, LinkInv
  <1>16. ASSUME NEW p \in Pushers PROVE PushInv(p)'
    <2>1. CASE p = t
      <3>1. PushOwner(t)
        BY <1>1 DEF PushOwner
      <3> QED
        BY <1>1, <1>2, <1>3, <1>4, <1>5, <1>7, <1>8, <1>12, <2>1, <3>1 DEF PushInv, PushOwner, Bits, Idx
    <2>2. CASE p # t
      <3>1. pc'[p] = pc[p] /\ loc'[p] = loc[p] /\ Idx(p)' = Idx(p) /\ PushInv(p)
        BY <1>9, <2>2, PushesFrame DEF IInv
      <3>2. pc[p] \notin {"install", "skip"}
        BY <1>1, <2>2, OneInstalls
      <3> QED
        BY <1>2, <1>5, <1>12, <3>1, <3>2 DEF PushInv, PushOwner, Bits, Idx
    <2> QED BY <2>1, <2>2
  <1>17. OnePerPlace'
    BY <1>7, <1>9, PushesOnePerPlace
  <1>18. LiveInv'
    <2>1. \A c \in Poppers : pc'[c] = pc[c] /\ loc'[c] = loc[c]
      BY <1>9, PushesFrame
    <2>2. \A x \in Nat : LastRead(x)' <=> LastRead(x)
      BY <1>9, PushesFrame
    <2>3. Blk(head.index) <= Blk(tail.index) /\ Blk(head.index) \in Nat
      BY <1>8, BlockOrder, IndexTypes
    <2>4. b \in Nat /\ ~LastRead(b)
      BY <1>4, <2>3 DEF LastRead
    <2>5. live \subseteq Nat /\ live \subseteq 1..tailBlock
      BY <1>1 DEF Typed, Blocks, IInv, LiveInv
    <2>6. live' \subseteq 1..tailBlock' /\ (1..tailBlock') \ live' \subseteq (1..tailBlock) \ live
      <3>1. 1..tailBlock' = (1..tailBlock) \cup {b}
        BY <1>4, <1>5
      <3> QED
        BY <1>5, <2>5, <3>1
    <2>7. ASSUME NEW x \in (1..tailBlock') \ live'
          PROVE  LastRead(x)' /\ \A i \in Slots : Blk(i) = x /\ Off(i) < BlockCap - 1 => READ \in Bits(i)'
      <3>1. x \in (1..tailBlock) \ live /\ x \in Nat
        BY <2>6
      <3>2. LastRead(x) /\ \A i \in Slots : Blk(i) = x /\ Off(i) < BlockCap - 1 => READ \in Bits(i)
        BY <1>1, <3>1, FreedWasRead
      <3> QED
        BY <2>2, <3>1, <3>2, <1>9 DEF Pushes
    <2>8. ASSUME NEW x \in live', LastRead(x)'
          PROVE  \/ \E c \in Poppers : pc'[c] = "destroy" /\ loc'[c].block = x
                 \/ \E i \in Slots : Blk(i) = x /\ DESTROY \in Bits(i)' /\ READ \notin Bits(i)'
      <3>1. x \in live /\ LastRead(x)
        BY <1>5, <2>2, <2>4, <2>5, <2>8
      <3>2. \/ \E c \in Poppers : pc[c] = "destroy" /\ loc[c].block = x
            \/ \E i \in Slots : Blk(i) = x /\ DESTROY \in Bits(i) /\ READ \notin Bits(i)
        BY <1>1, <3>1 DEF IInv, LiveInv
      <3> QED
        BY <1>9, <2>1, <3>2 DEF Pushes
    <2> QED
      BY <2>6, <2>7, <2>8 DEF LiveInv
  <1> QED
    BY <1>9, <1>10, <1>11, <1>13, <1>14, <1>15, <1>16, <1>17, <1>18, PushesKeeps DEF IInv

LEMMA PushSkipKeeps ==
  ASSUME IInv, NEW t \in Pushers, PushSkip(t)
  PROVE  IInv'
  <1>1. t \in Threads /\ dropper.pc = "none" /\ Typed /\ pc[t] = "skip" /\ PushOwner(t)
    BY Numbers, BusyNoDrop DEF IInv, PushSkip, PushOwner
  <1>2. UNCHANGED <<head, headBlock, tailBlock, next, cell, state, live, loc, result,
                    calls, dropper, entered, left>>
    BY DEF PushSkip, blockVars, history
  <1>3. loc[t] \in Memory /\ result[t] \in Results /\ Idx(t) \in Nat /\ PushInv(t)
    BY <1>1, Stays, Numbers DEF IInv
  <1>4. Moves(t, "link", loc[t], result[t]) /\ tail' = Plus(tail)
    BY <1>1, <1>2, Stays DEF PushSkip, Goto, Moves
  <1>5. /\ ThreadTyped'
        /\ \A u \in Threads : u # t => pc'[u] = pc[u] /\ loc'[u] = loc[u] /\ result'[u] = result[u]
        /\ pc'[t] = "link" /\ loc'[t] = loc[t]
    BY <1>1, <1>3, <1>4, MovesTyped DEF PushPlaces
  <1>6. /\ tail' \in Position /\ tail'.index = tail.index + 1 /\ tail'.mark = tail.mark
        /\ tail.index \in Nat /\ head.index \in Nat /\ head.index <= tail.index /\ Idx(t)' = Idx(t)
    <2>1. tail \in Position
      BY <1>1 DEF Typed
    <2> QED
      BY <1>4, <1>5, <2>1, Numbers DEF Plus, Position, Idx
  <1>7. /\ Off(tail.index) = BlockCap /\ Off(Idx(t)) = BlockCap - 1 /\ Idx(t) + 1 = tail.index
        /\ tailBlock = Blk(tail.index) + 1 /\ loc[t].fresh = tailBlock /\ tailBlock # Null
        /\ loc[t].block = Blk(Idx(t))
    BY <1>1, <1>3 DEF PushInv
  <1>8. /\ Blk(tail'.index) = Blk(tail.index) + 1 /\ Off(tail'.index) = 0
        /\ Num(tail'.index) = Num(tail.index)
    BY <1>6, <1>7, NextBlock
  <1>9. /\ Blk(Idx(t)) = Blk(tail.index) /\ Blk(tail.index) \in Nat /\ Blk(head.index) \in Nat
        /\ Blk(head.index) <= Blk(tail.index) /\ loc[t].block \in Blocks
    <2>1. Blk(Idx(t)) \in Blocks
      BY <1>1, PushSlot, SlotOfIndex
    <2> QED
      BY <1>3, <1>6, <1>7, <2>1, AfterLast, BlockOrder, IndexTypes
  <1>10. Pushes(t)
    <2>1. tail'.index \in Nat /\ tail.index <= tail'.index
      BY <1>6
    <2> QED
      BY <1>1, <1>2, <1>5, <2>1 DEF Pushes, Others, Bits
  <1>11. Typed'
    BY <1>1, <1>2, <1>5, <1>6 DEF Typed, ThreadTyped
  <1>12. EnteredInv' /\ \A i \in Slots : SlotInv(i)'
    <2>1. PushOwner(t)' <=> PushOwner(t)
      BY <1>1, <1>5 DEF PushOwner
    <2>2. ASSUME NEW i \in Slots PROVE i < tail'.index <=> i < tail.index
      <3>1. i \in Nat /\ i # tail.index
        BY <1>7, CapType DEF Slots
      <3> QED
        BY <1>6, <3>1
    <2> QED
      BY <1>1, <1>2, <1>6, <1>8, <1>10, <2>1, <2>2, PushesKeepsValues
  <1>13. TailInv'
    BY <1>2, <1>7, <1>8, CapType DEF TailInv
  <1>14. HeadInv'
    <2>1. \A p \in Pushers : pc[p] = "headBlock" => pc'[p] = pc[p]
      BY <1>1, <1>10, PushesFrame
    <2>2. \A c \in Poppers : Moving(c)' <=> Moving(c)
      BY <1>10, PushesFrame
    <2>3. Blk(head.index) < Blk(tail'.index) /\ head.index <= tail'.index
      BY <1>6, <1>8, <1>9
    <2> QED
      BY <1>2, <2>1, <2>2, <2>3 DEF IInv, HeadInv
  <1>15. LinkInv'
    <2>1. \A p \in Pushers : pc[p] = "link" => pc'[p] = pc[p] /\ loc'[p] = loc[p]
      BY <1>1, <1>10, PushesFrame
    <2>2. ASSUME NEW b \in Blocks
          PROVE  b < Blk(tail'.index) <=> b < Blk(tail.index) \/ b = loc[t].block
      BY <1>7, <1>8, <1>9 DEF Blocks
    <2> QED
      BY <1>2, <1>5, <2>1, <2>2 DEF IInv, LinkInv
  <1>16. next[loc[t].block] = Null
    BY <1>7, <1>9 DEF IInv, LinkInv
  <1>17. ASSUME NEW p \in Pushers PROVE PushInv(p)'
    <2>1. CASE p = t
      <3>1. PushOwner(t)' /\ Idx(t) < tail'.index /\ Idx(t) <= tail'.index
        BY <1>3, <1>5, <1>6, <1>7 DEF PushOwner
      <3>2. loc[t].block < Blk(tail'.index) /\ loc[t].fresh = loc[t].block + 1
        BY <1>7, <1>8, <1>9
      <3> QED
        BY <1>1, <1>2, <1>3, <1>5, <1>6, <1>7, <1>16, <2>1, <3>1, <3>2 DEF PushInv, PushOwner, Bits, Idx
    <2>2. CASE p # t
      <3>1. pc'[p] = pc[p] /\ loc'[p] = loc[p] /\ Idx(p)' = Idx(p) /\ PushInv(p) /\ Idx(p) \in Nat
        BY <1>10, <2>2, PushesFrame, Numbers DEF IInv
      <3>2. pc[p] \notin {"install", "skip"}
        BY <1>1, <2>2, OneInstalls
      <3>3. /\ Idx(p) <= tail.index => Idx(p) <= tail'.index /\ Idx(p) # tail'.index
            /\ Idx(p) < tail.index => Idx(p) < tail'.index
        BY <1>6, <3>1
      <3>4. pc[p] = "link" => loc[p].block < Blk(tail'.index)
        <4>1. loc[p].block \in Nat
          BY Numbers DEF Memory, Pointers, Blocks, Null
        <4> QED
          BY <1>8, <1>9, <3>1, <4>1 DEF PushInv
      <3> QED
        BY <1>2, <3>1, <3>2, <3>3, <3>4 DEF PushInv, PushOwner, Bits, Idx
    <2> QED BY <2>1, <2>2
  <1>18. OnePerPlace'
    BY <1>5, <1>10, PushesOnePerPlace
  <1>19. LiveInv'
    BY <1>2, <1>10, PushesKeepsLive
  <1> QED
    BY <1>10, <1>11, <1>12, <1>13, <1>14, <1>15, <1>17, <1>18, <1>19, PushesKeeps DEF IInv

LEMMA PushLinkKeeps ==
  ASSUME IInv, NEW t \in Pushers, PushLink(t)
  PROVE  IInv'
  <1>1. t \in Threads /\ dropper.pc = "none" /\ Typed /\ pc[t] = "link" /\ PushOwner(t)
    BY Numbers, BusyNoDrop DEF IInv, PushLink, PushOwner
  <1>2. UNCHANGED <<head, headBlock, tail, tailBlock, cell, state, live, loc, result,
                    calls, dropper, entered, left>>
    BY DEF PushLink, queueVars, history
  <1>3. /\ loc[t] \in Memory /\ result[t] \in Results /\ Idx(t) \in Nat /\ PushInv(t)
        /\ tail.index \in Nat
    BY <1>1, Stays, Numbers DEF IInv
  <1>4. Moves(t, "write", loc[t], result[t]) /\ next' = [next EXCEPT ![loc[t].block] = loc[t].fresh]
    BY <1>1, <1>2, Stays DEF PushLink, Goto, Moves
  <1>5. /\ ThreadTyped'
        /\ \A u \in Threads : u # t => pc'[u] = pc[u] /\ loc'[u] = loc[u] /\ result'[u] = result[u]
        /\ pc'[t] = "write" /\ loc'[t] = loc[t]
    BY <1>1, <1>3, <1>4, MovesTyped DEF PushPlaces
  <1>6. /\ loc[t].fresh = loc[t].block + 1 /\ loc[t].block < Blk(tail.index)
        /\ next[loc[t].block] = Null
    BY <1>1, <1>3 DEF PushInv
  <1>7. loc[t].block \in Blocks /\ loc[t].fresh \in Blocks
    <2>1. loc[t].block \in Blocks
      BY <1>1, PushSlot, SlotOfIndex
    <2> QED
      BY <1>3, <1>6, <2>1 DEF Memory, Pointers, Blocks, Null
  <1>8. /\ next' \in [Blocks -> Pointers]
        /\ \A b \in Blocks : next'[b] = IF b = loc[t].block THEN loc[t].fresh ELSE next[b]
    <2>1. next \in [Blocks -> Pointers] /\ loc[t].fresh \in Pointers
      BY <1>1, <1>7 DEF Typed, Pointers
    <2> QED
      BY <1>4, <1>7, <2>1
  <1>9. loc[t].fresh # Null /\ Idx(t)' = Idx(t)
    BY <1>5, <1>7, BlockTypes DEF Idx
  <1>10. Pushes(t)
    BY <1>1, <1>2, <1>3, <1>5, <1>6, <1>7, <1>8 DEF Pushes, Others, Bits
  <1>11. Typed'
    BY <1>1, <1>2, <1>5, <1>8 DEF Typed, ThreadTyped
  <1>12. EnteredInv' /\ \A i \in Slots : SlotInv(i)'
    <2>1. PushOwner(t)' <=> PushOwner(t)
      BY <1>1, <1>5 DEF PushOwner
    <2> QED
      BY <1>1, <1>2, <1>9, <1>10, <2>1, PushesKeepsValues
  <1>13. TailInv'
    <2>1. \A p \in Pushers : pc[p] \in {"install", "skip"} => pc'[p] = pc[p]
      BY <1>1, <1>10, PushesFrame
    <2> QED
      BY <1>2, <2>1 DEF IInv, TailInv
  <1>14. HeadInv'
    <2>1. \A p \in Pushers : pc[p] = "headBlock" => pc'[p] = pc[p]
      BY <1>1, <1>10, PushesFrame
    <2>2. \A c \in Poppers : Moving(c)' <=> Moving(c)
      BY <1>10, PushesFrame
    <2> QED
      BY <1>2, <2>1, <2>2 DEF IInv, HeadInv
  <1>15. LinkInv'
    <2>1. \A p \in Pushers : p # t => pc'[p] = pc[p] /\ loc'[p] = loc[p]
      BY <1>10, PushesFrame
    <2> QED
      BY <1>2, <1>6, <1>8, <1>9, <2>1 DEF IInv, LinkInv
  <1>16. ASSUME NEW p \in Pushers PROVE PushInv(p)'
    <2>1. CASE p = t
      BY <1>1, <1>2, <1>3, <1>5, <1>9, <2>1 DEF PushInv, PushOwner, Bits, Idx
    <2>2. CASE p # t
      <3>1. pc'[p] = pc[p] /\ loc'[p] = loc[p] /\ Idx(p)' = Idx(p) /\ PushInv(p)
        BY <1>10, <2>2, PushesFrame DEF IInv
      <3>2. pc[p] = "link" => loc[p].block # loc[t].block /\ loc[p].block \in Blocks
        BY <1>1, <2>2, OneLinks, PushSlot, SlotOfIndex DEF PushOwner
      <3>3. pc[p] = "link" => next'[loc[p].block] = next[loc[p].block]
        BY <1>8, <3>2
      <3> QED
        BY <1>2, <3>1, <3>3 DEF PushInv, PushOwner, Bits, Idx
    <2> QED BY <2>1, <2>2
  <1>17. OnePerPlace'
    BY <1>5, <1>10, PushesOnePerPlace
  <1>18. LiveInv'
    BY <1>2, <1>10, PushesKeepsLive
  <1> QED
    BY <1>10, <1>11, <1>12, <1>13, <1>14, <1>15, <1>16, <1>17, <1>18, PushesKeeps DEF IInv

(* The value gets its index. *)
LEMMA PushAdvanceKeeps ==
  ASSUME IInv, NEW t \in Pushers, PushAdvance(t)
  PROVE  IInv'
  <1> DEFINE v == <<t, calls[t]>>
             n == Len(entered)
  <1>1. t \in Threads /\ dropper.pc = "none" /\ Typed /\ pc[t] = "advance" /\ tail = loc[t].pos
    BY Numbers, BusyNoDrop DEF IInv, PushAdvance
  <1>2. UNCHANGED <<head, headBlock, tailBlock, next, cell, state, live, loc, calls, dropper, left>>
    BY DEF PushAdvance, blockVars
  <1>3. /\ loc[t] \in Memory /\ Idx(t) \in Nat /\ PushInv(t) /\ F!Pushed \in Results
        /\ tail.index \in Nat /\ head.index \in Nat /\ head.index <= tail.index /\ tail.index = Idx(t)
    BY <1>1, Stays, Numbers DEF IInv, Results, Idx
  <1>4. /\ Off(Idx(t)) < BlockCap /\ tailBlock # Null /\ loc[t].block = Blk(Idx(t)) /\ calls[t] > 0
    BY <1>1, <1>3 DEF PushInv
  <1>5. /\ tail' = Plus(tail) /\ entered' = Append(entered, v)
        /\ \/ Off(Idx(t)) + 1 = BlockCap /\ Moves(t, "install", loc[t], F!Pushed)
           \/ Off(Idx(t)) + 1 # BlockCap /\ Moves(t, "write", loc[t], F!Pushed)
    BY <1>1, <1>2, <1>3, Stays DEF PushAdvance, Goto, Moves, Last, Offset, Off
  <1>6. /\ ThreadTyped'
        /\ \A u \in Threads : u # t => pc'[u] = pc[u] /\ loc'[u] = loc[u] /\ result'[u] = result[u]
        /\ loc'[t] = loc[t]
        /\ \/ pc'[t] = "install" /\ Off(Idx(t)) + 1 = BlockCap
           \/ pc'[t] = "write" /\ Off(Idx(t)) + 1 # BlockCap
    BY <1>1, <1>3, <1>5, MovesTyped DEF PushPlaces
  <1>7. /\ tail' \in Position /\ tail'.index = tail.index + 1 /\ tail'.mark = tail.mark /\ Idx(t)' = Idx(t)
    <2>1. tail \in Position
      BY <1>1 DEF Typed
    <2> QED
      BY <1>5, <1>6, <2>1 DEF Plus, Position, Idx
  <1>8. /\ Blk(tail'.index) = Blk(tail.index) /\ Off(tail'.index) = Off(tail.index) + 1
        /\ Num(tail'.index) = Num(tail.index) + 1
    BY <1>3, <1>4, <1>7, NextInBlock
  <1>9. v \in Values
    <2>1. calls[t] \in Nat /\ calls[t] <= MaxPushes
      BY <1>1 DEF Typed
    <2> QED
      BY <1>4, <2>1, BoundAssumption DEF Values
  <1>10. n \in Nat /\ n = Num(tail.index)
    BY <1>3, IndexTypes DEF IInv, EnteredInv
  <1>11. /\ entered' \in Seq(Values) /\ Len(entered') = n + 1 /\ entered'[n + 1] = v
         /\ \A k \in 1..n : entered'[k] = entered[k]
    <2>1. entered \in Seq(Values)
      BY <1>1 DEF Typed
    <2> HIDE DEF v
    <2> QED
      BY <1>5, <1>9, <2>1, AppendProperties
  <1> HIDE DEF v, n
  <1>12. Pushes(t)
    <2>1. tail'.index \in Nat /\ tail.index <= tail'.index
      BY <1>3, <1>7
    <2> QED
      BY <1>1, <1>2, <1>6, <1>11, <2>1 DEF Pushes, Others, Bits, n
  <1>13. Typed'
    BY <1>1, <1>2, <1>6, <1>7, <1>11 DEF Typed, ThreadTyped
  <1>14. Idx(t) \in Slots /\ WRITE \notin Bits(Idx(t))
    <2>1. Blk(Idx(t)) \in Blocks
      BY <1>3, <1>4, IndexTypes DEF Memory, Pointers, Null
    <2>2. Idx(t) \in Slots
      BY <1>3, <1>4, <2>1 DEF Slots
    <2>3. SlotInv(Idx(t))
      BY <2>2 DEF IInv
    <2> QED
      BY <1>3, <2>2, <2>3 DEF SlotInv
  <1>15. PushOwner(t)' /\ ~PushOwner(t)
    BY <1>1, <1>6 DEF PushOwner
  <1>16. \A p \in Pushers : p # t => /\ pc'[p] = pc[p] /\ loc'[p] = loc[p] /\ calls'[p] = calls[p]
                                     /\ Idx(p)' = Idx(p)
                                     /\ PushOwner(p)' <=> PushOwner(p)
    BY <1>12, PushesFrame
  <1>17. \A i \in Slots : i < tail.index => Num(i) + 1 \in 1..n /\ entered'[Num(i) + 1] = entered[Num(i) + 1]
    <2> SUFFICES ASSUME NEW i \in Slots, i < tail.index PROVE Num(i) + 1 \in 1..n
      BY <1>11
    <2>1. i \in Nat /\ Off(i) < BlockCap
      BY DEF Slots
    <2>2. Num(i) < Num(tail.index) /\ Num(i) \in Nat
      BY <1>3, <2>1, NumOrder, IndexTypes
    <2> QED
      BY <1>10, <2>2
  <1>18. EnteredInv'
    <2>1. \A i \in 1..n : /\ entered[i] \in Values /\ entered[i][1] \in Pushers /\ entered[i][2] \in Nat
                          /\ entered[i] = <<entered[i][1], entered[i][2]>>
      BY <1>1 DEF Typed, Values, n
    <2>2. /\ \A i, j \in 1..n : entered[i] = entered[j] => i = j
          /\ \A i \in 1..n :
                /\ entered[i][2] <= calls[entered[i][1]]
                /\ entered[i][2] = calls[entered[i][1]] =>
                      pc[entered[i][1]] = "idle" \/ PushOwner(entered[i][1])
      BY DEF IInv, EnteredInv, n
    <2>3. ASSUME NEW i \in 1..n, entered[i][1] = t PROVE entered[i][2] # calls[t]
      BY <1>1, <1>15, <2>2, <2>3
    <2>4. \A i \in 1..n : entered[i] # v
      BY <2>3 DEF v
    <2>5. 1..Len(entered') = (1..n) \cup {n + 1}
      BY <1>10, <1>11
    <2>6. ASSUME NEW i \in 1..Len(entered'), NEW j \in 1..Len(entered'), entered'[i] = entered'[j]
          PROVE  i = j
      BY <1>11, <2>2, <2>4, <2>5, <2>6
    <2>7. ASSUME NEW i \in 1..Len(entered')
          PROVE  /\ entered'[i][2] <= calls'[entered'[i][1]]
                 /\ entered'[i][2] = calls'[entered'[i][1]] =>
                       pc'[entered'[i][1]] \in {"idle", "install", "skip", "link", "write"}
      <3>1. CASE i = n + 1
        <4>1. entered'[i][1] = t /\ entered'[i][2] = calls[t] /\ calls[t] \in Nat
          BY <1>1, <1>11, <3>1 DEF v, Typed
        <4> QED
          BY <1>2, <1>15, <4>1 DEF PushOwner
      <3>2. CASE i \in 1..n
        <4>1. PICK p \in Pushers : p = entered[i][1]
          BY <2>1, <3>2
        <4>2. entered'[i] = entered[i]
          BY <1>11, <3>2
        <4>3. CASE p = t
          BY <1>2, <1>15, <2>2, <2>3, <3>2, <4>1, <4>2, <4>3 DEF PushOwner
        <4>4. CASE p # t
          BY <1>2, <1>16, <2>2, <3>2, <4>1, <4>2, <4>4 DEF PushOwner
        <4> QED BY <4>3, <4>4
      <3> QED BY <2>5, <3>1, <3>2
    <2>8. Len(entered') = Num(tail'.index)
      BY <1>8, <1>10, <1>11
    <2> QED
      BY <2>6, <2>7, <2>8 DEF EnteredInv, PushOwner
  <1>19. TailInv'
    <2>1. tailBlock = Blk(tail.index)
      BY <1>3, <1>4 DEF IInv, TailInv
    <2>2. Off(tail'.index) = BlockCap => pc'[t] = "install"
      BY <1>3, <1>6, <1>8
    <2> QED
      BY <1>2, <1>4, <1>8, <2>1, <2>2 DEF TailInv
  <1>20. HeadInv'
    <2>1. \A p \in Pushers : pc[p] = "headBlock" => pc'[p] = pc[p]
      BY <1>1, <1>12, PushesFrame
    <2>2. \A c \in Poppers : Moving(c)' <=> Moving(c)
      BY <1>12, PushesFrame
    <2>3. head.index <= tail'.index
      BY <1>3, <1>7
    <2> QED
      BY <1>2, <1>8, <2>1, <2>2, <2>3 DEF IInv, HeadInv
  <1>21. LinkInv'
    <2>1. \A p \in Pushers : pc[p] = "link" => pc'[p] = pc[p] /\ loc'[p] = loc[p]
      BY <1>1, <1>12, PushesFrame
    <2> QED
      BY <1>2, <1>8, <2>1 DEF IInv, LinkInv
  <1>22. ASSUME NEW p \in Pushers PROVE PushInv(p)'
    <2>1. CASE p = t
      <3>1. Idx(t) < tail'.index /\ Idx(t) <= tail'.index /\ Idx(t) + 1 = tail'.index
        BY <1>3, <1>7
      <3>2. pc'[t] = "install" =>
               /\ Off(Idx(t)) = BlockCap - 1 /\ Off(tail'.index) = BlockCap
               /\ tailBlock = Blk(tail'.index)
        <4>1. Off(Idx(t)) \in Nat
          BY <1>3, IndexTypes
        <4> QED
          BY <1>3, <1>4, <1>6, <1>8, <4>1, CapType DEF IInv, TailInv
      <3>3. entered'[Num(Idx(t)) + 1] = <<t, calls[t]>>
        BY <1>3, <1>10, <1>11 DEF v
      <3>4. pc'[t] \in {"install", "write"}
        BY <1>6
      <3> QED
        BY <1>2, <1>4, <1>6, <1>7, <1>14, <2>1, <3>1, <3>2, <3>3, <3>4 DEF PushInv, PushOwner, Bits, Idx
    <2>2. CASE p # t
      <3>1. /\ pc'[p] = pc[p] /\ loc'[p] = loc[p] /\ Idx(p)' = Idx(p) /\ calls'[p] = calls[p]
            /\ PushInv(p) /\ Idx(p) \in Nat
        BY <1>16, <2>2, Numbers DEF IInv
      <3>2. pc[p] \notin {"install", "skip"}
        BY <1>3, <1>4, <3>1, CapType DEF PushInv
      <3>3. /\ Idx(p) <= tail.index => Idx(p) <= tail'.index /\ Idx(p) # tail'.index
            /\ Idx(p) < tail.index => Idx(p) < tail'.index
        BY <1>3, <1>7, <3>1
      <3>4. PushOwner(p) => entered'[Num(Idx(p)) + 1] = entered[Num(Idx(p)) + 1]
        BY <1>17, PushSlot
      <3> QED
        BY <1>2, <1>8, <3>1, <3>2, <3>3, <3>4 DEF PushInv, PushOwner, Bits, Idx
    <2> QED BY <2>1, <2>2
  <1>23. OnePerPlace'
    BY <1>6, <1>12, PushesOnePerPlace
  <1>24. ASSUME NEW i \in Slots PROVE SlotInv(i)'
    <2>1. SlotInv(i) /\ Blk(i) \in Nat /\ i \in Nat
      BY SlotOfIndex, IndexTypes DEF IInv
    <2>2. \A j \in Slots : Bits(j)' = Bits(j)
      BY <1>2 DEF Bits
    <2>3. i < tail'.index <=> i < tail.index \/ i = Idx(t)
      BY <1>3, <1>7, <2>1
    <2>4. \A b \in Nat : LastRead(b)' <=> LastRead(b)
      BY <1>12, PushesFrame
    <2>5. \A c \in Poppers : Idx(c)' = Idx(c)
      BY <1>12, PushesFrame
    <2>6. \A c \in Poppers : PopOwner(c)' <=> PopOwner(c)
      BY <1>12, PushesFrame
    <2>7. \A p \in Pushers : PushOwner(p) => PushOwner(p)' /\ Idx(p)' = Idx(p)
      BY <1>15, <1>16
    <2>8. i < tail.index => entered'[Num(i) + 1] = entered[Num(i) + 1]
      BY <1>17
    <2>9. i < tail'.index /\ WRITE \notin Bits(i)' => \E p \in Pushers : PushOwner(p)' /\ Idx(p)' = i
      BY <1>7, <1>15, <2>1, <2>2, <2>3, <2>7 DEF SlotInv
    <2> QED
      BY <1>2, <2>1, <2>2, <2>3, <2>4, <2>5, <2>6, <2>8, <2>9 DEF SlotInv
  <1>25. LiveInv'
    BY <1>2, <1>12, PushesKeepsLive
  <1> QED
    BY <1>12, <1>13, <1>18, <1>19, <1>20, <1>21, <1>22, <1>23, <1>24, <1>25, PushesKeeps DEF IInv

(* The value is written at its index. *)
LEMMA PushWriteKeeps ==
  ASSUME IInv, NEW t \in Pushers, PushWrite(t)
  PROVE  IInv'
  <1>1. t \in Threads /\ dropper.pc = "none" /\ Typed /\ pc[t] = "write" /\ PushOwner(t)
    BY Numbers, BusyNoDrop DEF IInv, PushWrite, PushOwner
  <1>2. UNCHANGED <<head, headBlock, tail, tailBlock, next, live, calls, dropper, entered, left>>
    BY DEF PushWrite, queueVars, history
  <1>3. /\ result[t] \in Results /\ tail.index \in Nat /\ head.index <= tail.index
        /\ NoLocals \in Memory /\ NoLocals.pos.index = 0
    BY <1>1, Stays, Numbers, NoMemory
  <1>4. /\ Idx(t) \in Slots /\ Idx(t) < tail.index /\ Slot(t) = <<Blk(Idx(t)), Off(Idx(t))>>
        /\ WRITE \notin Bits(Idx(t)) /\ entered[Num(Idx(t)) + 1] = <<t, calls[t]>>
    BY <1>1, PushSlot
  <1>5. Moves(t, "idle", NoLocals, result[t])
    BY DEF PushWrite, End, Return, Goto, Moves
  <1>6. /\ ThreadTyped'
        /\ \A u \in Threads : u # t => pc'[u] = pc[u] /\ loc'[u] = loc[u] /\ result'[u] = result[u]
        /\ pc'[t] = "idle" /\ loc'[t] = NoLocals
    BY <1>1, <1>3, <1>5, MovesTyped
  <1>7. PICK i \in Slots : i = Idx(t)
    BY <1>4
  <1>8. /\ state' = [state EXCEPT ![<<Blk(i), Off(i)>>] = Bits(i) \cup {WRITE}]
        /\ cell' = [cell EXCEPT ![<<Blk(i), Off(i)>>] = <<t, calls[t]>>]
    BY <1>4, <1>7 DEF PushWrite, Bits
  <1>9. \A j \in Slots : Bits(j)' = IF j = i THEN Bits(i) \cup {WRITE} ELSE Bits(j)
    <2> DEFINE S == Bits(i) \cup {WRITE}
    <2> HIDE DEF S
    <2>1. \A j \in Slots : Bits(j)' = IF j = i THEN S ELSE Bits(j)
      BY <1>1, <1>8, BitsWritten DEF S
    <2> QED BY <2>1 DEF S
  <1>10. \A j \in Slots : cell'[<<Blk(j), Off(j)>>] =
                             IF j = i THEN <<t, calls[t]>> ELSE cell[<<Blk(j), Off(j)>>]
    BY <1>1, <1>8, CellWritten
  <1>11. <<t, calls[t]>> \in Values
    <2>1. calls[t] \in Nat /\ calls[t] <= MaxPushes /\ calls[t] > 0
      BY <1>1 DEF Typed, IInv, PushInv
    <2> QED
      BY <2>1, BoundAssumption DEF Values
  <1>12. Pushes(t)
    <2>1. \A j \in Slots : /\ READ \in Bits(j)' <=> READ \in Bits(j)
                           /\ DESTROY \in Bits(j)' <=> DESTROY \in Bits(j)
                           /\ WRITE \in Bits(j) => WRITE \in Bits(j)'
      BY <1>9 DEF READ, DESTROY, WRITE
    <2> QED
      BY <1>1, <1>2, <1>3, <1>6, <2>1 DEF Pushes, Others
  <1>13. Typed'
    <2>1. state \in [Blocks \X Offsets -> SUBSET {WRITE, READ, DESTROY}] /\ cell \in [Blocks \X Offsets -> Values \cup {NoValue}]
      BY <1>1 DEF Typed
    <2>2. <<Blk(i), Off(i)>> \in Blocks \X Offsets
      BY SlotOfIndex
    <2>3. Bits(i) \cup {WRITE} \in SUBSET {WRITE, READ, DESTROY}
      BY <2>1, <2>2 DEF Bits
    <2>4. state' \in [Blocks \X Offsets -> SUBSET {WRITE, READ, DESTROY}]
      BY <1>8, <2>1, <2>2, <2>3
    <2>5. cell' \in [Blocks \X Offsets -> Values \cup {NoValue}]
      BY <1>8, <1>11, <2>1, <2>2
    <2> QED
      BY <1>1, <1>2, <1>6, <2>4, <2>5 DEF Typed, ThreadTyped
  <1>14. \A p \in Pushers : p # t => /\ pc'[p] = pc[p] /\ loc'[p] = loc[p] /\ calls'[p] = calls[p]
                                     /\ Idx(p)' = Idx(p)
                                     /\ PushOwner(p)' <=> PushOwner(p)
    BY <1>12, PushesFrame
  <1>15. ~PushOwner(t)' /\ Idx(t)' = 0
    BY <1>3, <1>6 DEF PushOwner, Idx
  <1>16. EnteredInv'
    <2>1. \A k \in 1..Len(entered) : entered[k][1] \in Pushers
      BY <1>1 DEF Typed, Values
    <2>2. \A p \in Pushers : pc[p] = "idle" \/ PushOwner(p) => pc'[p] = "idle" \/ PushOwner(p)'
      BY <1>6, <1>14
    <2> QED
      BY <1>2, <2>1, <2>2 DEF IInv, EnteredInv
  <1>17. TailInv'
    <2>1. \A p \in Pushers : pc[p] \in {"install", "skip"} => pc'[p] = pc[p]
      BY <1>1, <1>14
    <2> QED
      BY <1>2, <2>1 DEF IInv, TailInv
  <1>18. HeadInv'
    <2>1. \A p \in Pushers : pc[p] = "headBlock" => pc'[p] = pc[p]
      BY <1>1, <1>14
    <2>2. \A c \in Poppers : Moving(c)' <=> Moving(c)
      BY <1>12, PushesFrame
    <2> QED
      BY <1>2, <2>1, <2>2 DEF IInv, HeadInv
  <1>19. LinkInv'
    <2>1. \A p \in Pushers : pc[p] = "link" => pc'[p] = pc[p] /\ loc'[p] = loc[p]
      BY <1>1, <1>14
    <2> QED
      BY <1>2, <2>1 DEF IInv, LinkInv
  <1>20. ASSUME NEW p \in Pushers PROVE PushInv(p)'
    <2>1. CASE p = t
      BY <1>2, <1>3, <1>6, <1>15, <2>1 DEF PushInv
    <2>2. CASE p # t
      <3>1. pc'[p] = pc[p] /\ loc'[p] = loc[p] /\ Idx(p)' = Idx(p) /\ PushInv(p)
        BY <1>14, <2>2 DEF IInv
      <3>2. PushOwner(p) => WRITE \notin state'[<<Blk(Idx(p)), Off(Idx(p))>>]
        <4> SUFFICES ASSUME PushOwner(p) PROVE WRITE \notin state'[<<Blk(Idx(p)), Off(Idx(p))>>]
          OBVIOUS
        <4>1. PICK j \in Slots : j = Idx(p)
          BY PushSlot
        <4>2. j # i /\ WRITE \notin Bits(j)
          BY <1>1, <1>7, <2>2, <4>1, PushersApart, PushSlot
        <4> QED
          BY <1>9, <4>1, <4>2 DEF Bits
      <3> QED
        BY <1>2, <3>1, <3>2 DEF PushInv, PushOwner, Bits, Idx
    <2> QED BY <2>1, <2>2
  <1>21. OnePerPlace'
    BY <1>6, <1>12, PushesOnePerPlace
  <1>22. ASSUME NEW j \in Slots PROVE SlotInv(j)'
    <2>1. SlotInv(j) /\ Blk(j) \in Nat /\ j \in Nat
      BY SlotOfIndex, IndexTypes DEF IInv
    <2>2. \A b \in Nat : LastRead(b)' <=> LastRead(b)
      BY <1>12, PushesFrame
    <2>3. \A c \in Poppers : Idx(c)' = Idx(c)
      BY <1>12, PushesFrame
    <2>4. \A c \in Poppers : PopOwner(c)' <=> PopOwner(c)
      BY <1>12, PushesFrame
    <2>5. \A k \in Slots : READ \in Bits(k)' <=> READ \in Bits(k)
      BY <1>12 DEF Pushes
    <2>6. DESTROY \in Bits(j)' <=> DESTROY \in Bits(j)
      BY <1>12 DEF Pushes
    <2>7. WRITE \in Bits(j)' <=> WRITE \in Bits(j) \/ j = i
      BY <1>9
    <2>8. j < tail.index /\ WRITE \notin Bits(j)' => \E p \in Pushers : PushOwner(p)' /\ Idx(p)' = j
      <3> SUFFICES ASSUME j < tail.index, WRITE \notin Bits(j)'
                   PROVE \E p \in Pushers : PushOwner(p)' /\ Idx(p)' = j
        OBVIOUS
      <3>1. j # i /\ WRITE \notin Bits(j)
        BY <2>7
      <3>2. PICK p \in Pushers : PushOwner(p) /\ Idx(p) = j
        BY <2>1, <3>1 DEF SlotInv
      <3>3. p # t
        BY <1>7, <3>1, <3>2
      <3> QED
        BY <1>14, <3>2, <3>3
    <2>9. WRITE \in Bits(j)' => cell'[<<Blk(j), Off(j)>>] = entered[Num(j) + 1] /\ j < tail.index
      BY <1>1, <1>4, <1>7, <1>10, <2>1, <2>7 DEF SlotInv
    <2> QED
      BY <1>2, <2>1, <2>2, <2>3, <2>4, <2>5, <2>6, <2>7, <2>8, <2>9 DEF SlotInv
  <1>23. LiveInv'
    BY <1>2, <1>12, PushesKeepsLive
  <1> QED
    BY <1>12, <1>13, <1>16, <1>17, <1>18, <1>19, <1>20, <1>21, <1>22, <1>23, PushesKeeps DEF IInv

LEMMA PushStepKeeps ==
  ASSUME IInv, NEW t \in Pushers, PushStart(t) \/ PushStep(t)
  PROVE  IInv'
  BY PushStartKeeps, PushIndexKeeps, PushBlockKeeps, PushFirstKeeps, PushHeadBlockKeeps,
     PushAdvanceKeeps, PushInstallKeeps, PushSkipKeeps, PushLinkKeeps, PushWriteKeeps
     DEF PushStep

-----------------------------------------------------------------------------
(* Steps of poppers.  They leave the tail, the links, the values and what   *)
(* pushers have; the head only moves on, and bits are only added.           *)
Pops(t) ==
    /\ Others(t) /\ calls' = calls
    /\ tail' = tail /\ tailBlock' = tailBlock /\ next' = next /\ cell' = cell /\ entered' = entered
    /\ dropper' = dropper /\ dropper.pc = "none"
    /\ headBlock' = headBlock \/ (headBlock # Null /\ headBlock' # Null)
    /\ head'.index \in Nat /\ head.index <= head'.index
    /\ \A i \in Slots : /\ WRITE \in Bits(i)' <=> WRITE \in Bits(i)
                        /\ READ \in Bits(i) => READ \in Bits(i)'

LEMMA PopsFrame ==
  ASSUME IInv, NEW t \in Poppers, Pops(t)
  PROVE  /\ \A p \in Pushers : /\ pc'[p] = pc[p] /\ loc'[p] = loc[p] /\ result'[p] = result[p]
                               /\ calls'[p] = calls[p] /\ Idx(p)' = Idx(p)
                               /\ PushOwner(p)' <=> PushOwner(p)
         /\ \A d \in Poppers : d # t => /\ pc'[d] = pc[d] /\ loc'[d] = loc[d] /\ result'[d] = result[d]
                                        /\ Idx(d)' = Idx(d)
                                        /\ PopOwner(d)' <=> PopOwner(d)
                                        /\ Moving(d)' <=> Moving(d)
  <1>1. Pushers \subseteq Threads /\ Poppers \subseteq Threads
    BY Numbers
  <1>2. \A p \in Pushers : /\ pc'[p] = pc[p] /\ loc'[p] = loc[p] /\ result'[p] = result[p]
                           /\ calls'[p] = calls[p] /\ Idx(p)' = Idx(p)
                           /\ PushOwner(p)' <=> PushOwner(p)
    BY <1>1, Disjoint DEF Pops, Others, PushOwner, Idx
  <1>3. \A d \in Poppers : d # t => /\ pc'[d] = pc[d] /\ loc'[d] = loc[d] /\ result'[d] = result[d]
                                    /\ Idx(d)' = Idx(d)
                                    /\ PopOwner(d)' <=> PopOwner(d)
                                    /\ Moving(d)' <=> Moving(d)
    BY <1>1 DEF Pops, Others, PopOwner, Moving, Idx
  <1> QED
    BY <1>2, <1>3

LEMMA PopsKeeps ==
  ASSUME IInv, NEW t \in Poppers, Pops(t)
  PROVE  /\ EnteredInv' /\ TailInv' /\ DropInv'
         /\ \A p \in Pushers : PushInv(p)'
         /\ (\A b \in Blocks : b < Blk(head'.index) => next[b] # Null) => LinkInv'
  <1>1. \A p \in Pushers : /\ pc'[p] = pc[p] /\ loc'[p] = loc[p] /\ calls'[p] = calls[p]
                           /\ Idx(p)' = Idx(p)
    BY PopsFrame
  <1>2. \A p \in Pushers : PushOwner(p)' <=> PushOwner(p)
    BY PopsFrame
  <1>3. /\ tail' = tail /\ tailBlock' = tailBlock /\ next' = next /\ cell' = cell /\ entered' = entered
        /\ dropper' = dropper /\ dropper.pc = "none" /\ calls' = calls
    BY DEF Pops
  <1>4. EnteredInv'
    <2>1. \A i \in 1..Len(entered) : entered[i][1] \in Pushers
      BY DEF IInv, Typed, Values
    <2> QED
      BY <1>1, <1>2, <1>3, <2>1 DEF IInv, EnteredInv
  <1>5. TailInv'
    BY <1>1, <1>3 DEF IInv, TailInv
  <1>6. DropInv'
    BY <1>3 DEF DropInv
  <1>7. ASSUME NEW p \in Pushers PROVE PushInv(p)'
    <2>1. PushInv(p) /\ pc'[p] = pc[p] /\ loc'[p] = loc[p]
      BY <1>1 DEF IInv
    <2>2. ASSUME PushOwner(p) PROVE WRITE \notin state'[<<Blk(Idx(p)), Off(Idx(p))>>]
      <3>1. PICK j \in Slots : j = Idx(p)
        BY <2>2, PushSlot
      <3>2. WRITE \notin Bits(j)
        BY <2>2, <3>1, PushSlot
      <3>3. WRITE \notin Bits(j)'
        BY <3>2 DEF Pops
      <3> QED
        BY <3>1, <3>3 DEF Bits
    <2>3. headBlock = Null => headBlock' = Null
      BY DEF Pops
    <2> QED
      BY <1>3, <2>1, <2>2, <2>3 DEF PushInv, PushOwner, Bits, Idx
  <1>8. ASSUME \A b \in Blocks : b < Blk(head'.index) => next[b] # Null PROVE LinkInv'
    BY <1>1, <1>3, <1>8 DEF IInv, LinkInv
  <1> QED
    BY <1>4, <1>5, <1>6, <1>7, <1>8

LEMMA PopsOtherPopper ==
  ASSUME IInv, NEW t \in Poppers, Pops(t), NEW d \in Poppers, d # t,
         Moving(d) => head' = head /\ headBlock' = headBlock,
         PopOwner(d) => READ \notin state'[<<Blk(Idx(d)), Off(Idx(d))>>]
  PROVE  PopInv(d)'
  <1>1. /\ pc'[d] = pc[d] /\ loc'[d] = loc[d] /\ result'[d] = result[d] /\ Idx(d)' = Idx(d)
        /\ PopInv(d)
    BY PopsFrame DEF IInv
  <1>2. /\ tail' = tail /\ next' = next /\ entered' = entered
        /\ headBlock # Null => headBlock' # Null
    BY DEF Pops
  <1>3. Idx(d) \in Nat /\ head.index \in Nat /\ head'.index \in Nat /\ head.index <= head'.index
    BY Numbers DEF Pops
  <1>4. /\ Idx(d) <= head.index => Idx(d) <= head'.index
        /\ Idx(d) < head.index => Idx(d) < head'.index
        /\ Idx(d) = head'.index /\ Idx(d) <= head.index => Idx(d) = head.index
    BY <1>3
  <1>5. pc[d] = "mark" => WRITE \in state'[<<Blk(Idx(d)), Off(Idx(d))>>]
    <2> SUFFICES ASSUME pc[d] = "mark" PROVE WRITE \in state'[<<Blk(Idx(d)), Off(Idx(d))>>]
      OBVIOUS
    <2>1. PICK j \in Slots : j = Idx(d)
      BY PopSlot DEF PopOwner
    <2>2. WRITE \in Bits(j)
      BY <1>1, <2>1 DEF PopInv
    <2>3. WRITE \in Bits(j)'
      BY <2>2 DEF Pops
    <2> QED
      BY <2>1, <2>3 DEF Bits
  <1> QED
    BY <1>1, <1>2, <1>4, <1>5 DEF PopInv, PopOwner, Moving, Bits, Idx

(* A popper that keeps its slot moves the head, from a block that it has    *)
(* the last slot of, or not at all.                                         *)
LEMMA PopsKeepsSlots ==
  ASSUME IInv, NEW t \in Poppers, Pops(t), PopOwner(t), PopOwner(t)', state' = state, live' = live,
         loc'[t].block = loc[t].block, Idx(t)' = Idx(t),
         \A i \in Slots : i < head'.index <=> i < head.index,
         \A b \in Nat : b < Blk(head.index) => b < Blk(head'.index),
         \A b \in Nat : b < Blk(head'.index) => b < Blk(head.index) \/ b = loc[t].block,
         Off(Idx(t)) = BlockCap - 1 \/ head' = head
  PROVE  /\ OnePerPlace' /\ LiveInv'
         /\ \A i \in Slots : SlotInv(i)'
         /\ \A c \in Poppers : DestroyInv(c)'
  <1>1. pc[t] # "destroy" /\ pc'[t] # "destroy"
    BY DEF PopOwner
  <1>2. \A c \in Poppers : PopOwner(c)' <=> PopOwner(c)
    BY PopsFrame
  <1>3. \A c \in Poppers : Idx(c)' = Idx(c)
    BY PopsFrame
  <1>4. \A c \in Poppers : pc[c] = "destroy" \/ pc'[c] = "destroy" => pc'[c] = pc[c] /\ loc'[c] = loc[c]
    BY <1>1, PopsFrame
  <1>5. \A c \in Poppers : loc'[c].block = loc[c].block
    BY PopsFrame
  <1>6. ASSUME NEW b \in Nat PROVE LastRead(b)' <=> LastRead(b)
    <2>1. CASE head' = head
      BY <1>2, <1>3, <1>5, <2>1 DEF LastRead
    <2>2. CASE Off(Idx(t)) = BlockCap - 1
      <3>1. Off(Idx(t)) \in Nat /\ ~(Off(Idx(t)) < BlockCap - 1)
        BY <2>2, CapType
      <3> QED
        BY <1>2, <1>3, <1>5, <3>1 DEF LastRead
    <2> QED BY <2>1, <2>2
  <1>7. /\ tail' = tail /\ tailBlock' = tailBlock /\ cell' = cell /\ entered' = entered
        /\ dropper' = dropper /\ dropper.pc = "none"
    BY DEF Pops
  <1>8. \A i \in Slots : Bits(i)' = Bits(i)
    BY DEF Bits
  <1>9. OnePerPlace'
    <2>1. \A p \in Pushers : pc'[p] = pc[p]
      BY PopsFrame
    <2> QED
      BY <1>2, <1>3, <1>4, <2>1 DEF IInv, OnePerPlace
  <1>10. LiveInv'
    <2>1. live \subseteq Nat /\ 1..tailBlock \subseteq Nat
      BY DEF IInv, Typed, Blocks
    <2> QED
      BY <1>4, <1>6, <1>7, <1>8, <2>1 DEF IInv, LiveInv
  <1>11. ASSUME NEW i \in Slots PROVE SlotInv(i)'
    <2>1. SlotInv(i) /\ Blk(i) \in Nat
      BY SlotOfIndex, IndexTypes DEF IInv
    <2>2. \A p \in Pushers : Idx(p)' = Idx(p)
      BY PopsFrame
    <2>3. \A p \in Pushers : PushOwner(p)' <=> PushOwner(p)
      BY PopsFrame
    <2> QED
      BY <1>2, <1>3, <1>6, <1>7, <1>8, <2>1, <2>2, <2>3 DEF SlotInv
  <1>12. ASSUME NEW c \in Poppers PROVE DestroyInv(c)'
    <2>1. DestroyInv(c) /\ loc[c].block \in Nat
      BY Numbers DEF IInv, Memory, Pointers, Blocks, Null
    <2> QED
      BY <1>4, <1>6, <1>8, <2>1 DEF DestroyInv
  <1> QED
    BY <1>9, <1>10, <1>11, <1>12

LEMMA MovingIs ==
  ASSUME IInv, NEW t \in Poppers, Moving(t)
  PROVE  /\ PopOwner(t) /\ Idx(t) \in Slots /\ Idx(t) \in Nat /\ head.index \in Nat
         /\ Off(Idx(t)) = BlockCap - 1 /\ Idx(t) + 1 = head.index /\ Off(head.index) = BlockCap
         /\ loc[t].block = Blk(head.index) /\ loc[t].block = Blk(Idx(t)) /\ loc[t].block \in Blocks
         /\ headBlock # Null
         /\ \A d \in Poppers : d # t => ~Moving(d)
         /\ t \in Threads /\ dropper.pc = "none" /\ Typed /\ loc[t] \in Memory /\ result[t] \in Results
  <1>1. PopOwner(t) /\ Idx(t) + 1 = head.index /\ Off(head.index) = BlockCap
    BY DEF IInv, PopInv, Moving, PopOwner
  <1>2. Idx(t) \in Slots /\ loc[t].block = Blk(Idx(t)) /\ headBlock # Null
    BY <1>1, PopSlot
  <1>3. Idx(t) \in Nat /\ head.index \in Nat /\ Blk(Idx(t)) \in Blocks
    BY <1>2, SlotOfIndex, Numbers
  <1>4. Off(Idx(t)) = BlockCap - 1 /\ Blk(Idx(t)) = Blk(head.index)
    BY <1>1, <1>3, AfterLast
  <1>5. t \in Threads /\ dropper.pc = "none"
    BY Numbers, BusyNoDrop DEF Moving
  <1>6. Typed /\ loc[t] \in Memory /\ result[t] \in Results
    BY <1>5, Stays DEF IInv
  <1> QED
    BY <1>1, <1>2, <1>3, <1>4, <1>5, <1>6, OneMoves

(* While the head waits, its popper looks at the list. *)
LEMMA PopLooksAhead ==
  ASSUME IInv, NEW t \in Poppers, Moving(t), NEW x \in {"peek", "moveBlock"}, NEW m \in Memory,
         Moves(t, x, m, result[t]),
         UNCHANGED <<queueVars, blockVars, result, calls, dropper, history>>,
         pc[t] \in {"waitNext", "peek"}, m.pos = loc[t].pos, m.block = loc[t].block, m.slot = loc[t].slot,
         m.fresh = loc[t].block + 1, next[loc[t].block] # Null,
         x = "moveBlock" /\ m.mark => next[m.fresh] # Null
  PROVE  IInv'
  <1>1. UNCHANGED <<head, headBlock, tail, tailBlock, next, cell, state, live, calls,
                    dropper, entered, left>>
    BY DEF queueVars, blockVars, history
  <1>2. /\ PopOwner(t) /\ Idx(t) \in Nat /\ head.index \in Nat
        /\ Off(Idx(t)) = BlockCap - 1 /\ Idx(t) + 1 = head.index /\ Off(head.index) = BlockCap
        /\ \A d \in Poppers : d # t => ~Moving(d)
        /\ t \in Threads /\ dropper.pc = "none" /\ Typed /\ loc[t] \in Memory /\ result[t] \in Results
    BY MovingIs
  <1>3. /\ ThreadTyped'
        /\ \A u \in Threads : u # t => pc'[u] = pc[u] /\ loc'[u] = loc[u] /\ result'[u] = result[u]
        /\ pc'[t] = x /\ loc'[t] = m /\ result'[t] = result[t]
    <2>1. x \in PopPlaces \cup {"idle"}
      BY DEF PopPlaces
    <2>2. t \in Threads /\ Typed /\ result[t] \in Results
      BY <1>2
    <2> QED
      BY <2>1, <2>2, MovesTyped
  <1>4. Pops(t)
    BY <1>1, <1>2, <1>3 DEF Pops, Others, Bits
  <1>5. Typed'
    BY <1>1, <1>2, <1>3 DEF Typed, ThreadTyped
  <1>6. Idx(t)' = Idx(t) /\ PopOwner(t)' /\ Moving(t)' /\ loc'[t].block = loc[t].block
    BY <1>3 DEF Idx, PopOwner, Moving
  <1>7. OnePerPlace' /\ LiveInv' /\ (\A i \in Slots : SlotInv(i)') /\ (\A c \in Poppers : DestroyInv(c)')
    BY <1>1, <1>2, <1>4, <1>6, PopsKeepsSlots
  <1>8. LinkInv' /\ EnteredInv' /\ TailInv' /\ DropInv' /\ \A p \in Pushers : PushInv(p)'
    <2>1. \A b \in Blocks : b < Blk(head'.index) => next[b] # Null
      BY <1>1 DEF IInv, LinkInv
    <2> QED
      BY <1>4, <2>1, PopsKeeps
  <1>9. HeadInv'
    <2>1. \A p \in Pushers : pc'[p] = pc[p]
      BY <1>4, PopsFrame
    <2> QED
      BY <1>1, <1>6, <2>1 DEF IInv, HeadInv
  <1>10. ASSUME NEW c \in Poppers PROVE PopInv(c)'
    <2>1. CASE c = t
      <3>1. PopInv(t) /\ headBlock = Blk(head.index) /\ pc[t] # "destroy"
        BY DEF IInv, PopInv
      <3>2. loc[t].slot = 0
        BY <3>1 DEF PopInv
      <3> QED
        BY <1>1, <1>2, <1>3, <1>6, <2>1, <3>1, <3>2 DEF PopInv, PopOwner, Moving, Bits, Idx
    <2>2. CASE c # t
      <3>1. PopOwner(c) => READ \notin state'[<<Blk(Idx(c)), Off(Idx(c))>>]
        BY <1>1, PopSlot DEF Bits
      <3> QED
        BY <1>1, <1>4, <2>2, <3>1, PopsOtherPopper
    <2> QED BY <2>1, <2>2
  <1> QED
    BY <1>5, <1>7, <1>8, <1>9, <1>10 DEF IInv

LEMMA PopWaitNextKeeps ==
  ASSUME IInv, NEW t \in Poppers, PopWaitNext(t)
  PROVE  IInv'
  <1> DEFINE m == [loc[t] EXCEPT !.fresh = next[loc[t].block]]
  <1>1. Moving(t) /\ pc[t] = "waitNext" /\ next[loc[t].block] # Null
    BY DEF PopWaitNext, Moving
  <1>2. t \in Threads /\ Typed /\ loc[t] \in Memory /\ loc[t].block \in Blocks
    BY <1>1, MovingIs
  <1>3. next[loc[t].block] = loc[t].block + 1 /\ next[loc[t].block] \in Pointers
    BY <1>1, <1>2 DEF IInv, LinkInv, Typed
  <1>4. /\ m \in Memory /\ m.pos = loc[t].pos /\ m.block = loc[t].block /\ m.slot = loc[t].slot
        /\ m.fresh = loc[t].block + 1
    BY <1>2, <1>3, MemoryFields DEF Memory
  <1>5. Moves(t, "peek", m, result[t])
    BY <1>2, Stays DEF PopWaitNext, Goto, Local, Moves
  <1>6. UNCHANGED <<queueVars, blockVars, result, calls, dropper, history>>
    BY DEF PopWaitNext
  <1> HIDE DEF m
  <1> QED
    BY <1>1, <1>4, <1>5, <1>6, PopLooksAhead

LEMMA PopPeekKeeps ==
  ASSUME IInv, NEW t \in Poppers, PopPeek(t)
  PROVE  IInv'
  <1> DEFINE more == next[loc[t].fresh] # Null
             m == [loc[t] EXCEPT !.mark = more]
  <1>1. Moving(t) /\ pc[t] = "peek"
    BY DEF PopPeek, Moving
  <1>2. t \in Threads /\ Typed /\ loc[t] \in Memory
    BY <1>1, MovingIs
  <1>3. loc[t].fresh = loc[t].block + 1 /\ next[loc[t].block] # Null
    BY <1>1 DEF IInv, PopInv
  <1>4. /\ m \in Memory /\ m.pos = loc[t].pos /\ m.block = loc[t].block /\ m.slot = loc[t].slot
        /\ m.fresh = loc[t].fresh /\ m.mark = more
    BY <1>2, MemoryFields DEF Memory
  <1>5. Moves(t, "moveBlock", m, result[t])
    BY <1>2, Stays DEF PopPeek, Goto, Local, Moves
  <1>6. UNCHANGED <<queueVars, blockVars, result, calls, dropper, history>>
    BY DEF PopPeek
  <1>7. m.mark => next[m.fresh] # Null
    BY <1>4
  <1> HIDE DEF m
  <1> QED
    BY <1>1, <1>3, <1>4, <1>5, <1>6, <1>7, PopLooksAhead

(* The head moves to the next block: the block, then the index.             *)
LEMMA PopMoveBlockKeeps ==
  ASSUME IInv, NEW t \in Poppers, PopMoveBlock(t)
  PROVE  IInv'
  <1>1. Moving(t) /\ pc[t] = "moveBlock"
    BY DEF PopMoveBlock, Moving
  <1>2. UNCHANGED <<head, tail, tailBlock, next, cell, state, live, loc, result, calls,
                    dropper, entered, left>>
    BY DEF PopMoveBlock, blockVars, history
  <1>3. /\ PopOwner(t) /\ Idx(t) \in Nat /\ head.index \in Nat
        /\ Off(Idx(t)) = BlockCap - 1 /\ Idx(t) + 1 = head.index /\ Off(head.index) = BlockCap
        /\ \A d \in Poppers : d # t => ~Moving(d)
        /\ loc[t].block = Blk(head.index) /\ headBlock # Null
    BY <1>1, MovingIs
  <1>4. t \in Threads /\ dropper.pc = "none" /\ Typed /\ loc[t] \in Memory /\ result[t] \in Results
    BY <1>1, MovingIs
  <1>5. /\ PopInv(t) /\ loc[t].fresh = loc[t].block + 1 /\ next[loc[t].block] # Null
        /\ loc[t].fresh \in live /\ loc[t].fresh = Blk(head.index) + 1
    BY <1>1, PeekLive DEF IInv, PopInv
  <1>6. loc[t].fresh # Null /\ loc[t].fresh \in Pointers
    BY <1>4, <1>5, BlockTypes DEF Typed, Pointers
  <1>7. Moves(t, "moveIndex", loc[t], result[t]) /\ headBlock' = loc[t].fresh
    BY <1>2, <1>4, Stays DEF PopMoveBlock, Goto, Moves
  <1>8. /\ ThreadTyped'
        /\ \A u \in Threads : u # t => pc'[u] = pc[u] /\ loc'[u] = loc[u] /\ result'[u] = result[u]
        /\ pc'[t] = "moveIndex" /\ loc'[t] = loc[t]
    BY <1>4, <1>7, MovesTyped DEF PopPlaces
  <1>9. Pops(t)
    BY <1>2, <1>3, <1>4, <1>6, <1>7, <1>8 DEF Pops, Others, Bits
  <1>10. Typed'
    BY <1>2, <1>4, <1>6, <1>7, <1>8 DEF Typed, ThreadTyped
  <1>11. Idx(t)' = Idx(t) /\ PopOwner(t)' /\ Moving(t)' /\ loc'[t].block = loc[t].block
    BY <1>8 DEF Idx, PopOwner, Moving
  <1>12. OnePerPlace' /\ LiveInv' /\ (\A i \in Slots : SlotInv(i)') /\ (\A c \in Poppers : DestroyInv(c)')
    BY <1>2, <1>3, <1>9, <1>11, PopsKeepsSlots
  <1>13. LinkInv' /\ EnteredInv' /\ TailInv' /\ DropInv' /\ \A p \in Pushers : PushInv(p)'
    <2>1. \A b \in Blocks : b < Blk(head'.index) => next[b] # Null
      BY <1>2 DEF IInv, LinkInv
    <2> QED
      BY <1>9, <2>1, PopsKeeps
  <1>14. HeadInv'
    BY <1>2, <1>3, <1>6, <1>7, <1>11, CapType DEF IInv, HeadInv
  <1>15. ASSUME NEW c \in Poppers PROVE PopInv(c)'
    <2>1. CASE c = t
      BY <1>1, <1>2, <1>3, <1>5, <1>6, <1>7, <1>8, <1>11, <2>1 DEF PopInv, PopOwner, Moving, Bits, Idx
    <2>2. CASE c # t
      <3>1. PopOwner(c) => READ \notin state'[<<Blk(Idx(c)), Off(Idx(c))>>]
        BY <1>2, PopSlot DEF Bits
      <3> QED
        BY <1>3, <1>9, <2>2, <3>1, PopsOtherPopper
    <2> QED BY <2>1, <2>2
  <1> QED
    BY <1>10, <1>12, <1>13, <1>14, <1>15 DEF IInv

LEMMA PopMoveIndexKeeps ==
  ASSUME IInv, NEW t \in Poppers, PopMoveIndex(t)
  PROVE  IInv'
  <1>1. Moving(t) /\ pc[t] = "moveIndex"
    BY DEF PopMoveIndex, Moving
  <1>2. UNCHANGED <<headBlock, tail, tailBlock, next, cell, state, live, loc, result,
                    calls, dropper, entered, left>>
    BY DEF PopMoveIndex, blockVars, history
  <1>3. /\ PopOwner(t) /\ Idx(t) \in Nat /\ head.index \in Nat
        /\ Off(Idx(t)) = BlockCap - 1 /\ Idx(t) + 1 = head.index /\ Off(head.index) = BlockCap
        /\ \A d \in Poppers : d # t => ~Moving(d)
        /\ loc[t].block = Blk(head.index) /\ loc[t].block \in Blocks /\ headBlock # Null
    BY <1>1, MovingIs
  <1>4. t \in Threads /\ dropper.pc = "none" /\ Typed /\ loc[t] \in Memory /\ result[t] \in Results
    BY <1>1, MovingIs
  <1>5. /\ PopInv(t) /\ loc[t].fresh = loc[t].block + 1 /\ next[loc[t].block] # Null
        /\ headBlock = Blk(head.index) + 1
        /\ loc[t].fresh \in live /\ loc[t].fresh <= Blk(tail.index)
    BY <1>1, PeekLive DEF IInv, PopInv
  <1>6. Moves(t, "read", loc[t], result[t]) /\ head' = [index |-> loc[t].pos.index + 2, mark |-> loc[t].mark]
    BY <1>2, <1>4, Stays DEF PopMoveIndex, Goto, Moves
  <1>7. /\ ThreadTyped'
        /\ \A u \in Threads : u # t => pc'[u] = pc[u] /\ loc'[u] = loc[u] /\ result'[u] = result[u]
        /\ pc'[t] = "read" /\ loc'[t] = loc[t]
    BY <1>4, <1>6, MovesTyped DEF PopPlaces
  <1>8. head' \in Position /\ head'.index = head.index + 1 /\ head'.mark = loc[t].mark
    <2>1. loc[t].pos.index + 2 = head.index + 1 /\ loc[t].mark \in BOOLEAN
      BY <1>3, <1>4 DEF Idx, Memory
    <2> QED
      BY <1>3, <1>6, <2>1 DEF Position
  <1>9. /\ Blk(head'.index) = Blk(head.index) + 1 /\ Off(head'.index) = 0
        /\ Num(head'.index) = Num(head.index)
    BY <1>3, <1>8, NextBlock
  <1>10. Blk(head.index) \in Nat /\ Blk(tail.index) \in Nat /\ tail.index \in Nat
    BY <1>3, IndexTypes, Numbers
  <1>11. Pops(t)
    <2>1. head'.index \in Nat /\ head.index <= head'.index
      BY <1>3, <1>8
    <2> QED
      BY <1>2, <1>3, <1>4, <1>7, <2>1 DEF Pops, Others, Bits
  <1>12. Typed'
    BY <1>2, <1>4, <1>7, <1>8 DEF Typed, ThreadTyped
  <1>13. Idx(t)' = Idx(t) /\ PopOwner(t)' /\ loc'[t].block = loc[t].block
    BY <1>7 DEF Idx, PopOwner
  <1>14. OnePerPlace' /\ LiveInv' /\ (\A i \in Slots : SlotInv(i)') /\ (\A c \in Poppers : DestroyInv(c)')
    <2>1. ASSUME NEW i \in Slots PROVE i < head'.index <=> i < head.index
      <3>1. i \in Nat /\ i # head.index
        BY <1>3, CapType DEF Slots
      <3> QED
        BY <1>3, <1>8, <3>1
    <2>2. \A b \in Nat : /\ b < Blk(head.index) => b < Blk(head'.index)
                         /\ b < Blk(head'.index) => b < Blk(head.index) \/ b = loc[t].block
      BY <1>3, <1>9, <1>10
    <2> QED
      BY <1>2, <1>3, <1>11, <1>13, <2>1, <2>2, PopsKeepsSlots
  <1>15. LinkInv' /\ EnteredInv' /\ TailInv' /\ DropInv' /\ \A p \in Pushers : PushInv(p)'
    <2>1. ASSUME NEW b \in Blocks, b < Blk(head'.index) PROVE next[b] # Null
      <3>1. b < Blk(head.index) \/ b = loc[t].block
        BY <1>3, <1>9, <1>10, <2>1 DEF Blocks
      <3> QED
        BY <1>5, <3>1 DEF IInv, LinkInv
    <2> QED
      BY <1>11, <2>1, PopsKeeps
  <1>16. HeadInv'
    <2>1. head'.index <= tail.index
      <3>1. Blk(head.index) < Blk(tail.index)
        BY <1>3, <1>5, <1>10
      <3>2. head.index < tail.index
        BY <1>3, <1>10, <3>1, EarlierBlock
      <3> QED
        BY <1>3, <1>8, <1>10, <3>2
    <2>2. head'.mark => Blk(head'.index) < Blk(tail.index)
      <3> SUFFICES ASSUME head'.mark PROVE Blk(head'.index) < Blk(tail.index)
        OBVIOUS
      <3>1. next[loc[t].fresh] # Null
        BY <1>1, <1>5, <1>8 DEF PopInv
      <3>2. loc[t].fresh \in Blocks
        BY <1>4, <1>5 DEF Typed
      <3> QED
        BY <1>3, <1>5, <1>9, <3>1, <3>2 DEF IInv, LinkInv
    <2>3. left = Num(head.index)
      BY DEF IInv, HeadInv
    <2>4. headBlock # Null /\ tailBlock # Null
      BY <1>3 DEF IInv, HeadInv
    <2> QED
      BY <1>2, <1>5, <1>9, <2>1, <2>2, <2>3, <2>4, CapType DEF HeadInv
  <1>17. ASSUME NEW c \in Poppers PROVE PopInv(c)'
    <2>1. CASE c = t
      <3>1. Idx(t) < head'.index /\ Idx(t) <= head'.index
        BY <1>3, <1>8
      <3> QED
        BY <1>1, <1>2, <1>3, <1>5, <1>7, <1>13, <2>1, <3>1 DEF PopInv, PopOwner, Moving, Bits, Idx
    <2>2. CASE c # t
      <3>1. PopOwner(c) => READ \notin state'[<<Blk(Idx(c)), Off(Idx(c))>>]
        BY <1>2, PopSlot DEF Bits
      <3> QED
        BY <1>3, <1>11, <2>2, <3>1, PopsOtherPopper
    <2> QED BY <2>1, <2>2
  <1> QED
    BY <1>12, <1>14, <1>15, <1>16, <1>17 DEF IInv

(* The popper gets an index, and the value that was pushed there.           *)
LEMMA PopClaimKeeps ==
  ASSUME IInv, NEW t \in Poppers, PopClaim(t)
  PROVE  IInv'
  <1> DEFINE answer == F!Got(entered[left + 1])
  <1>1. t \in Threads /\ dropper.pc = "none" /\ Typed /\ pc[t] = "claim" /\ head = loc[t].pos
    BY Numbers, BusyNoDrop DEF IInv, PopClaim
  <1>2. UNCHANGED <<headBlock, tail, tailBlock, next, cell, state, live, loc, calls,
                    dropper, entered>>
    BY DEF PopClaim, blockVars
  <1>3. /\ loc[t] \in Memory /\ Idx(t) \in Nat /\ PopInv(t)
        /\ tail.index \in Nat /\ head.index \in Nat /\ head.index = Idx(t)
    BY <1>1, Stays, Numbers DEF IInv, Idx
  <1>4. /\ Off(Idx(t)) < BlockCap /\ loc[t].block # Null /\ loc[t].block = Blk(Idx(t))
        /\ headBlock # Null /\ Idx(t) < tail.index /\ loc[t].slot = 0
        /\ loc[t].mark => Blk(Idx(t)) < Blk(tail.index)
    BY <1>1, <1>3 DEF PopInv
  <1>5. left = Num(Idx(t)) /\ left \in Nat /\ left + 1 \in 1..Len(entered)
    <2>1. Num(Idx(t)) < Num(tail.index) /\ Num(Idx(t)) \in Nat /\ Num(tail.index) \in Nat
      BY <1>3, <1>4, NumOrder, IndexTypes
    <2>2. left = Num(Idx(t)) /\ Len(entered) = Num(tail.index)
      BY <1>3 DEF IInv, HeadInv, EnteredInv
    <2> QED
      BY <2>1, <2>2
  <1>6. answer \in Results
    <2>1. entered[left + 1] \in Values
      BY <1>1, <1>5 DEF Typed
    <2> QED
      BY <2>1 DEF Results
  <1>7. /\ head' = [index |-> head.index + 1, mark |-> loc[t].mark] /\ left' = left + 1
        /\ \/ Off(Idx(t)) + 1 = BlockCap /\ Moves(t, "waitNext", loc[t], answer)
           \/ Off(Idx(t)) + 1 # BlockCap /\ Moves(t, "read", loc[t], answer)
    BY <1>1, <1>2, <1>3, Stays DEF PopClaim, Goto, Moves, Last, Offset, Off
  <1> HIDE DEF answer
  <1>8. /\ ThreadTyped'
        /\ \A u \in Threads : u # t => pc'[u] = pc[u] /\ loc'[u] = loc[u] /\ result'[u] = result[u]
        /\ loc'[t] = loc[t] /\ result'[t] = answer
        /\ \/ pc'[t] = "waitNext" /\ Off(Idx(t)) + 1 = BlockCap
           \/ pc'[t] = "read" /\ Off(Idx(t)) + 1 # BlockCap
    BY <1>1, <1>3, <1>6, <1>7, MovesTyped DEF PopPlaces
  <1>9. head' \in Position /\ head'.index = head.index + 1 /\ head'.mark = loc[t].mark /\ Idx(t)' = Idx(t)
    BY <1>3, <1>7, <1>8 DEF Position, Memory, Idx
  <1>10. /\ Blk(head'.index) = Blk(head.index) /\ Off(head'.index) = Off(head.index) + 1
         /\ Num(head'.index) = Num(head.index) + 1
    BY <1>3, <1>4, <1>9, NextInBlock
  <1>11. Pops(t)
    <2>1. head'.index \in Nat /\ head.index <= head'.index
      BY <1>3, <1>9
    <2> QED
      BY <1>1, <1>2, <1>8, <2>1 DEF Pops, Others, Bits
  <1>12. Typed'
    BY <1>1, <1>2, <1>5, <1>7, <1>8, <1>9 DEF Typed, ThreadTyped
  <1>13. Idx(t) \in Slots /\ READ \notin Bits(Idx(t))
    <2>1. Idx(t) \in Slots
      BY <1>3, <1>4, IndexTypes DEF Slots, Memory, Pointers, Null
    <2>2. PICK i \in Slots : i = Idx(t)
      BY <2>1
    <2>3. SlotInv(i) /\ ~(i < head.index)
      BY <1>3, <2>2 DEF IInv
    <2>4. READ \notin Bits(i)
      BY <2>3 DEF SlotInv
    <2> QED
      BY <2>2, <2>4
  <1>14. PopOwner(t)' /\ ~PopOwner(t) /\ pc[t] # "destroy" /\ pc'[t] # "destroy"
    BY <1>1, <1>8 DEF PopOwner
  <1>15. \A d \in Poppers : d # t => /\ pc'[d] = pc[d] /\ loc'[d] = loc[d]
                                     /\ Idx(d)' = Idx(d)
                                     /\ PopOwner(d)' <=> PopOwner(d)
    BY <1>11, PopsFrame
  <1>16. ASSUME NEW b \in Nat PROVE LastRead(b)' <=> LastRead(b)
    <2>1. Blk(Idx(t)) \in Nat
      BY <1>3, IndexTypes
    <2>2. b < Blk(head.index) => b # loc[t].block
      BY <1>3, <1>4, <2>1
    <2>3. \A c \in Poppers : loc'[c].block = loc[c].block
      BY <1>8, <1>15
    <2> QED
      BY <1>9, <1>10, <1>14, <1>15, <2>2, <2>3 DEF LastRead
  <1>17. LinkInv' /\ EnteredInv' /\ TailInv' /\ DropInv' /\ \A p \in Pushers : PushInv(p)'
    <2>1. \A b \in Blocks : b < Blk(head'.index) => next[b] # Null
      BY <1>10 DEF IInv, LinkInv
    <2> QED
      BY <1>11, <2>1, PopsKeeps
  <1>18. HeadInv'
    <2>1. left' = Num(head'.index)
      BY <1>3, <1>5, <1>7, <1>10
    <2>2. head'.index <= tail.index
      BY <1>3, <1>4, <1>9
    <2>3. head'.mark => Blk(head'.index) < Blk(tail.index)
      BY <1>3, <1>4, <1>9, <1>10
    <2>4. headBlock = Blk(head'.index) /\ tailBlock # Null
      BY <1>3, <1>4, <1>10 DEF IInv, HeadInv
    <2>5. Off(head'.index) = BlockCap => Moving(t)'
      BY <1>3, <1>8, <1>10 DEF Moving
    <2> QED
      BY <1>2, <1>4, <2>1, <2>2, <2>3, <2>4, <2>5 DEF HeadInv
  <1>19. ASSUME NEW c \in Poppers PROVE PopInv(c)'
    <2>1. CASE c = t
      <3>1. Idx(t) < head'.index /\ Idx(t) <= head'.index /\ Idx(t) + 1 = head'.index
        BY <1>3, <1>9
      <3>2. pc'[t] = "waitNext" => Off(head'.index) = BlockCap /\ headBlock = Blk(head'.index)
        BY <1>3, <1>4, <1>8, <1>10 DEF IInv, HeadInv
      <3>3. answer = F!Got(entered[Num(Idx(t)) + 1])
        BY <1>5 DEF answer
      <3>4. pc'[t] \in {"waitNext", "read"}
        BY <1>8
      <3> QED
        BY <1>2, <1>4, <1>8, <1>9, <1>13, <2>1, <3>1, <3>2, <3>3, <3>4 DEF PopInv, PopOwner, Moving, Bits, Idx
    <2>2. CASE c # t
      <3>1. PopOwner(c) => READ \notin state'[<<Blk(Idx(c)), Off(Idx(c))>>]
        BY <1>2, PopSlot DEF Bits
      <3>2. ~Moving(c)
        BY <1>3, <1>4, MovingIs, CapType
      <3> QED
        BY <1>11, <2>2, <3>1, <3>2, PopsOtherPopper
    <2> QED BY <2>1, <2>2
  <1>20. OnePerPlace'
    <2>1. \A p \in Pushers : pc'[p] = pc[p]
      BY <1>11, PopsFrame
    <2>2. ASSUME NEW d \in Poppers, PopOwner(d) PROVE Idx(d) # Idx(t)
      BY <1>3, <2>2, PopSlot, Numbers
    <2> QED
      BY <1>9, <1>14, <1>15, <2>1, <2>2 DEF IInv, OnePerPlace
  <1>21. ASSUME NEW i \in Slots PROVE SlotInv(i)'
    <2>1. SlotInv(i) /\ Blk(i) \in Nat /\ i \in Nat
      BY SlotOfIndex, IndexTypes DEF IInv
    <2>2. \A j \in Slots : Bits(j)' = Bits(j)
      BY <1>2 DEF Bits
    <2>3. i < head'.index <=> i < head.index \/ i = Idx(t)
      BY <1>3, <1>9, <2>1
    <2>4. \A p \in Pushers : Idx(p)' = Idx(p)
      BY <1>11, PopsFrame
    <2>5. \A p \in Pushers : PushOwner(p)' <=> PushOwner(p)
      BY <1>11, PopsFrame
    <2>6. \A c \in Poppers : PopOwner(c) => PopOwner(c)' /\ Idx(c)' = Idx(c)
      BY <1>14, <1>15
    <2>7. i < head'.index /\ (WRITE \notin Bits(i) \/ (READ \notin Bits(i) /\ Off(i) < BlockCap - 1)) =>
             \E c \in Poppers : PopOwner(c)' /\ Idx(c)' = i
      BY <1>9, <1>14, <2>1, <2>3, <2>6 DEF SlotInv
    <2> QED
      BY <1>2, <1>16, <2>1, <2>2, <2>3, <2>4, <2>5, <2>7 DEF SlotInv
  <1>22. ASSUME NEW c \in Poppers PROVE DestroyInv(c)'
    <2>1. DestroyInv(c) /\ loc[c].block \in Nat
      BY Numbers DEF IInv, Memory, Pointers, Blocks, Null
    <2>2. \A j \in Slots : Bits(j)' = Bits(j)
      BY <1>2 DEF Bits
    <2> QED
      BY <1>2, <1>14, <1>15, <1>16, <2>1, <2>2 DEF DestroyInv
  <1>23. LiveInv'
    <2>1. live \subseteq Nat /\ 1..tailBlock \subseteq Nat
      BY <1>1 DEF Typed, Blocks
    <2>2. \A j \in Slots : Bits(j)' = Bits(j)
      BY <1>2 DEF Bits
    <2> QED
      BY <1>1, <1>2, <1>14, <1>15, <1>16, <2>1, <2>2 DEF IInv, LiveInv
  <1> QED
    BY <1>12, <1>17, <1>18, <1>19, <1>20, <1>21, <1>22, <1>23 DEF IInv

(* The rest of a pop: the head stays where it is. *)
LEMMA PopsStill ==
  ASSUME IInv, NEW t \in Poppers, Pops(t), ~Moving(t), UNCHANGED <<head, headBlock, left>>
  PROVE  /\ EnteredInv' /\ TailInv' /\ DropInv' /\ LinkInv' /\ HeadInv'
         /\ \A p \in Pushers : PushInv(p)'
         /\ \A d \in Poppers : d # t /\ (PopOwner(d) => READ \notin state'[<<Blk(Idx(d)), Off(Idx(d))>>])
                                  => PopInv(d)'
         /\ \A p \in Pushers : pc'[p] = pc[p]
  <1>1. \A p \in Pushers : pc'[p] = pc[p]
    BY PopsFrame
  <1>2. \A d \in Poppers : d # t => (Moving(d)' <=> Moving(d))
    BY PopsFrame
  <1>3. tail' = tail /\ tailBlock' = tailBlock
    BY DEF Pops
  <1>4. HeadInv'
    BY <1>1, <1>2, <1>3 DEF IInv, HeadInv
  <1>5. EnteredInv' /\ TailInv' /\ DropInv' /\ LinkInv' /\ \A p \in Pushers : PushInv(p)'
    <2>1. \A b \in Blocks : b < Blk(head'.index) => next[b] # Null
      BY DEF IInv, LinkInv
    <2> QED
      BY <2>1, PopsKeeps
  <1>6. ASSUME NEW d \in Poppers, d # t, PopOwner(d) => READ \notin state'[<<Blk(Idx(d)), Off(Idx(d))>>]
        PROVE  PopInv(d)'
    BY <1>6, PopsOtherPopper
  <1> QED
    BY <1>1, <1>4, <1>5, <1>6

(* What a popper knows of the block whose last slot it has. *)
LEMMA LastSlotOf ==
  ASSUME IInv, NEW t \in Poppers, pc[t] = "read", Off(Idx(t)) + 1 = BlockCap
  PROVE  /\ loc[t].block = Blk(Idx(t)) /\ ~LastRead(loc[t].block)
         /\ Blk(Idx(t)) \in Nat /\ Blk(Idx(t)) < Blk(head.index)
         /\ \A d \in Poppers : PopOwner(d) /\ d # t /\ loc[d].block = loc[t].block => Off(Idx(d)) < BlockCap - 1
  <1>1. PopOwner(t) /\ ~Moving(t)
    BY DEF PopOwner, Moving
  <1>2. Idx(t) \in Slots /\ Idx(t) < head.index /\ loc[t].block = Blk(Idx(t))
    BY <1>1, PopSlot
  <1>3. /\ Idx(t) \in Nat /\ head.index \in Nat /\ Off(Idx(t)) \in Nat
        /\ Off(head.index) \in Nat /\ Off(head.index) <= BlockCap
        /\ Blk(Idx(t)) \in Nat /\ Blk(head.index) \in Nat
    BY <1>2, SlotOfIndex, Numbers, IndexTypes
  <1>4. Off(Idx(t)) = BlockCap - 1 /\ ~(Off(Idx(t)) < BlockCap - 1)
    BY <1>3, CapType
  <1>5. ~LastRead(loc[t].block)
    BY <1>1, <1>4 DEF LastRead
  <1>6. Blk(Idx(t)) # Blk(head.index)
    <2> SUFFICES ASSUME Blk(Idx(t)) = Blk(head.index) PROVE FALSE
      OBVIOUS
    <2>1. Off(Idx(t)) < Off(head.index)
      BY <1>2, <1>3, OneIndex
    <2>2. Off(head.index) = BlockCap
      BY <1>3, <1>4, <2>1, CapType
    <2>3. PICK c \in Poppers : Moving(c)
      BY <2>2 DEF IInv, HeadInv
    <2>4. /\ PopOwner(c) /\ Idx(c) \in Nat /\ Off(Idx(c)) = BlockCap - 1
          /\ Blk(Idx(c)) = Blk(head.index)
      BY <2>3, MovingIs
    <2>5. Idx(c) = Idx(t)
      BY <1>3, <1>4, <2>4, OneIndex
    <2> QED
      BY <1>1, <2>3, <2>4, <2>5, PoppersApart
  <1>7. Blk(Idx(t)) < Blk(head.index)
    BY <1>2, <1>3, <1>6, BlockOrder
  <1>8. ASSUME NEW d \in Poppers, PopOwner(d), d # t, loc[d].block = loc[t].block
        PROVE  Off(Idx(d)) < BlockCap - 1
    <2>1. Idx(d) \in Nat /\ Off(Idx(d)) < BlockCap /\ loc[d].block = Blk(Idx(d))
      BY <1>8, PopSlot, Numbers
    <2>2. Off(Idx(d)) \in Nat
      BY <2>1, IndexTypes
    <2>3. Off(Idx(d)) # BlockCap - 1
      <3>1. Idx(d) # Idx(t)
        BY <1>1, <1>8, PoppersApart
      <3> QED
        BY <1>2, <1>3, <1>4, <1>8, <2>1, <3>1, OneIndex
    <2> QED
      BY <2>1, <2>2, <2>3, CapType
  <1> QED
    BY <1>2, <1>3, <1>5, <1>7, <1>8

(* The value is taken; the reader of the last slot destroys the block.      *)
LEMMA PopReadKeeps ==
  ASSUME IInv, NEW t \in Poppers, PopRead(t)
  PROVE  IInv'
  <1>1. PopOwner(t) /\ ~Moving(t) /\ pc[t] = "read"
    BY DEF PopRead, PopOwner, Moving
  <1>2. UNCHANGED <<head, headBlock, tail, tailBlock, next, cell, state, live, loc, calls,
                    dropper, entered, left>>
    BY DEF PopRead, queueVars, blockVars, history
  <1>3. t \in Threads /\ dropper.pc = "none" /\ Typed /\ loc[t] \in Memory /\ result[t] \in Results
    <2>1. t \in Threads /\ dropper.pc = "none" /\ Typed
      BY <1>1, Numbers, BusyNoDrop DEF IInv
    <2> QED
      BY <2>1, Stays
  <1>4. PICK i \in Slots : i = Idx(t)
    BY <1>1, PopSlot
  <1>5. /\ i < head.index /\ Off(i) < BlockCap /\ loc[t].block = Blk(i) /\ Slot(t) = <<Blk(i), Off(i)>>
        /\ READ \notin Bits(i) /\ result[t] = F!Got(entered[Num(i) + 1]) /\ headBlock # Null
    BY <1>1, <1>4, PopSlot
  <1>6. WRITE \in Bits(i) /\ SlotInv(i)
    BY <1>4, <1>5 DEF PopRead, Bits, IInv
  <1>7. F!Got(cell[Slot(t)]) = result[t]
    <2>1. cell[<<Blk(i), Off(i)>>] = entered[Num(i) + 1]
      BY <1>3, <1>6 DEF SlotInv
    <2> QED
      BY <1>5, <2>1
  <1>8. \/ Off(i) + 1 = BlockCap /\ Moves(t, "destroy", loc[t], result[t])
        \/ Off(i) + 1 # BlockCap /\ Moves(t, "mark", loc[t], result[t])
    BY <1>2, <1>3, <1>4, <1>7, Stays DEF PopRead, Goto, Moves, Last, Offset, Off, Idx
  <1>9. /\ ThreadTyped'
        /\ \A u \in Threads : u # t => pc'[u] = pc[u] /\ loc'[u] = loc[u] /\ result'[u] = result[u]
        /\ loc'[t] = loc[t] /\ result'[t] = result[t]
        /\ \/ pc'[t] = "destroy" /\ Off(i) + 1 = BlockCap
           \/ pc'[t] = "mark" /\ Off(i) + 1 # BlockCap
    BY <1>3, <1>8, MovesTyped DEF PopPlaces
  <1>10. Pops(t)
    <2>1. head'.index \in Nat /\ head.index <= head'.index
      BY <1>2, Numbers
    <2> QED
      BY <1>2, <1>3, <1>9, <2>1 DEF Pops, Others, Bits
  <1>11. Typed'
    BY <1>2, <1>3, <1>9 DEF Typed, ThreadTyped
  <1>12. /\ EnteredInv' /\ TailInv' /\ DropInv' /\ LinkInv' /\ HeadInv'
         /\ \A p \in Pushers : PushInv(p)'
         /\ \A p \in Pushers : pc'[p] = pc[p]
    BY <1>1, <1>2, <1>10, PopsStill
  <1>13. ASSUME NEW d \in Poppers, d # t PROVE PopInv(d)'
    <2>1. PopOwner(d) => READ \notin state'[<<Blk(Idx(d)), Off(Idx(d))>>]
      BY <1>2, PopSlot DEF Bits
    <2> QED
      BY <1>1, <1>2, <1>10, <1>13, <2>1, PopsStill
  <1>14. Idx(t)' = Idx(t) /\ Off(i) \in Nat
    BY <1>9, SlotOfIndex, IndexTypes DEF Idx
  <1>15. PopInv(t)'
    <2>1. PopInv(t)
      BY DEF IInv
    <2>2. pc'[t] = "mark" => Off(i) < BlockCap - 1
      BY <1>5, <1>9, <1>14, CapType
    <2>3. loc[t].slot = 0
      BY <1>1, <2>1 DEF PopInv
    <2> QED
      BY <1>1, <1>2, <1>4, <1>5, <1>6, <1>9, <1>14, <2>1, <2>2, <2>3 DEF PopInv, PopOwner, Moving, Bits, Idx
  <1>16. CASE pc'[t] = "mark"
    <2>1. PopOwner(t)'
      BY <1>16 DEF PopOwner
    <2>2. OnePerPlace' /\ LiveInv' /\ (\A k \in Slots : SlotInv(k)') /\ (\A c \in Poppers : DestroyInv(c)')
      BY <1>1, <1>2, <1>9, <1>10, <1>14, <2>1, PopsKeepsSlots
    <2> QED
      BY <1>11, <1>12, <1>13, <1>15, <2>2 DEF IInv
  <1>17. CASE pc'[t] = "destroy" /\ Off(i) + 1 = BlockCap
    <2>0. PICK b \in Nat : b = loc[t].block
      BY <1>3 DEF Memory, Pointers, Blocks, Null
    <2>1. /\ b = Blk(i) /\ ~LastRead(b) /\ b \in Nat /\ b < Blk(head.index) /\ b \in live
          /\ \A d \in Poppers : PopOwner(d) /\ d # t /\ loc[d].block = b => Off(Idx(d)) < BlockCap - 1
      BY <1>1, <1>4, <1>17, <2>0, LastSlotOf, PopperLive
    <2>2. ~PopOwner(t)' /\ \A d \in Poppers : d # t => /\ pc'[d] = pc[d] /\ loc'[d] = loc[d]
                                                       /\ Idx(d)' = Idx(d)
                                                       /\ PopOwner(d)' <=> PopOwner(d)
      BY <1>10, <1>17, PopsFrame DEF PopOwner
    <2>3. LastRead(b)'
      BY <1>2, <2>1, <2>2 DEF LastRead
    <2>4. ASSUME NEW x \in Nat, x # b PROVE LastRead(x)' <=> LastRead(x)
      <3>1. \A d \in Poppers : PopOwner(d)' /\ loc'[d].block = x <=> PopOwner(d) /\ loc[d].block = x
        BY <2>0, <2>2, <2>4
      <3>2. \A d \in Poppers : PopOwner(d)' /\ loc'[d].block = x => Idx(d)' = Idx(d)
        BY <2>2
      <3> QED
        BY <1>2, <3>1, <3>2 DEF LastRead
    <2>5. \A x \in Nat : LastRead(x) => LastRead(x)'
      BY <2>3, <2>4
    <2>6. \A k \in Slots : Bits(k)' = Bits(k)
      BY <1>2 DEF Bits
    <2>7. OnePerPlace'
      <3>1. ASSUME NEW d \in Poppers, pc[d] = "destroy" PROVE loc[d].block # b
        BY <2>1, <3>1 DEF IInv, DestroyInv
      <3> QED
        BY <1>9, <1>12, <2>0, <2>2, <3>1 DEF IInv, OnePerPlace
    <2>8. ASSUME NEW k \in Slots PROVE SlotInv(k)'
      <3>1. SlotInv(k) /\ Blk(k) \in Nat
        BY SlotOfIndex, IndexTypes DEF IInv
      <3>2. \A p \in Pushers : Idx(p)' = Idx(p)
        BY <1>10, PopsFrame
      <3>3. \A p \in Pushers : PushOwner(p)' <=> PushOwner(p)
        BY <1>10, PopsFrame
      <3>4. k < head.index /\ (WRITE \notin Bits(k) \/ (READ \notin Bits(k) /\ Off(k) < BlockCap - 1)) =>
               \E c \in Poppers : PopOwner(c)' /\ Idx(c)' = k
        <4> SUFFICES ASSUME k < head.index, WRITE \notin Bits(k) \/ (READ \notin Bits(k) /\ Off(k) < BlockCap - 1)
                     PROVE \E c \in Poppers : PopOwner(c)' /\ Idx(c)' = k
          OBVIOUS
        <4>1. PICK c \in Poppers : PopOwner(c) /\ Idx(c) = k
          BY <3>1 DEF SlotInv
        <4>2. k # i
          BY <1>6, <1>14, <1>17, CapType
        <4> QED
          BY <1>4, <2>2, <4>1, <4>2
      <3> QED
        BY <1>2, <2>5, <2>6, <3>1, <3>2, <3>3, <3>4 DEF SlotInv
    <2>9. ASSUME NEW c \in Poppers PROVE DestroyInv(c)'
      <3>1. CASE c # t
        <4>1. DestroyInv(c) /\ loc[c].block \in Nat
          BY Numbers DEF IInv, Memory, Pointers, Blocks, Null
        <4> QED
          BY <1>2, <2>2, <2>5, <2>6, <3>1, <4>1 DEF DestroyInv
      <3>2. CASE c = t
        <4>1. loc[t].slot = 0 /\ 0 <= BlockCap - 1
          BY <1>1, CapType DEF IInv, PopInv
        <4>2. ASSUME NEW k \in Slots, Blk(k) = b PROVE ~(Off(k) < 0) /\ DESTROY \notin Bits(k)
          <5>1. Off(k) \in Nat /\ SlotInv(k)
            BY SlotOfIndex, IndexTypes DEF IInv
          <5> QED
            BY <2>1, <4>2, <5>1 DEF SlotInv
        <4>3. loc'[t].block = b /\ loc'[t].slot = 0
          BY <1>9, <2>0, <4>1
        <4> QED
          BY <1>2, <2>1, <2>3, <2>6, <3>2, <4>1, <4>2, <4>3 DEF DestroyInv
      <3> QED BY <3>1, <3>2
    <2>10. LiveInv'
      <3>1. live \subseteq Nat /\ 1..tailBlock \subseteq Nat
        BY <1>3 DEF Typed, Blocks
      <3>2. loc'[t].block = b
        BY <1>9, <2>0
      <3>3. ASSUME NEW x \in live, LastRead(x)'
            PROVE  \/ \E c \in Poppers : pc'[c] = "destroy" /\ loc'[c].block = x
                   \/ \E k \in Slots : Blk(k) = x /\ DESTROY \in Bits(k) /\ READ \notin Bits(k)
        <4>1. CASE x = b
          BY <1>17, <3>2, <4>1
        <4>2. CASE x # b
          <5>1. LastRead(x)
            BY <2>4, <3>1, <3>3, <4>2
          <5>2. \A c \in Poppers : pc[c] = "destroy" => pc'[c] = "destroy" /\ loc'[c] = loc[c]
            BY <1>1, <2>2
          <5> QED
            BY <1>3, <5>1, <5>2 DEF IInv, LiveInv
        <4> QED BY <4>1, <4>2
      <3> QED
        BY <1>2, <1>3, <2>5, <2>6, <3>1, <3>3 DEF IInv, LiveInv
    <2> QED
      BY <1>11, <1>12, <1>13, <1>15, <2>7, <2>8, <2>9, <2>10 DEF IInv
  <1> QED
    BY <1>9, <1>16, <1>17

(* A popper that is not at the last slot of its block leaves what is known  *)
(* of the other blocks.                                                     *)
LEMMA PopsLastRead ==
  ASSUME IInv, NEW t \in Poppers, Pops(t), head' = head, ~PopOwner(t)',
         PopOwner(t) => Off(Idx(t)) < BlockCap - 1
  PROVE  \A b \in Nat : LastRead(b)' <=> LastRead(b)
  <1>1. \A d \in Poppers : d # t => /\ loc'[d] = loc[d] /\ Idx(d)' = Idx(d)
                                    /\ PopOwner(d)' <=> PopOwner(d)
    BY PopsFrame
  <1> QED
    BY <1>1 DEF LastRead

(* The READ bit is set; who finds the DESTROY bit goes on with the          *)
(* destruction, after its slot.                                             *)
LEMMA PopMarkKeeps ==
  ASSUME IInv, NEW t \in Poppers, PopMark(t)
  PROVE  IInv'
  <1>1. PopOwner(t) /\ ~Moving(t) /\ pc[t] = "mark"
    BY DEF PopMark, PopOwner, Moving
  <1>2. UNCHANGED <<head, headBlock, tail, tailBlock, next, cell, live, calls, dropper,
                    entered, left>>
    BY DEF PopMark, queueVars, history
  <1>3. t \in Threads /\ dropper.pc = "none" /\ Typed /\ loc[t] \in Memory /\ result[t] \in Results
    <2>1. t \in Threads /\ dropper.pc = "none" /\ Typed
      BY <1>1, Numbers, BusyNoDrop DEF IInv
    <2> QED
      BY <2>1, Stays
  <1>4. PICK i \in Slots : i = Idx(t)
    BY <1>1, PopSlot
  <1>5. /\ i < head.index /\ loc[t].block = Blk(i) /\ Slot(t) = <<Blk(i), Off(i)>>
        /\ READ \notin Bits(i) /\ headBlock # Null
    BY <1>1, <1>4, PopSlot
  <1>6. /\ WRITE \in Bits(i) /\ Off(i) < BlockCap - 1 /\ SlotInv(i)
        /\ i \in Nat /\ Blk(i) \in Nat /\ Off(i) \in Nat
    BY <1>1, <1>4, SlotOfIndex, IndexTypes DEF IInv, PopInv
  <1>7. state' = [state EXCEPT ![<<Blk(i), Off(i)>>] = Bits(i) \cup {READ}]
    BY <1>5 DEF PopMark, Bits
  <1>8. \A j \in Slots : Bits(j)' = IF j = i THEN Bits(i) \cup {READ} ELSE Bits(j)
    <2> DEFINE S == Bits(i) \cup {READ}
    <2> HIDE DEF S
    <2>1. \A j \in Slots : Bits(j)' = IF j = i THEN S ELSE Bits(j)
      BY <1>3, <1>7, BitsWritten DEF S
    <2> QED BY <2>1 DEF S
  <1>9. \A j \in Slots : /\ WRITE \in Bits(j)' <=> WRITE \in Bits(j)
                         /\ DESTROY \in Bits(j)' <=> DESTROY \in Bits(j)
                         /\ READ \in Bits(j)' <=> READ \in Bits(j) \/ j = i
    BY <1>8 DEF READ, DESTROY, WRITE
  <1> DEFINE m == [loc[t] EXCEPT !.slot = Off(i) + 1]
  <1>10. m \in Memory /\ m.pos = loc[t].pos /\ m.block = loc[t].block /\ m.slot = Off(i) + 1
    BY <1>3, <1>6, MemoryFields DEF Memory
  <1>11. \/ DESTROY \in Bits(i) /\ Moves(t, "destroy", m, result[t])
         \/ DESTROY \notin Bits(i) /\ Moves(t, "idle", NoLocals, result[t])
    BY <1>3, <1>4, <1>5, Stays
       DEF PopMark, Goto, Local, End, Return, Moves, Offset, Off, Idx, Bits
  <1> HIDE DEF m
  <1>12. /\ ThreadTyped'
         /\ \A u \in Threads : u # t => pc'[u] = pc[u] /\ loc'[u] = loc[u] /\ result'[u] = result[u]
         /\ \/ pc'[t] = "destroy" /\ loc'[t] = m /\ DESTROY \in Bits(i)
            \/ pc'[t] = "idle" /\ loc'[t] = NoLocals /\ DESTROY \notin Bits(i)
    <2>1. "destroy" \in PopPlaces \cup {"idle"} /\ "idle" \in PopPlaces \cup {"idle"}
      BY DEF PopPlaces
    <2>2. CASE DESTROY \in Bits(i) /\ Moves(t, "destroy", m, result[t])
      BY <1>3, <1>10, <2>1, <2>2, MovesTyped
    <2>3. CASE DESTROY \notin Bits(i) /\ Moves(t, "idle", NoLocals, result[t])
      BY <1>3, <2>1, <2>3, MovesTyped, NoMemory
    <2> QED BY <1>11, <2>2, <2>3
  <1>13. Pops(t)
    <2>1. head'.index \in Nat /\ head.index <= head'.index
      BY <1>2, Numbers
    <2> QED
      BY <1>2, <1>3, <1>9, <1>12, <2>1 DEF Pops, Others
  <1>14. Typed'
    <2>1. state \in [Blocks \X Offsets -> SUBSET {WRITE, READ, DESTROY}]
      BY <1>3 DEF Typed
    <2>2. <<Blk(i), Off(i)>> \in Blocks \X Offsets
      BY SlotOfIndex
    <2>3. Bits(i) \cup {READ} \in SUBSET {WRITE, READ, DESTROY}
      BY <2>1, <2>2 DEF Bits
    <2>4. state' \in [Blocks \X Offsets -> SUBSET {WRITE, READ, DESTROY}]
      BY <1>7, <2>1, <2>2, <2>3
    <2> QED
      BY <1>2, <1>3, <1>12, <2>4 DEF Typed, ThreadTyped
  <1>15. /\ EnteredInv' /\ TailInv' /\ DropInv' /\ LinkInv' /\ HeadInv'
         /\ \A p \in Pushers : PushInv(p)'
         /\ \A p \in Pushers : pc'[p] = pc[p]
    BY <1>1, <1>2, <1>13, PopsStill
  <1>16. ASSUME NEW d \in Poppers, d # t PROVE PopInv(d)'
    <2>1. ASSUME PopOwner(d) PROVE READ \notin state'[<<Blk(Idx(d)), Off(Idx(d))>>]
      <3>1. PICK j \in Slots : j = Idx(d)
        BY <2>1, PopSlot
      <3>2. READ \notin Bits(j) /\ j # i
        BY <1>1, <1>4, <1>16, <2>1, <3>1, PopSlot, PoppersApart
      <3> QED
        BY <1>9, <3>1, <3>2 DEF Bits
    <2> QED
      BY <1>1, <1>2, <1>13, <1>16, <2>1, PopsStill
  <1>17. ~PopOwner(t)' /\ Idx(t)' \in Nat /\ Idx(t)' <= head.index
    <2>1. Idx(t)' = i \/ Idx(t)' = 0
      BY <1>4, <1>10, <1>12, NoMemory DEF Idx
    <2>2. head.index \in Nat /\ i <= head.index
      BY <1>5, <1>6, Numbers
    <2> QED
      BY <1>6, <1>12, <2>1, <2>2 DEF PopOwner
  <1>18. PopInv(t)'
    <2>1. ~Moving(t)' /\ (pc'[t] # "destroy" => loc'[t].slot = 0)
      BY <1>12, NoMemory DEF Moving
    <2> QED
      BY <1>2, <1>12, <1>17, <2>1 DEF PopInv
  <1>19. \A d \in Poppers : d # t => /\ pc'[d] = pc[d] /\ loc'[d] = loc[d] /\ Idx(d)' = Idx(d)
                                     /\ PopOwner(d)' <=> PopOwner(d)
    BY <1>13, PopsFrame
  <1>20. \A b \in Nat : LastRead(b)' <=> LastRead(b)
    BY <1>2, <1>4, <1>6, <1>13, <1>17, PopsLastRead
  <1>21. pc'[t] = "destroy" => /\ DESTROY \in Bits(i) /\ loc'[t].block = Blk(i)
                               /\ loc'[t].slot = Off(i) + 1
    BY <1>5, <1>10, <1>12
  <1>22. OnePerPlace'
    <2>1. ASSUME NEW d \in Poppers, pc[d] = "destroy", DESTROY \in Bits(i) PROVE loc[d].block # Blk(i)
      BY <1>5, <2>1 DEF IInv, DestroyInv
    <2> QED
      BY <1>15, <1>17, <1>19, <1>21, <2>1 DEF IInv, OnePerPlace
  <1>23. ASSUME NEW k \in Slots PROVE SlotInv(k)'
    <2>1. SlotInv(k) /\ Blk(k) \in Nat
      BY SlotOfIndex, IndexTypes DEF IInv
    <2>2. \A p \in Pushers : Idx(p)' = Idx(p)
      BY <1>13, PopsFrame
    <2>3. \A p \in Pushers : PushOwner(p)' <=> PushOwner(p)
      BY <1>13, PopsFrame
    <2>4. k < head.index /\ (WRITE \notin Bits(k)' \/ (READ \notin Bits(k)' /\ Off(k) < BlockCap - 1)) =>
             \E c \in Poppers : PopOwner(c)' /\ Idx(c)' = k
      <3> SUFFICES ASSUME k < head.index,
                          WRITE \notin Bits(k)' \/ (READ \notin Bits(k)' /\ Off(k) < BlockCap - 1)
                   PROVE \E c \in Poppers : PopOwner(c)' /\ Idx(c)' = k
        OBVIOUS
      <3>1. k # i /\ (WRITE \notin Bits(k) \/ (READ \notin Bits(k) /\ Off(k) < BlockCap - 1))
        BY <1>6, <1>9
      <3>2. PICK c \in Poppers : PopOwner(c) /\ Idx(c) = k
        BY <2>1, <3>1 DEF SlotInv
      <3> QED
        BY <1>4, <1>19, <3>1, <3>2
    <2>5. READ \in Bits(k)' => WRITE \in Bits(k)' /\ k < head.index /\ Off(k) < BlockCap - 1
      BY <1>5, <1>6, <1>9, <2>1 DEF SlotInv
    <2>6. DESTROY \in Bits(k)' => /\ Off(k) < BlockCap - 1 /\ LastRead(Blk(k))'
                                  /\ \A j \in Slots : Blk(j) = Blk(k) /\ j < k => READ \in Bits(j)'
      BY <1>9, <1>20, <2>1 DEF SlotInv
    <2>7. WRITE \in Bits(k)' <=> WRITE \in Bits(k)
      BY <1>9
    <2> QED
      BY <1>2, <2>1, <2>2, <2>3, <2>4, <2>5, <2>6, <2>7 DEF SlotInv
  <1>24. ASSUME NEW c \in Poppers PROVE DestroyInv(c)'
    <2>1. CASE c # t
      <3>1. DestroyInv(c) /\ loc[c].block \in Nat
        BY Numbers DEF IInv, Memory, Pointers, Blocks, Null
      <3> QED
        BY <1>2, <1>9, <1>19, <1>20, <2>1, <3>1 DEF DestroyInv
    <2>2. CASE c = t
      <3> SUFFICES ASSUME pc'[t] = "destroy" PROVE DestroyInv(t)'
        BY <2>2 DEF DestroyInv
      <3>1. /\ LastRead(Blk(i)) /\ \A j \in Slots : Blk(j) = Blk(i) /\ j < i => READ \in Bits(j)
        BY <1>6, <1>21 DEF SlotInv
      <3>2. Blk(i) \in live
        BY <1>1, <1>5, PopperLive
      <3>3. Off(i) + 1 <= BlockCap - 1
        BY <1>6, CapType
      <3>4. ASSUME NEW k \in Slots, Blk(k) = Blk(i), Off(k) < Off(i) + 1 \/ DESTROY \in Bits(k)
            PROVE  READ \in Bits(k)'
        <4>1. k \in Nat /\ Off(k) \in Nat /\ SlotInv(k)
          BY SlotOfIndex, IndexTypes DEF IInv
        <4>2. CASE k = i
          BY <1>9, <4>2
        <4>3. CASE k < i
          BY <1>9, <3>1, <3>4, <4>3
        <4>4. CASE i < k
          <5>1. ~(Off(k) < Off(i) + 1)
            <6>1. Off(i) < Off(k)
              BY <1>6, <3>4, <4>1, <4>4, OneIndex
            <6> QED BY <1>6, <4>1, <6>1
          <5> QED
            BY <1>5, <3>4, <4>1, <4>4, <5>1 DEF SlotInv
        <4> QED BY <1>6, <4>1, <4>2, <4>3, <4>4
      <3> QED
        BY <1>2, <1>6, <1>9, <1>20, <1>21, <3>1, <3>2, <3>3, <3>4 DEF DestroyInv
    <2> QED BY <2>1, <2>2
  <1>25. LiveInv'
    <2>1. live \subseteq Nat /\ 1..tailBlock \subseteq Nat
      BY <1>3 DEF Typed, Blocks
    <2>2. ASSUME NEW x \in live, LastRead(x)
          PROVE  \/ \E c \in Poppers : pc'[c] = "destroy" /\ loc'[c].block = x
                 \/ \E k \in Slots : Blk(k) = x /\ DESTROY \in Bits(k)' /\ READ \notin Bits(k)'
      <3>1. ASSUME NEW c \in Poppers, pc[c] = "destroy", loc[c].block = x
            PROVE  pc'[c] = "destroy" /\ loc'[c].block = x
        BY <1>1, <1>19, <3>1
      <3>2. ASSUME NEW k \in Slots, Blk(k) = x, DESTROY \in Bits(k), READ \notin Bits(k)
            PROVE  \/ pc'[t] = "destroy" /\ loc'[t].block = x
                   \/ DESTROY \in Bits(k)' /\ READ \notin Bits(k)'
        BY <1>9, <1>12, <1>21, <3>2
      <3> QED
        BY <1>3, <2>2, <3>1, <3>2 DEF IInv, LiveInv
    <2>3. \A k \in Slots : READ \in Bits(k) => READ \in Bits(k)'
      BY <1>9
    <2> QED
      BY <1>2, <1>3, <1>20, <2>1, <2>2, <2>3 DEF IInv, LiveInv
  <1> QED
    BY <1>14, <1>15, <1>16, <1>18, <1>22, <1>23, <1>24, <1>25 DEF IInv

(* A slot that is still read gets the DESTROY bit. *)
LEMMA PopDestroyKeeps ==
  ASSUME IInv, NEW t \in Poppers, PopDestroy(t)
  PROVE  IInv'
  <1>1. ~PopOwner(t) /\ ~Moving(t) /\ pc[t] = "destroy" /\ loc[t].slot < BlockCap - 1
    BY DEF PopDestroy, PopOwner, Moving
  <1>2. UNCHANGED <<head, headBlock, tail, tailBlock, next, cell, live, calls, dropper,
                    entered, left>>
    BY DEF PopDestroy, queueVars, history
  <1>3. t \in Threads /\ dropper.pc = "none" /\ Typed /\ loc[t] \in Memory /\ result[t] \in Results
    <2>1. t \in Threads /\ dropper.pc = "none" /\ Typed
      BY <1>1, Numbers, BusyNoDrop DEF IInv
    <2> QED
      BY <2>1, Stays
  <1>4. /\ loc[t].block \in live /\ LastRead(loc[t].block) /\ loc[t].slot \in Nat
        /\ \A k \in Slots : Blk(k) = loc[t].block =>
               ((Off(k) < loc[t].slot \/ DESTROY \in Bits(k)) => READ \in Bits(k))
    BY <1>1, <1>3 DEF IInv, DestroyInv, Memory
  <1>5. loc[t].block \in Blocks /\ loc[t].slot < BlockCap
    BY <1>1, <1>3, <1>4, CapType DEF Typed
  <1>6. PICK i \in Slots : Blk(i) = loc[t].block /\ Off(i) = loc[t].slot
    BY <1>4, <1>5, IndexOfSlot
  <1>7. i \in Nat /\ Blk(i) \in Nat /\ Off(i) \in Nat /\ Off(i) < BlockCap - 1
    BY <1>1, <1>6, SlotOfIndex, IndexTypes
  <1> DEFINE m == [loc[t] EXCEPT !.slot = Off(i) + 1]
  <1>8. m \in Memory /\ m.pos = loc[t].pos /\ m.block = loc[t].block /\ m.slot = Off(i) + 1
    BY <1>3, <1>7, MemoryFields DEF Memory
  <1>9. \/ READ \in Bits(i) /\ Moves(t, "destroy", m, result[t]) /\ state' = state
        \/ /\ READ \notin Bits(i) /\ Moves(t, "idle", NoLocals, result[t])
           /\ state' = [state EXCEPT ![<<Blk(i), Off(i)>>] = Bits(i) \cup {DESTROY}]
    BY <1>1, <1>3, <1>6, Stays DEF PopDestroy, Goto, Local, End, Return, Moves, Bits
  <1> HIDE DEF m
  <1>10. /\ ThreadTyped'
         /\ \A u \in Threads : u # t => pc'[u] = pc[u] /\ loc'[u] = loc[u] /\ result'[u] = result[u]
         /\ \/ pc'[t] = "destroy" /\ loc'[t] = m /\ READ \in Bits(i) /\ state' = state
            \/ /\ pc'[t] = "idle" /\ loc'[t] = NoLocals /\ READ \notin Bits(i)
               /\ state' = [state EXCEPT ![<<Blk(i), Off(i)>>] = Bits(i) \cup {DESTROY}]
    <2>1. "destroy" \in PopPlaces \cup {"idle"} /\ "idle" \in PopPlaces \cup {"idle"}
      BY DEF PopPlaces
    <2>2. CASE READ \in Bits(i) /\ Moves(t, "destroy", m, result[t]) /\ state' = state
      BY <1>3, <1>8, <2>1, <2>2, MovesTyped
    <2>3. CASE /\ READ \notin Bits(i) /\ Moves(t, "idle", NoLocals, result[t])
               /\ state' = [state EXCEPT ![<<Blk(i), Off(i)>>] = Bits(i) \cup {DESTROY}]
      BY <1>3, <2>1, <2>3, MovesTyped, NoMemory
    <2> QED BY <1>9, <2>2, <2>3
  <1>11. \A j \in Slots : /\ WRITE \in Bits(j)' <=> WRITE \in Bits(j)
                          /\ READ \in Bits(j)' <=> READ \in Bits(j)
                          /\ DESTROY \in Bits(j)' <=> DESTROY \in Bits(j) \/ (j = i /\ READ \notin Bits(i))
    <2>1. CASE READ \in Bits(i) /\ state' = state
      BY <2>1 DEF Bits
    <2>2. CASE READ \notin Bits(i) /\ state' = [state EXCEPT ![<<Blk(i), Off(i)>>] = Bits(i) \cup {DESTROY}]
      <3> DEFINE S == Bits(i) \cup {DESTROY}
      <3> HIDE DEF S
      <3>1. \A j \in Slots : Bits(j)' = IF j = i THEN S ELSE Bits(j)
        BY <1>3, <2>2, BitsWritten DEF S
      <3> QED BY <2>2, <3>1 DEF S, READ, DESTROY, WRITE
    <2> QED BY <1>9, <2>1, <2>2
  <1>12. Pops(t)
    <2>1. head'.index \in Nat /\ head.index <= head'.index
      BY <1>2, Numbers
    <2> QED
      BY <1>2, <1>3, <1>10, <1>11, <2>1 DEF Pops, Others
  <1>13. Typed'
    <2>1. state \in [Blocks \X Offsets -> SUBSET {WRITE, READ, DESTROY}]
      BY <1>3 DEF Typed
    <2>2. <<Blk(i), Off(i)>> \in Blocks \X Offsets
      BY SlotOfIndex
    <2>3. Bits(i) \cup {DESTROY} \in SUBSET {WRITE, READ, DESTROY}
      BY <2>1, <2>2 DEF Bits
    <2>4. state' \in [Blocks \X Offsets -> SUBSET {WRITE, READ, DESTROY}]
      BY <1>9, <2>1, <2>2, <2>3
    <2> QED
      BY <1>2, <1>3, <1>10, <2>4 DEF Typed, ThreadTyped
  <1>14. /\ EnteredInv' /\ TailInv' /\ DropInv' /\ LinkInv' /\ HeadInv'
         /\ \A p \in Pushers : PushInv(p)'
         /\ \A p \in Pushers : pc'[p] = pc[p]
    BY <1>1, <1>2, <1>12, PopsStill
  <1>15. ASSUME NEW d \in Poppers, d # t PROVE PopInv(d)'
    <2>1. ASSUME PopOwner(d) PROVE READ \notin state'[<<Blk(Idx(d)), Off(Idx(d))>>]
      <3>1. PICK j \in Slots : j = Idx(d)
        BY <2>1, PopSlot
      <3>2. READ \notin Bits(j)
        BY <2>1, <3>1, PopSlot
      <3> QED
        BY <1>11, <3>1, <3>2 DEF Bits
    <2> QED
      BY <1>1, <1>2, <1>12, <1>15, <2>1, PopsStill
  <1>16. ~PopOwner(t)' /\ Idx(t)' \in Nat /\ Idx(t)' <= head.index
    <2>1. Idx(t)' = Idx(t) \/ Idx(t)' = 0
      BY <1>8, <1>10, NoMemory DEF Idx
    <2>2. head.index \in Nat /\ Idx(t) <= head.index /\ Idx(t) \in Nat
      BY Numbers DEF IInv, PopInv
    <2> QED
      BY <1>10, <2>1, <2>2 DEF PopOwner
  <1>17. PopInv(t)'
    <2>1. ~Moving(t)' /\ (pc'[t] # "destroy" => loc'[t].slot = 0)
      BY <1>10, NoMemory DEF Moving
    <2> QED
      BY <1>2, <1>10, <1>16, <2>1 DEF PopInv
  <1>18. \A d \in Poppers : d # t => /\ pc'[d] = pc[d] /\ loc'[d] = loc[d] /\ Idx(d)' = Idx(d)
                                     /\ PopOwner(d)' <=> PopOwner(d)
    BY <1>12, PopsFrame
  <1>19. \A b \in Nat : LastRead(b)' <=> LastRead(b)
    BY <1>1, <1>2, <1>12, <1>16, PopsLastRead
  <1>20. pc'[t] = "destroy" => /\ READ \in Bits(i) /\ loc'[t].block = Blk(i)
                               /\ loc'[t].slot = Off(i) + 1
    BY <1>6, <1>8, <1>10
  <1>21. OnePerPlace'
    BY <1>1, <1>6, <1>14, <1>16, <1>18, <1>20 DEF IInv, OnePerPlace
  <1>22. ASSUME NEW k \in Slots PROVE SlotInv(k)'
    <2>1. SlotInv(k) /\ Blk(k) \in Nat /\ k \in Nat
      BY SlotOfIndex, IndexTypes DEF IInv
    <2>2. \A p \in Pushers : Idx(p)' = Idx(p)
      BY <1>12, PopsFrame
    <2>3. \A p \in Pushers : PushOwner(p)' <=> PushOwner(p)
      BY <1>12, PopsFrame
    <2>4. k < head.index /\ (WRITE \notin Bits(k)' \/ (READ \notin Bits(k)' /\ Off(k) < BlockCap - 1)) =>
             \E c \in Poppers : PopOwner(c)' /\ Idx(c)' = k
      <3> SUFFICES ASSUME k < head.index,
                          WRITE \notin Bits(k)' \/ (READ \notin Bits(k)' /\ Off(k) < BlockCap - 1)
                   PROVE \E c \in Poppers : PopOwner(c)' /\ Idx(c)' = k
        OBVIOUS
      <3>1. WRITE \notin Bits(k) \/ (READ \notin Bits(k) /\ Off(k) < BlockCap - 1)
        BY <1>11
      <3>2. PICK c \in Poppers : PopOwner(c) /\ Idx(c) = k
        BY <2>1, <3>1 DEF SlotInv
      <3> QED
        BY <1>1, <1>18, <3>2
    <2>5. READ \in Bits(k)' => WRITE \in Bits(k)' /\ k < head.index /\ Off(k) < BlockCap - 1
      BY <1>11, <2>1 DEF SlotInv
    <2>6. DESTROY \in Bits(k)' => /\ Off(k) < BlockCap - 1 /\ LastRead(Blk(k))'
                                  /\ \A j \in Slots : Blk(j) = Blk(k) /\ j < k => READ \in Bits(j)'
      <3>1. CASE DESTROY \in Bits(k)
        BY <1>11, <1>19, <2>1, <3>1 DEF SlotInv
      <3>2. CASE k = i
        <4>1. ASSUME NEW j \in Slots, Blk(j) = Blk(i), j < i PROVE READ \in Bits(j)
          <5>1. j \in Nat
            BY SlotOfIndex
          <5>2. Off(j) < Off(i)
            BY <1>7, <4>1, <5>1, OneIndex
          <5> QED
            BY <1>4, <1>6, <4>1, <5>2
        <4> QED
          BY <1>4, <1>6, <1>7, <1>11, <1>19, <3>2, <4>1
      <3> QED BY <1>11, <3>1, <3>2
    <2>7. WRITE \in Bits(k)' <=> WRITE \in Bits(k)
      BY <1>11
    <2> QED
      BY <1>2, <2>1, <2>2, <2>3, <2>4, <2>5, <2>6, <2>7 DEF SlotInv
  <1>23. ASSUME NEW c \in Poppers PROVE DestroyInv(c)'
    <2>1. CASE c # t
      <3>1. DestroyInv(c) /\ loc[c].block \in Nat
        BY Numbers DEF IInv, Memory, Pointers, Blocks, Null
      <3>2. pc[c] = "destroy" => loc[c].block # Blk(i)
        BY <1>1, <1>6, <2>1 DEF IInv, OnePerPlace
      <3> QED
        BY <1>2, <1>11, <1>18, <1>19, <2>1, <3>1, <3>2 DEF DestroyInv
    <2>2. CASE c = t
      <3> SUFFICES ASSUME pc'[t] = "destroy" PROVE DestroyInv(t)'
        BY <2>2 DEF DestroyInv
      <3>1. Off(i) + 1 <= BlockCap - 1
        BY <1>7, CapType
      <3>2. ASSUME NEW k \in Slots, Blk(k) = Blk(i), Off(k) < Off(i) + 1 \/ DESTROY \in Bits(k)'
            PROVE  READ \in Bits(k)'
        <4>1. k \in Nat /\ Off(k) \in Nat
          BY SlotOfIndex, IndexTypes
        <4>2. CASE Off(k) = Off(i)
          BY <1>7, <1>11, <1>20, <3>2, <4>1, <4>2, OneIndex
        <4>3. CASE Off(k) < Off(i) \/ DESTROY \in Bits(k)
          BY <1>4, <1>6, <1>11, <3>2, <4>3
        <4> QED BY <1>7, <1>11, <1>20, <3>2, <4>1, <4>2, <4>3
      <3> QED
        BY <1>2, <1>4, <1>6, <1>7, <1>19, <1>20, <3>1, <3>2 DEF DestroyInv
    <2> QED BY <2>1, <2>2
  <1>24. LiveInv'
    <2>1. live \subseteq Nat /\ 1..tailBlock \subseteq Nat
      BY <1>3 DEF Typed, Blocks
    <2>2. ASSUME NEW x \in live, LastRead(x)
          PROVE  \/ \E c \in Poppers : pc'[c] = "destroy" /\ loc'[c].block = x
                 \/ \E k \in Slots : Blk(k) = x /\ DESTROY \in Bits(k)' /\ READ \notin Bits(k)'
      <3>1. ASSUME NEW c \in Poppers, pc[c] = "destroy", loc[c].block = x
            PROVE  \/ pc'[c] = "destroy" /\ loc'[c].block = x
                   \/ Blk(i) = x /\ DESTROY \in Bits(i)' /\ READ \notin Bits(i)'
        <4>1. CASE c = t
          BY <1>6, <1>10, <1>11, <1>20, <3>1, <4>1
        <4>2. CASE c # t
          BY <1>18, <3>1, <4>2
        <4> QED BY <4>1, <4>2
      <3>2. ASSUME NEW k \in Slots, Blk(k) = x, DESTROY \in Bits(k), READ \notin Bits(k)
            PROVE  DESTROY \in Bits(k)' /\ READ \notin Bits(k)'
        BY <1>11, <3>2
      <3> QED
        BY <1>3, <2>2, <3>1, <3>2 DEF IInv, LiveInv
    <2>3. \A k \in Slots : READ \in Bits(k) => READ \in Bits(k)'
      BY <1>11
    <2> QED
      BY <1>2, <1>3, <1>19, <2>1, <2>2, <2>3 DEF IInv, LiveInv
  <1> QED
    BY <1>13, <1>14, <1>15, <1>17, <1>21, <1>22, <1>23, <1>24 DEF IInv

(* The block is freed when all its slots were read. *)
LEMMA PopFreeKeeps ==
  ASSUME IInv, NEW t \in Poppers, PopFree(t)
  PROVE  IInv'
  <1>1. ~PopOwner(t) /\ ~Moving(t) /\ pc[t] = "destroy" /\ loc[t].slot >= BlockCap - 1
    BY DEF PopFree, PopOwner, Moving
  <1>2. UNCHANGED <<head, headBlock, tail, tailBlock, next, cell, state, calls, dropper,
                    entered, left>>
    BY DEF PopFree, queueVars, history
  <1>3. t \in Threads /\ dropper.pc = "none" /\ Typed /\ loc[t] \in Memory /\ result[t] \in Results
    <2>1. t \in Threads /\ dropper.pc = "none" /\ Typed
      BY <1>1, Numbers, BusyNoDrop DEF IInv
    <2> QED
      BY <2>1, Stays
  <1>4. /\ loc[t].block \in live /\ LastRead(loc[t].block) /\ loc[t].slot = BlockCap - 1
        /\ \A k \in Slots : Blk(k) = loc[t].block /\ Off(k) < BlockCap - 1 => READ \in Bits(k)
    <2>1. /\ loc[t].block \in live /\ LastRead(loc[t].block) /\ loc[t].slot \in Nat
          /\ loc[t].slot <= BlockCap - 1
          /\ \A k \in Slots : Blk(k) = loc[t].block => (Off(k) < loc[t].slot => READ \in Bits(k))
      BY <1>1, <1>3 DEF IInv, DestroyInv, Memory
    <2>2. loc[t].slot = BlockCap - 1
      BY <1>1, <2>1, CapType
    <2> QED BY <2>1, <2>2
  <1>5. Moves(t, "idle", NoLocals, result[t])
    BY DEF PopFree, End, Return, Goto, Moves
  <1>6. /\ ThreadTyped'
        /\ \A u \in Threads : u # t => pc'[u] = pc[u] /\ loc'[u] = loc[u] /\ result'[u] = result[u]
        /\ pc'[t] = "idle" /\ loc'[t] = NoLocals
    BY <1>3, <1>5, MovesTyped, NoMemory
  <1>7. live' = live \ {loc[t].block}
    BY DEF PopFree
  <1>8. Pops(t)
    <2>1. head'.index \in Nat /\ head.index <= head'.index
      BY <1>2, Numbers
    <2> QED
      BY <1>2, <1>3, <1>6, <2>1 DEF Pops, Others, Bits
  <1>9. Typed'
    BY <1>2, <1>3, <1>6, <1>7 DEF Typed, ThreadTyped
  <1>10. /\ EnteredInv' /\ TailInv' /\ DropInv' /\ LinkInv' /\ HeadInv'
         /\ \A p \in Pushers : PushInv(p)'
         /\ \A p \in Pushers : pc'[p] = pc[p]
    BY <1>1, <1>2, <1>8, PopsStill
  <1>11. ASSUME NEW d \in Poppers, d # t PROVE PopInv(d)'
    <2>1. PopOwner(d) => READ \notin state'[<<Blk(Idx(d)), Off(Idx(d))>>]
      BY <1>2, PopSlot DEF Bits
    <2> QED
      BY <1>1, <1>2, <1>8, <1>11, <2>1, PopsStill
  <1>12. ~PopOwner(t)' /\ Idx(t)' = 0 /\ 0 <= head.index
    BY <1>6, NoMemory, Numbers DEF PopOwner, Idx
  <1>13. PopInv(t)'
    <2>1. ~Moving(t)' /\ loc'[t].slot = 0
      BY <1>6, NoMemory DEF Moving
    <2> QED
      BY <1>2, <1>6, <1>12, <2>1 DEF PopInv
  <1>14. \A d \in Poppers : d # t => /\ pc'[d] = pc[d] /\ loc'[d] = loc[d] /\ Idx(d)' = Idx(d)
                                     /\ PopOwner(d)' <=> PopOwner(d)
    BY <1>8, PopsFrame
  <1>15. \A b \in Nat : LastRead(b)' <=> LastRead(b)
    BY <1>1, <1>2, <1>8, <1>12, PopsLastRead
  <1>16. \A k \in Slots : Bits(k)' = Bits(k)
    BY <1>2 DEF Bits
  <1>17. OnePerPlace'
    BY <1>6, <1>10, <1>12, <1>14 DEF IInv, OnePerPlace
  <1>18. ASSUME NEW k \in Slots PROVE SlotInv(k)'
    <2>1. SlotInv(k) /\ Blk(k) \in Nat
      BY SlotOfIndex, IndexTypes DEF IInv
    <2>2. \A p \in Pushers : Idx(p)' = Idx(p)
      BY <1>8, PopsFrame
    <2>3. \A p \in Pushers : PushOwner(p)' <=> PushOwner(p)
      BY <1>8, PopsFrame
    <2>4. \A c \in Poppers : PopOwner(c) => PopOwner(c)' /\ Idx(c)' = Idx(c)
      BY <1>1, <1>14
    <2> QED
      BY <1>2, <1>15, <1>16, <2>1, <2>2, <2>3, <2>4 DEF SlotInv
  <1>19. ASSUME NEW c \in Poppers PROVE DestroyInv(c)'
    <2>1. CASE c # t
      <3>1. DestroyInv(c) /\ loc[c].block \in Nat
        BY Numbers DEF IInv, Memory, Pointers, Blocks, Null
      <3>2. pc[c] = "destroy" => loc[c].block # loc[t].block
        BY <1>1, <2>1 DEF IInv, OnePerPlace
      <3> QED
        BY <1>2, <1>7, <1>14, <1>15, <1>16, <2>1, <3>1, <3>2 DEF DestroyInv
    <2>2. CASE c = t
      BY <1>6, <2>2 DEF DestroyInv
    <2> QED BY <2>1, <2>2
  <1>20. LiveInv'
    <2>1. live \subseteq Nat /\ 1..tailBlock \subseteq Nat
      BY <1>3 DEF Typed, Blocks
    <2>2. ASSUME NEW x \in live', LastRead(x)
          PROVE  \/ \E c \in Poppers : pc'[c] = "destroy" /\ loc'[c].block = x
                 \/ \E k \in Slots : Blk(k) = x /\ DESTROY \in Bits(k) /\ READ \notin Bits(k)
      <3>1. x \in live /\ x # loc[t].block
        BY <1>7, <2>2
      <3>2. \A c \in Poppers : pc[c] = "destroy" /\ loc[c].block = x => pc'[c] = "destroy" /\ loc'[c].block = x
        BY <1>14, <3>1
      <3> QED
        BY <1>3, <2>2, <3>1, <3>2 DEF IInv, LiveInv
    <2>3. ASSUME NEW x \in (1..tailBlock) \ live'
          PROVE  /\ LastRead(x)
                 /\ \A k \in Slots : Blk(k) = x /\ Off(k) < BlockCap - 1 => READ \in Bits(k)
      BY <1>3, <1>4, <1>7, <2>3 DEF IInv, LiveInv
    <2>4. live' \subseteq 1..tailBlock
      BY <1>3, <1>7 DEF IInv, LiveInv
    <2> QED
      BY <1>2, <1>3, <1>7, <1>15, <1>16, <2>1, <2>2, <2>3, <2>4 DEF LiveInv
  <1> QED
    BY <1>9, <1>10, <1>11, <1>13, <1>17, <1>18, <1>19, <1>20 DEF IInv

LEMMA PopStepKeeps ==
  ASSUME IInv, NEW t \in Poppers, PopStart(t) \/ PopStep(t)
  PROVE  IInv'
  BY PopStartKeeps, PopHeadKeeps, PopBlockKeeps, PopTailKeeps, PopClaimKeeps, PopWaitNextKeeps,
     PopPeekKeeps, PopMoveBlockKeeps, PopMoveIndexKeeps, PopReadKeeps, PopMarkKeeps,
     PopDestroyKeeps, PopFreeKeeps
     DEF PopStep

-----------------------------------------------------------------------------
(* The queue is closed and dropped. *)
LEMMA CloseKeeps ==
  ASSUME IInv, Close
  PROVE  IInv'
  <1>1. /\ UNCHANGED <<head, headBlock, tailBlock, next, cell, state, live, pc, loc, result, calls,
                       dropper, entered, left>>
        /\ tail' = [tail EXCEPT !.mark = TRUE]
    BY DEF Close, blockVars, history
  <1>2. tail' \in Position /\ tail'.index = tail.index
    BY <1>1 DEF IInv, Typed, Position
  <1>3. Typed'
    BY <1>1, <1>2 DEF IInv, Typed
  <1>4. EnteredInv' /\ TailInv' /\ HeadInv' /\ LinkInv'
    BY <1>1, <1>2
       DEF IInv, EnteredInv, TailInv, HeadInv, LinkInv, PushOwner, Moving
  <1>5. ASSUME NEW p \in Pushers PROVE PushInv(p)'
    <2>1. PushInv(p)
      BY DEF IInv
    <2> QED
      BY <1>1, <1>2, <2>1 DEF PushInv, PushOwner, Bits, Idx
  <1>6. ASSUME NEW c \in Poppers PROVE PopInv(c)' /\ DestroyInv(c)'
    <2>1. PopInv(c) /\ DestroyInv(c)
      BY DEF IInv
    <2>2. PopInv(c)'
      BY <1>1, <1>2, <2>1 DEF PopInv, PopOwner, Moving, Bits, Idx
    <2>3. DestroyInv(c)'
      BY <1>1, <2>1 DEF DestroyInv, LastRead, PopOwner, Bits, Idx
    <2> QED BY <2>2, <2>3
  <1>7. OnePerPlace'
    BY <1>1 DEF IInv, OnePerPlace, PopOwner, Idx
  <1>8. ASSUME NEW i \in Slots PROVE SlotInv(i)'
    <2>1. SlotInv(i)
      BY DEF IInv
    <2> QED
      BY <1>1, <1>2, <2>1 DEF SlotInv, LastRead, PushOwner, PopOwner, Bits, Idx
  <1>9. LiveInv'
    BY <1>1 DEF IInv, LiveInv, LastRead, PopOwner, Bits, Idx
  <1>10. DropInv'
    BY <1>1, <1>2 DEF IInv, DropInv
  <1> QED
    BY <1>3, <1>4, <1>5, <1>6, <1>7, <1>8, <1>9, <1>10 DEF IInv

(* Once no call is in progress and none can begin. *)
Quiet == \A t \in Threads : pc[t] = "idle"

LEMMA QuietKeeps ==
  ASSUME IInv, Quiet,
         UNCHANGED <<head, headBlock, tail, tailBlock, next, state, pc, loc, result, calls, entered, left>>,
         dropper'.pc # "none", Typed', DropInv'
  PROVE  IInv'
  <1>1. Pushers \subseteq Threads /\ Poppers \subseteq Threads
    BY Numbers
  <1>2. /\ \A p \in Pushers : pc[p] = "idle" /\ ~PushOwner(p)
        /\ \A c \in Poppers : pc[c] = "idle" /\ ~PopOwner(c) /\ ~Moving(c)
    BY <1>1 DEF Quiet, PushOwner, PopOwner, Moving
  <1>3. EnteredInv' /\ TailInv' /\ HeadInv' /\ LinkInv'
    BY DEF IInv, EnteredInv, TailInv, HeadInv, LinkInv, PushOwner, Moving
  <1>4. ASSUME NEW p \in Pushers PROVE PushInv(p)'
    <2>1. PushInv(p)
      BY DEF IInv
    <2> QED
      BY <2>1 DEF PushInv, PushOwner, Bits, Idx
  <1>5. ASSUME NEW c \in Poppers PROVE PopInv(c)' /\ DestroyInv(c)'
    <2>1. PopInv(c) /\ pc[c] = "idle"
      BY <1>2 DEF IInv
    <2>2. PopInv(c)'
      BY <2>1 DEF PopInv, PopOwner, Moving, Bits, Idx
    <2>3. DestroyInv(c)'
      BY <2>1 DEF DestroyInv
    <2> QED BY <2>2, <2>3
  <1>6. OnePerPlace'
    BY DEF IInv, OnePerPlace, PopOwner, Idx
  <1>7. ASSUME NEW i \in Slots PROVE SlotInv(i)'
    <2>1. SlotInv(i)
      BY DEF IInv
    <2> QED
      BY <2>1 DEF SlotInv, LastRead, PushOwner, PopOwner, Bits, Idx
  <1>8. LiveInv'
    BY DEF LiveInv
  <1> QED
    BY <1>3, <1>4, <1>5, <1>6, <1>7, <1>8 DEF IInv

(* The blocks that are left when no call is in progress.                    *)
LEMMA QuietBlocks ==
  ASSUME IInv, Quiet, dropper.pc = "none"
  PROVE  /\ headBlock # Null => headBlock = Blk(head.index) /\ live = headBlock..tailBlock
         /\ headBlock = Null => tail.index = 0 /\ live = {}
  <1>1. /\ \A p \in Pushers : pc[p] = "idle"
        /\ \A c \in Poppers : pc[c] = "idle" /\ ~PopOwner(c)
    BY Numbers DEF Quiet, PopOwner
  <1>2. /\ head.index \in Nat /\ Blk(head.index) \in Nat /\ Blk(head.index) > 0 /\ tailBlock \in Nat
        /\ live \subseteq 1..tailBlock
    <2>1. head.index \in Nat /\ live \subseteq 1..tailBlock
      BY Numbers DEF IInv, LiveInv
    <2>2. Blk(head.index) \in Nat /\ Blk(head.index) > 0
      BY <2>1, IndexTypes
    <2>3. tailBlock \in Nat
      BY DEF IInv, Typed, Pointers, Blocks, Null
    <2> QED BY <2>1, <2>2, <2>3
  <1>3. ASSUME headBlock # Null PROVE headBlock = Blk(head.index) /\ live = headBlock..tailBlock
    <2>1. headBlock = Blk(head.index)
      BY <1>1, <1>3, HeadBlockIs
    <2>2. ASSUME NEW b \in live PROVE b \in headBlock..tailBlock
      <3>1. b \in 1..tailBlock
        BY <1>2
      <3> SUFFICES ASSUME b < Blk(head.index) PROVE FALSE
        BY <1>2, <2>1, <3>1
      <3>2. LastRead(b)
        BY <1>1 DEF LastRead
      <3>3. PICK k \in Slots : Blk(k) = b /\ DESTROY \in Bits(k) /\ READ \notin Bits(k)
        BY <1>1, <3>2 DEF IInv, LiveInv
      <3>4. SlotInv(k) /\ k \in Nat
        BY SlotOfIndex DEF IInv
      <3>5. k < head.index
        BY <1>2, <3>3, <3>4, EarlierBlock
      <3> QED
        BY <1>1, <3>3, <3>4, <3>5 DEF SlotInv
    <2>3. ASSUME NEW b \in headBlock..tailBlock PROVE b \in live
      <3>1. b \in 1..tailBlock /\ ~(b < Blk(head.index))
        BY <1>2, <2>1
      <3> QED
        BY <3>1, FreedWasRead DEF LastRead
    <2>4. live = headBlock..tailBlock
      BY <2>2, <2>3
    <2> QED BY <2>1, <2>4
  <1>4. ASSUME headBlock = Null PROVE tail.index = 0 /\ live = {}
    <2>1. tailBlock = Null
      BY <1>1, <1>4 DEF IInv, HeadInv
    <2> QED
      BY <1>2, <2>1 DEF IInv, TailInv, Null
  <1> QED BY <1>3, <1>4

LEMMA DropStartKeeps ==
  ASSUME IInv, DropStart
  PROVE  IInv'
  <1>1. /\ Quiet /\ dropper.pc = "none"
        /\ dropper' = [pc |-> "walk", index |-> head.index, block |-> headBlock]
        /\ UNCHANGED <<head, headBlock, tail, tailBlock, next, cell, state, live, pc, loc, result, calls,
                       entered, left>>
    BY DEF DropStart, Quiet, queueVars, blockVars, history
  <1>2. Typed'
    <2>1. head.index \in Nat /\ headBlock \in Pointers
      BY Numbers DEF IInv, Typed
    <2> QED
      BY <1>1, <2>1 DEF IInv, Typed
  <1>3. DropInv'
    BY <1>1, QuietBlocks, Numbers DEF DropInv, Quiet
  <1> QED
    BY <1>1, <1>2, <1>3, QuietKeeps

LEMMA DropSlotKeeps ==
  ASSUME IInv, DropSlot
  PROVE  IInv'
  <1> DEFINE i == dropper.index
  <1>1. /\ dropper.pc = "walk" /\ i # tail.index
        /\ UNCHANGED <<head, headBlock, tail, tailBlock, next, state, pc, loc, result,
                       calls, entered, left>>
    BY DEF DropSlot, queueVars, history
  <1>2. Quiet /\ head.index <= i /\ i <= tail.index
    BY <1>1 DEF IInv, DropInv, Quiet
  <1>3. i \in Nat /\ head.index \in Nat /\ tail.index \in Nat
    BY Numbers DEF IInv, Typed
  <1>4. headBlock # Null /\ tailBlock # Null
    BY <1>1, <1>2, <1>3 DEF IInv, DropInv, HeadInv
  <1>5. dropper.block = Blk(i) /\ live = Blk(i)..tailBlock
    BY <1>1, <1>4 DEF IInv, DropInv
  <1>6. i + 1 \in Nat /\ i + 1 <= tail.index /\ head.index <= i + 1 /\ i < tail.index
    BY <1>1, <1>2, <1>3
  <1>7. Blk(i) \in 1..tailBlock /\ tailBlock \in Blocks
    BY <1>2, <1>3, <1>4, WithinTail DEF IInv, Typed, Pointers
  <1>8. Blk(i) \in Blocks
    BY <1>7, BlockTypes DEF Blocks
  <1>9. Off(i) \in Nat /\ Off(i) <= BlockCap
    BY <1>3, IndexTypes
  <1>10. CASE Off(i) < BlockCap
    <2>1. /\ cell' = [cell EXCEPT ![<<Blk(i), Off(i)>>] = NoValue]
          /\ dropper' = [dropper EXCEPT !.index = i + 1] /\ live' = live
      BY <1>5, <1>10 DEF DropSlot, Off
    <2>2. /\ dropper'.pc = "walk" /\ dropper'.index = i + 1 /\ dropper'.block = Blk(i)
          /\ dropper' \in [pc : {"none", "walk", "done"}, index : Nat, block : Pointers]
      BY <1>1, <1>5, <1>6, <2>1 DEF IInv, Typed
    <2>3. cell' \in [Blocks \X Offsets -> Values \cup {NoValue}]
      BY <2>1 DEF IInv, Typed
    <2>4. Typed'
      BY <1>1, <2>1, <2>2, <2>3 DEF IInv, Typed
    <2>5. Blk(i + 1) = Blk(i)
      BY <1>3, <1>10, NextInBlock
    <2>6. DropInv'
      BY <1>1, <1>2, <1>4, <1>5, <1>6, <2>1, <2>2, <2>5 DEF DropInv, Quiet
    <2> QED
      BY <1>1, <1>2, <2>2, <2>4, <2>6, QuietKeeps
  <1>11. CASE Off(i) = BlockCap
    <2>1. /\ live' = live \ {Blk(i)} /\ cell' = cell
          /\ dropper' = [dropper EXCEPT !.index = i + 1, !.block = next[Blk(i)]]
      BY <1>5, <1>11, CapType DEF DropSlot, Off
    <2>2. Blk(i + 1) = Blk(i) + 1
      BY <1>3, <1>11, NextBlock
    <2>3. Blk(i) < Blk(tail.index)
      <3>1. Blk(i + 1) <= Blk(tail.index) /\ Blk(tail.index) \in Nat
        BY <1>3, <1>6, BlockOrder, IndexTypes
      <3> QED BY <1>7, <2>2, <3>1
    <2>4. next[Blk(i)] = Blk(i) + 1
      <3>1. \A p \in Pushers : pc[p] # "link"
        BY <1>2, Numbers DEF Quiet
      <3> QED
        BY <1>8, <2>3, <3>1 DEF IInv, LinkInv
    <2>5. /\ dropper'.pc = "walk" /\ dropper'.index = i + 1 /\ dropper'.block = Blk(i + 1)
          /\ dropper' \in [pc : {"none", "walk", "done"}, index : Nat, block : Pointers]
      <3>1. next[Blk(i)] \in Pointers
        BY <1>8 DEF IInv, Typed
      <3> QED
        BY <1>1, <1>6, <2>1, <2>2, <2>4, <3>1 DEF IInv, Typed
    <2>6. Typed'
      BY <1>1, <2>1, <2>5 DEF IInv, Typed
    <2>7. live' = Blk(i + 1)..tailBlock
      BY <1>5, <1>7, <2>1, <2>2 DEF Blocks
    <2>8. DropInv'
      BY <1>1, <1>2, <1>4, <1>6, <2>5, <2>7 DEF DropInv, Quiet
    <2> QED
      BY <1>1, <1>2, <2>5, <2>6, <2>8, QuietKeeps
  <1> QED
    BY <1>3, <1>10, <1>11, WaitingOrNot

LEMMA DropEndKeeps ==
  ASSUME IInv, DropEnd
  PROVE  IInv'
  <1>1. /\ dropper.pc = "walk" /\ dropper.index = tail.index
        /\ live' = live \ {dropper.block} /\ dropper' = [dropper EXCEPT !.pc = "done"]
        /\ UNCHANGED <<head, headBlock, tail, tailBlock, next, cell, state, pc, loc, result, calls,
                       entered, left>>
    BY DEF DropEnd, queueVars, history
  <1>2. Quiet
    BY <1>1 DEF IInv, DropInv, Quiet
  <1>3. dropper'.pc = "done" /\ dropper' \in [pc : {"none", "walk", "done"}, index : Nat, block : Pointers]
    BY <1>1 DEF IInv, Typed
  <1>4. Typed'
    BY <1>1, <1>3 DEF IInv, Typed
  <1>5. live' = {}
    <2>1. CASE headBlock = Null
      BY <1>1, <2>1 DEF IInv, DropInv
    <2>2. CASE headBlock # Null
      <3>1. dropper.block = Blk(tail.index) /\ live = dropper.block..tailBlock /\ tailBlock # Null
        BY <1>1, <2>2 DEF IInv, DropInv, HeadInv
      <3>2. \A p \in Pushers : pc[p] # "skip"
        BY <1>2, Numbers DEF Quiet
      <3>3. tailBlock = Blk(tail.index) /\ tailBlock \in Nat
        BY <3>1, <3>2, TailBlockIs
      <3> QED
        BY <1>1, <3>1, <3>3
    <2> QED BY <2>1, <2>2
  <1>6. DropInv'
    BY <1>1, <1>2, <1>3, <1>5 DEF DropInv, Quiet
  <1> QED
    BY <1>1, <1>2, <1>3, <1>4, <1>6, QuietKeeps

LEMMA NextKeeps ==
  ASSUME IInv, [Next]_vars
  PROVE  IInv'
  <1>1. CASE Next
    BY <1>1, PushStepKeeps, PopStepKeeps, CloseKeeps, DropStartKeeps, DropSlotKeeps, DropEndKeeps
       DEF Next, DropStep
  <1>2. CASE UNCHANGED vars
    <2>1. UNCHANGED <<head, headBlock, tail, tailBlock, next, cell, state, live, pc, loc, result, calls,
                      dropper, entered, left>>
      BY <1>2 DEF vars
    <2>2. Typed' /\ EnteredInv' /\ TailInv' /\ HeadInv' /\ LinkInv'
      BY <2>1 DEF IInv, Typed, EnteredInv, TailInv, HeadInv, LinkInv, PushOwner, Moving
    <2>3. ASSUME NEW p \in Pushers PROVE PushInv(p)'
      <3>1. PushInv(p)
        BY DEF IInv
      <3> QED
        BY <2>1, <3>1 DEF PushInv, PushOwner, Bits, Idx
    <2>4. ASSUME NEW c \in Poppers PROVE PopInv(c)' /\ DestroyInv(c)'
      <3>1. PopInv(c) /\ DestroyInv(c)
        BY DEF IInv
      <3>2. PopInv(c)'
        BY <2>1, <3>1 DEF PopInv, PopOwner, Moving, Bits, Idx
      <3>3. DestroyInv(c)'
        BY <2>1, <3>1 DEF DestroyInv, LastRead, PopOwner, Bits, Idx
      <3> QED BY <3>2, <3>3
    <2>5. OnePerPlace'
      BY <2>1 DEF IInv, OnePerPlace, PopOwner, Idx
    <2>6. ASSUME NEW i \in Slots PROVE SlotInv(i)'
      <3>1. SlotInv(i)
        BY DEF IInv
      <3> QED
        BY <2>1, <3>1 DEF SlotInv, LastRead, PushOwner, PopOwner, Bits, Idx
    <2>7. LiveInv' /\ DropInv'
      BY <2>1 DEF IInv, LiveInv, DropInv, LastRead, PopOwner, Bits, Idx
    <2> QED
      BY <2>2, <2>3, <2>4, <2>5, <2>6, <2>7 DEF IInv
  <1> QED BY <1>1, <1>2

LEMMA QueueInvariance == Spec => []IInv
  <1>1. IInv /\ [Next]_vars => IInv'
    BY NextKeeps
  <1> QED
    BY <1>1, InitIInv, PTL DEF Spec

-----------------------------------------------------------------------------
(* The queue implements a FIFO queue: what a push adds goes to the end of   *)
(* what is left, and a pop takes from its front.                            *)
Waiting == SubSeq(entered, left + 1, Len(entered))

LEMMA Appended ==
  ASSUME NEW S, NEW e \in Seq(S), NEW v \in S, NEW n \in 0..Len(e)
  PROVE  SubSeq(Append(e, v), n + 1, Len(Append(e, v))) = Append(SubSeq(e, n + 1, Len(e)), v)
  <1> DEFINE a == SubSeq(Append(e, v), n + 1, Len(e) + 1)
             b == SubSeq(e, n + 1, Len(e))
             c == Append(b, v)
  <1>1. /\ Len(e) \in Nat /\ n \in Nat /\ n <= Len(e) /\ n + 1 \in Int /\ Len(e) + 1 \in Int
        /\ Len(e) \in Int
    BY LenProperties
  <1>2. /\ Len(Append(e, v)) = Len(e) + 1
        /\ \A i \in 1..Len(e) : Append(e, v)[i] = e[i]
        /\ Append(e, v)[Len(e) + 1] = v
    BY AppendProperties
  <1>3. \A i \in 1..Len(e) : e[i] \in S
    BY LenProperties
  <1>4. /\ b \in Seq(S) /\ Len(b) = (IF n + 1 <= Len(e) THEN Len(e) - (n + 1) + 1 ELSE 0)
        /\ \A i \in 1..(Len(e) - (n + 1) + 1) : b[i] = e[n + 1 + i - 1]
    <2>1. \A i \in (n + 1)..Len(e) : e[i] \in S
      BY <1>1, <1>3
    <2> QED
      BY <1>1, <2>1, SubSeqProperties
  <1>5. /\ a \in Seq(S) /\ Len(a) = (IF n + 1 <= Len(e) + 1 THEN Len(e) + 1 - (n + 1) + 1 ELSE 0)
        /\ \A i \in 1..(Len(e) + 1 - (n + 1) + 1) : a[i] = Append(e, v)[n + 1 + i - 1]
    <2>1. \A i \in (n + 1)..(Len(e) + 1) : Append(e, v)[i] \in S
      BY <1>1, <1>2, <1>3
    <2> QED
      BY <1>1, <2>1, SubSeqProperties
  <1>6. Len(b) = Len(e) - n /\ Len(a) = Len(e) - n + 1
    BY <1>1, <1>4, <1>5
  <1> HIDE DEF a, b
  <1>7. /\ c \in Seq(S) /\ Len(c) = Len(b) + 1
        /\ \A i \in 1..Len(b) : c[i] = b[i]
        /\ c[Len(b) + 1] = v
    BY <1>4, AppendProperties
  <1> HIDE DEF c
  <1>8. ASSUME NEW i \in 1..Len(a) PROVE a[i] = c[i]
    <2>1. a[i] = Append(e, v)[n + i] /\ i \in 1..(Len(e) - n + 1)
      BY <1>1, <1>5, <1>6
    <2>2. CASE i = Len(e) - n + 1
      BY <1>1, <1>2, <1>6, <1>7, <2>1, <2>2
    <2>3. CASE i \in 1..(Len(e) - n)
      <3>1. c[i] = e[n + i]
        BY <1>1, <1>4, <1>6, <1>7, <2>3
      <3>2. n + i \in 1..Len(e)
        BY <1>1, <2>3
      <3> QED
        BY <1>2, <2>1, <3>1, <3>2
    <2> QED BY <1>1, <2>1, <2>2, <2>3
  <1>9. a = c
    BY <1>5, <1>6, <1>7, <1>8, SeqEqual
  <1> QED
    BY <1>2, <1>9 DEF a, b, c

LEMMA HistoryTypes ==
  ASSUME IInv
  PROVE  /\ entered \in Seq(Values) /\ Len(entered) \in Nat /\ left \in 0..Len(entered)
         /\ left = Num(head.index) /\ Len(entered) = Num(tail.index)
  <1>1. entered \in Seq(Values) /\ left = Num(head.index) /\ Len(entered) = Num(tail.index)
    BY DEF IInv, Typed, EnteredInv, HeadInv
  <1>2. Num(head.index) \in Nat /\ Num(tail.index) \in Nat /\ Num(head.index) <= Num(tail.index)
    BY Numbers, BlockOrder, IndexTypes
  <1> QED BY <1>1, <1>2

(* A step that neither pushes nor pops anything and returns nothing new.    *)
LEMMA Stutters ==
  ASSUME UNCHANGED <<entered, left, result>>, tail'.mark = tail.mark
  PROVE  UNCHANGED F!vars
  BY DEF F!vars

LEMMA PushImplements ==
  ASSUME IInv, NEW t \in Pushers, PushStart(t) \/ PushStep(t)
  PROVE  [F!Next]_F!vars
  <1>1. t \in Threads /\ Typed /\ tail \in Position
    BY Numbers DEF IInv, Typed
  <1>2. result = [result EXCEPT ![t] = result[t]]
    BY <1>1, Stays
  <1>3. ASSUME PushSees(t, tail), UNCHANGED <<queueVars, history>>
        PROVE  [F!Next]_F!vars
    <2>1. UNCHANGED <<tail, entered, left>>
      BY <1>3 DEF queueVars, history
    <2>2. CASE tail.mark
      <3>1. F!Returns(t, F!Refused)
        BY <1>3, <2>2 DEF PushSees, Return, F!Returns
      <3>2. F!Push(t)
        BY <2>1, <2>2, <3>1 DEF F!Push
      <3> QED
        BY <1>1, <3>2 DEF F!Next
    <2>3. CASE ~tail.mark
      BY <1>3, <2>1, <2>3, Stutters DEF PushSees
    <2> QED BY <2>2, <2>3
  <1>4. CASE PushIndex(t) \/ PushRetry(t)
    BY <1>3, <1>4 DEF PushIndex, PushRetry
  <1>5. CASE PushAdvance(t)
    <2> DEFINE v == <<t, calls[t]>>
    <2>1. /\ tail' = Plus(tail) /\ entered' = Append(entered, v) /\ left' = left
          /\ result' = [result EXCEPT ![t] = F!Pushed] /\ pc[t] = "advance" /\ tail = loc[t].pos
      BY <1>5 DEF PushAdvance
    <2>2. ~tail.mark /\ calls[t] > 0 /\ calls[t] \in 1..MaxPushes
      <3>1. PushInv(t) /\ calls[t] \in Nat /\ calls[t] <= MaxPushes
        BY <1>1 DEF IInv, Typed
      <3>2. ~loc[t].pos.mark /\ calls[t] > 0
        BY <2>1, <3>1 DEF PushInv
      <3> QED
        BY <2>1, <3>1, <3>2, BoundAssumption
    <2>3. v \in Values
      BY <2>2 DEF Values
    <2> HIDE DEF v
    <2>4. Waiting' = Append(Waiting, v)
      BY <2>1, <2>3, HistoryTypes, Appended DEF Waiting
    <2>5. tail'.mark = tail.mark
      BY <1>1, <2>1 DEF Plus, Position
    <2>6. F!Push(t)
      BY <2>1, <2>2, <2>3, <2>4, <2>5 DEF F!Push, F!Returns, Waiting
    <2> QED
      BY <1>1, <2>6 DEF F!Next
  <1>6. CASE PushSkip(t)
    <2>1. UNCHANGED <<entered, left, result>> /\ tail' = Plus(tail)
      BY <1>6 DEF PushSkip, history
    <2> QED
      BY <1>1, <2>1, Stutters DEF Plus, Position
  <1>7. CASE PushWrite(t)
    <2>1. UNCHANGED <<entered, left, result, tail>>
      BY <1>2, <1>7 DEF PushWrite, End, Return, history, queueVars
    <2> QED
      BY <2>1, Stutters
  <1>8. CASE PushStart(t) \/ PushBlock(t) \/ PushFirst(t) \/ PushHeadBlock(t) \/ PushInstall(t) \/ PushLink(t)
    <2>1. UNCHANGED <<entered, left, result, tail>>
      BY <1>8 DEF PushStart, PushBlock, PushFirst, PushHeadBlock, PushInstall, PushLink, history, queueVars
    <2> QED
      BY <2>1, Stutters
  <1> QED
    BY <1>4, <1>5, <1>6, <1>7, <1>8 DEF PushStep

LEMMA PopImplements ==
  ASSUME IInv, NEW t \in Poppers, PopStart(t) \/ PopStep(t)
  PROVE  [F!Next]_F!vars
  <1>1. t \in Threads /\ Typed
    BY Numbers DEF IInv
  <1>2. result = [result EXCEPT ![t] = result[t]]
    BY <1>1, Stays
  <1>3. CASE PopTail(t)
    <2>1. UNCHANGED <<tail, entered, left>>
      BY <1>3 DEF PopTail, queueVars, history
    <2>2. CASE loc[t].pos.index = tail.index
      <3>1. Idx(t) = tail.index /\ Idx(t) <= head.index
        BY <2>2 DEF IInv, PopInv, Idx
      <3>2. head.index = tail.index
        BY <3>1, Numbers
      <3>3. left = Len(entered) /\ Len(entered) \in Nat
        BY <3>2, HistoryTypes
      <3>4. Waiting = <<>>
        <4>1. Len(entered) < left + 1 /\ left + 1 \in Int /\ Len(entered) \in Int
          BY <3>3
        <4> QED
          BY <4>1, SubSeqEmpty DEF Waiting
      <3>5. F!Returns(t, IF tail.mark THEN F!Closed ELSE F!Empty)
        BY <1>3, <2>2 DEF PopTail, Return, F!Returns
      <3>6. F!Pop(t)
        BY <2>1, <3>4, <3>5 DEF F!Pop, Waiting
      <3> QED
        BY <1>1, <3>6 DEF F!Next
    <2>3. CASE loc[t].pos.index # tail.index
      BY <1>3, <2>1, <2>3, Stutters DEF PopTail
    <2> QED BY <2>2, <2>3
  <1>4. CASE PopClaim(t)
    <2>1. /\ UNCHANGED <<tail, entered>> /\ left' = left + 1
          /\ result' = [result EXCEPT ![t] = F!Got(entered[left + 1])]
          /\ pc[t] = "claim" /\ head = loc[t].pos
      BY <1>4 DEF PopClaim
    <2>2. left + 1 \in 1..Len(entered) /\ Len(entered) \in Nat /\ left \in Nat
      <3>1. /\ head.index \in Nat /\ tail.index \in Nat /\ head.index < tail.index
            /\ Off(head.index) < BlockCap
        BY <2>1, Numbers DEF IInv, PopInv, Idx
      <3>2. Num(head.index) < Num(tail.index)
        BY <3>1, NumOrder
      <3> QED
        BY <3>2, HistoryTypes
    <2>3. Head(Waiting) = entered[left + 1] /\ Tail(Waiting) = SubSeq(entered, left + 1 + 1, Len(entered))
      <3>1. Len(entered) \in (left + 1)..Len(entered)
        BY <2>2
      <3> QED
        BY <2>2, <3>1, HistoryTypes, HeadTailOfSubSeq DEF Waiting
    <2>4. Waiting # <<>>
      <3>1. Len(Waiting) = Len(entered) - (left + 1) + 1
        <4>1. \A i \in (left + 1)..Len(entered) : entered[i] \in Values
          BY <2>2, HistoryTypes, LenProperties
        <4>2. left + 1 \in Int /\ Len(entered) \in Int /\ left + 1 <= Len(entered)
          BY <2>2
        <4> QED
          BY <4>1, <4>2, SubSeqProperties DEF Waiting
      <3> QED
        BY <2>2, <3>1
    <2>5. F!Returns(t, F!Got(Head(Waiting)))
      BY <2>1, <2>3 DEF F!Returns
    <2>6. Waiting' = Tail(Waiting)
      BY <2>1, <2>3 DEF Waiting
    <2>7. F!Pop(t)
      BY <2>1, <2>4, <2>5, <2>6 DEF F!Pop, Waiting
    <2> QED
      BY <1>1, <2>7 DEF F!Next
  <1>5. CASE PopRead(t)
    <2>1. UNCHANGED <<tail, entered, left>> /\ result' = [result EXCEPT ![t] = F!Got(cell[Slot(t)])]
      BY <1>5 DEF PopRead, queueVars, history
    <2>2. F!Got(cell[Slot(t)]) = result[t]
      <3>1. PopOwner(t) /\ WRITE \in state[Slot(t)] /\ dropper.pc = "none"
        BY <1>1, <1>5, BusyNoDrop DEF PopRead, PopOwner
      <3>2. PICK i \in Slots : i = Idx(t)
        BY <3>1, PopSlot
      <3>3. Slot(t) = <<Blk(i), Off(i)>> /\ result[t] = F!Got(entered[Num(i) + 1])
        BY <3>1, <3>2, PopSlot
      <3>4. cell[<<Blk(i), Off(i)>>] = entered[Num(i) + 1]
        BY <3>1, <3>3 DEF IInv, SlotInv, Bits
      <3> QED
        BY <3>3, <3>4
    <2> QED
      BY <1>2, <2>1, <2>2, Stutters
  <1>6. CASE PopMark(t) \/ PopDestroy(t) \/ PopFree(t)
    <2>1. UNCHANGED <<tail, entered, left, result>>
      BY <1>2, <1>6 DEF PopMark, PopDestroy, PopFree, End, Return, queueVars, history
    <2> QED
      BY <2>1, Stutters
  <1>7. CASE \/ PopStart(t) \/ PopHead(t) \/ PopBlock(t) \/ PopRetry(t)
             \/ PopWaitNext(t) \/ PopPeek(t) \/ PopMoveBlock(t) \/ PopMoveIndex(t)
    <2>1. UNCHANGED <<tail, entered, left, result>>
      BY <1>7 DEF PopStart, PopHead, PopBlock, PopRetry, PopWaitNext, PopPeek, PopMoveBlock,
                  PopMoveIndex, queueVars, history
    <2> QED
      BY <2>1, Stutters
  <1> QED
    BY <1>3, <1>4, <1>5, <1>6, <1>7 DEF PopStep

LEMMA StepImplements ==
  ASSUME IInv, [Next]_vars
  PROVE  [F!Next]_F!vars
  <1>1. CASE Close
    <2>1. UNCHANGED <<entered, left, result>> /\ tail' = [tail EXCEPT !.mark = TRUE]
      BY <1>1 DEF Close, history
    <2>2. tail'.mark = TRUE
      BY <2>1 DEF IInv, Typed, Position
    <2>3. F!Close
      BY <2>1, <2>2 DEF F!Close
    <2> QED
      BY <2>3 DEF F!Next
  <1>2. CASE DropStart \/ DropStep \/ UNCHANGED vars
    <2>1. UNCHANGED <<tail, entered, left, result>>
      BY <1>2 DEF DropStart, DropStep, DropSlot, DropEnd, vars, queueVars, history
    <2> QED
      BY <2>1, Stutters
  <1> QED
    BY <1>1, <1>2, PushImplements, PopImplements DEF Next

LEMMA InitImplements == Init => F!Init
  <1> SUFFICES ASSUME Init PROVE F!Init
    OBVIOUS
  <1>1. SubSeq(<<>>, 0 + 1, Len(<<>>)) = <<>>
    BY SubSeqEmpty
  <1> QED
    BY <1>1 DEF Init, F!Init, NoPos

-----------------------------------------------------------------------------
(* The types bound every index by the blocks there can be, which takes what *)
(* the invariant does not need: pushers count no slots, and the drop stays  *)
(* before the tail.                                                         *)
Within ==
    /\ \A p \in Pushers : loc[p].slot = 0
    /\ dropper.index <= tail.index

LEMMA TailGrows ==
  ASSUME IInv, [Next]_vars
  PROVE  tail'.index = tail.index \/ tail'.index = tail.index + 1
  <1>1. tail \in Position
    BY DEF IInv, Typed
  <1>2. tail' = tail \/ tail' = Plus(tail) \/ tail' = [tail EXCEPT !.mark = TRUE]
    <2>1. ASSUME NEW t \in Pushers, PushStart(t) \/ PushStep(t)
          PROVE  tail' = tail \/ tail' = Plus(tail)
      BY <2>1 DEF PushStep, PushStart, PushIndex, PushBlock, PushFirst, PushHeadBlock, PushAdvance,
                  PushRetry, PushInstall, PushSkip, PushLink, PushWrite, queueVars
    <2>2. ASSUME NEW t \in Poppers, PopStart(t) \/ PopStep(t) PROVE tail' = tail
      BY <2>2 DEF PopStep, PopStart, PopHead, PopBlock, PopTail, PopClaim, PopRetry, PopWaitNext,
                  PopPeek, PopMoveBlock, PopMoveIndex, PopRead, PopMark, PopDestroy, PopFree, queueVars
    <2>3. Close => tail' = [tail EXCEPT !.mark = TRUE]
      BY DEF Close
    <2>4. DropStart \/ DropStep \/ UNCHANGED vars => tail' = tail
      BY DEF DropStart, DropStep, DropSlot, DropEnd, vars, queueVars
    <2> QED
      BY <2>1, <2>2, <2>3, <2>4 DEF Next
  <1> QED
    BY <1>1, <1>2 DEF Position, Plus

LEMMA WithinKept ==
  ASSUME IInv, Within, [Next]_vars
  PROVE  Within'
  <1>1. /\ head.index \in Nat /\ tail.index \in Nat /\ head.index <= tail.index
        /\ tail'.index = tail.index \/ tail'.index = tail.index + 1
        /\ dropper \in [pc : {"none", "walk", "done"}, index : Nat, block : Pointers]
        /\ loc \in [Threads -> Memory]
    BY Numbers, TailGrows DEF IInv, Typed
  <1>2. dropper' = dropper => dropper'.index <= tail'.index
    BY <1>1 DEF Within
  <1>3. ASSUME NEW t \in Pushers, PushStart(t) \/ PushStep(t) PROVE Within'
    <2>1. dropper' = dropper
      BY <1>3 DEF PushStep, PushStart, PushIndex, PushBlock, PushFirst, PushHeadBlock, PushAdvance,
                  PushRetry, PushInstall, PushSkip, PushLink, PushWrite
    <2>2. \/ loc' = loc \/ loc' = [loc EXCEPT ![t] = NoLocals]
          \/ \E v : loc' = [loc EXCEPT ![t]["pos"] = v]
          \/ \E v : loc' = [loc EXCEPT ![t]["block"] = v]
          \/ \E v : loc' = [loc EXCEPT ![t]["fresh"] = v]
      BY <1>3 DEF PushStep, PushStart, PushIndex, PushBlock, PushFirst, PushHeadBlock, PushAdvance,
                  PushRetry, PushInstall, PushSkip, PushLink, PushWrite, PushSees, Local, Return, End
    <2>3. \A p \in Pushers : loc[p] \in Memory
      BY <1>1 DEF Threads
    <2>4. \A p \in Pushers : loc'[p].slot = 0
      <3>1. CASE loc' = loc \/ loc' = [loc EXCEPT ![t] = NoLocals]
        BY <1>1, <3>1, NoMemory DEF Within, Threads
      <3>2. ASSUME NEW v, loc' = [loc EXCEPT ![t]["pos"] = v] PROVE \A p \in Pushers : loc'[p].slot = 0
        BY <1>1, <2>3, <3>2 DEF Within, Threads, Memory
      <3>3. ASSUME NEW v, loc' = [loc EXCEPT ![t]["block"] = v] PROVE \A p \in Pushers : loc'[p].slot = 0
        BY <1>1, <2>3, <3>3 DEF Within, Threads, Memory
      <3>4. ASSUME NEW v, loc' = [loc EXCEPT ![t]["fresh"] = v] PROVE \A p \in Pushers : loc'[p].slot = 0
        BY <1>1, <2>3, <3>4 DEF Within, Threads, Memory
      <3> QED BY <2>2, <3>1, <3>2, <3>3, <3>4
    <2> QED
      BY <1>2, <2>1, <2>4 DEF Within
  <1>4. ASSUME NEW t \in Poppers, PopStart(t) \/ PopStep(t) PROVE Within'
    <2>1. dropper' = dropper
      BY <1>4 DEF PopStep, PopStart, PopHead, PopBlock, PopTail, PopClaim, PopRetry, PopWaitNext,
                  PopPeek, PopMoveBlock, PopMoveIndex, PopRead, PopMark, PopDestroy, PopFree
    <2>2. \/ loc' = loc \/ \E m : loc' = [loc EXCEPT ![t] = m]
      BY <1>4 DEF PopStep, PopStart, PopHead, PopBlock, PopTail, PopClaim, PopRetry, PopWaitNext,
                  PopPeek, PopMoveBlock, PopMoveIndex, PopRead, PopMark, PopDestroy, PopFree,
                  Local, Return, End
    <2>3. \A p \in Pushers : p # t /\ p \in Threads
      BY Disjoint DEF Threads
    <2>4. \A p \in Pushers : loc'[p] = loc[p]
      BY <1>1, <2>2, <2>3
    <2> QED
      BY <1>2, <2>1, <2>4 DEF Within
  <1>5. CASE Close \/ UNCHANGED vars
    BY <1>2, <1>5 DEF Close, vars, Within
  <1>6. CASE DropStart
    BY <1>1, <1>6 DEF DropStart, queueVars, Within
  <1>7. CASE DropStep
    <2>1. UNCHANGED <<tail, loc>>
      BY <1>7 DEF DropStep, DropSlot, DropEnd, queueVars
    <2>2. \/ dropper'.index = dropper.index
          \/ dropper'.index = dropper.index + 1 /\ dropper.index # tail.index
      BY <1>1, <1>7 DEF DropStep, DropSlot, DropEnd
    <2> QED
      BY <1>1, <2>1, <2>2 DEF Within
  <1> QED
    BY <1>3, <1>4, <1>5, <1>6, <1>7 DEF Next

LEMMA IndexBound ==
  ASSUME IInv, NEW i \in Nat, i <= tail.index
  PROVE  i \in 0..MaxIndex
  <1>1. MaxBlocks \in Nat /\ MaxBlocks * Lap \in Nat
    BY BlockTypes, LapAssumption
  <1>2. CASE tailBlock = Null
    BY <1>1, <1>2, Numbers DEF IInv, TailInv, MaxIndex
  <1>3. CASE tailBlock # Null
    <2> DEFINE q == i \div Lap
               r == i % Lap
    <2>1. q \in Nat /\ r \in Nat /\ r < Lap /\ i = q * Lap + r
      BY LapAssumption
    <2>2. q + 1 <= MaxBlocks
      <3>1. q + 1 \in 1..tailBlock /\ tailBlock \in 1..MaxBlocks
        BY <1>3, WithinTail DEF Blk, IInv, Typed, Pointers, Blocks
      <3> HIDE DEF q
      <3> QED BY <1>1, <2>1, <3>1
    <2> HIDE DEF q, r
    <2>3. (q + 1) * Lap <= MaxBlocks * Lap
      BY <1>1, <2>1, <2>2, LapAssumption
    <2>4. (q + 1) * Lap = q * Lap + Lap /\ q * Lap \in Nat
      BY <2>1, LapAssumption
    <2> QED
      BY <1>1, <2>1, <2>3, <2>4, LapAssumption DEF MaxIndex
  <1> QED BY <1>2, <1>3

LEMMA InvTyped == IInv /\ Within => TypeOK
  <1> SUFFICES ASSUME IInv, Within PROVE TypeOK
    OBVIOUS
  <1>1. Typed
    BY DEF IInv
  <1>2. head \in Positions /\ tail \in Positions
    <2>1. head.index \in 0..MaxIndex /\ tail.index \in 0..MaxIndex
      BY Numbers, IndexBound
    <2> QED
      BY <1>1, <2>1 DEF Typed, Position, Positions
  <1>3. ASSUME NEW t \in Threads PROVE loc[t] \in Locals
    <2>1. loc[t] \in Memory /\ loc[t].slot \in Nat
      BY Numbers DEF Memory
    <2>2. Idx(t) \in 0..MaxIndex
      <3>1. Idx(t) <= tail.index
        BY Numbers DEF IInv, PushInv, PopInv, Threads
      <3> QED
        BY <3>1, Numbers, IndexBound
    <2>3. loc[t].slot \in 0..BlockCap
      <3>1. CASE t \in Pushers
        BY <3>1, CapType DEF Within
      <3>2. CASE t \in Poppers
        <4>1. PopInv(t) /\ DestroyInv(t)
          BY <3>2 DEF IInv
        <4>2. loc[t].slot = 0 \/ loc[t].slot <= BlockCap - 1
          BY <4>1 DEF PopInv, DestroyInv
        <4> QED
          BY <2>1, <4>2, CapType
      <3> QED BY <3>1, <3>2 DEF Threads
    <2>4. loc[t].pos \in Positions
      BY <2>1, <2>2 DEF Memory, Position, Positions, Idx
    <2> QED
      BY <2>1, <2>3, <2>4 DEF Memory, Locals
  <1>4. loc \in [Threads -> Locals]
    BY <1>1, <1>3 DEF Typed
  <1>5. dropper \in [pc : {"none", "walk", "done"}, index : 0..MaxIndex, block : Pointers]
    <2>1. dropper.index \in 0..MaxIndex
      BY <1>1, IndexBound DEF Typed, Within
    <2> QED
      BY <1>1, <2>1 DEF Typed
  <1>6. left \in 0..Len(entered)
    BY HistoryTypes
  <1> QED
    BY <1>1, <1>2, <1>4, <1>5, <1>6 DEF Typed, TypeOK

(* Every variable of the queue keeps its type: no index or block number is  *)
(* ever beyond the blocks that the pushes can fill.                         *)
THEOREM QueueTyped == Spec => []TypeOK
  <1>1. Init => Within
    BY NoMemory DEF Init, Within, NoPos, Threads
  <1>2. IInv /\ Within /\ [Next]_vars => Within'
    BY WithinKept
  <1> QED
    BY <1>1, <1>2, QueueInvariance, InvTyped, PTL DEF Spec

(* No thread touches a block after it was freed, nor frees it again, the    *)
(* head and tail point at allocated blocks, and the drop finds in each slot *)
(* it empties a value written and not yet read, and frees every block left. *)
THEOREM QueueMemorySafe == Spec => []MemorySafe
  BY QueueInvariance, InvMemorySafe, PTL

(* Whoever waits, at the position between two blocks, for the first block,  *)
(* for the next one, or for a value, waits for a thread that is on its way. *)
THEOREM QueueWaitsForAnother == Spec => []WaitsForAnother
  BY QueueInvariance, InvWaitsForAnother, PTL

(* The lock-free queue implements the FIFO queue: its calls take effect one *)
(* at a time, values come out once and in order, nothing enters a closed    *)
(* queue, and "empty" and "closed" are said only when that is so.           *)
THEOREM QueueIsFifo == Spec => FifoKept
  <1>1. IInv /\ [Next]_vars => [F!Next]_F!vars
    BY StepImplements
  <1> QED
    BY <1>1, InitImplements, QueueInvariance, PTL DEF Spec, FifoKept, F!Spec

=============================================================================
