------------------------------ MODULE Unbounded -------------------------------
(***************************************************************************)
(* util/async_channel/unbounded.rs: the lock-free queue under the channel. *)
(* It is a linked list of blocks of Lap - 1 slots.  An index counts slots, *)
(* and one position per block at which nothing is stored and threads wait  *)
(* for the next block; its lowest bit is a mark that says, in the tail,    *)
(* that the queue is closed, and in the head that the block is not the     *)
(* last one.  The reader that finishes last with a block frees it.         *)
(*                                                                         *)
(* Every atomic access is a step, except that three actions join two.      *)
(* PushWrite writes a slot's value and sets WRITE: nobody reads the value  *)
(* before the bit.  PopRead waits for WRITE and reads the value: the bit   *)
(* stays set and nobody else touches the value.  PopDestroy loads a slot's *)
(* bits and sets DESTROY if READ is missing; READ is never unset, so that  *)
(* a load that finds it decides alone, and one that does not changes       *)
(* nothing before the fetch_or looks again.  Steps take effect in one      *)
(* order that all threads see: weaker memory orders are not modelled.      *)
(* Indices do not wrap.  A block that a push allocated in advance and did  *)
(* not install is its own and is left out.                                 *)
(***************************************************************************)
EXTENDS Naturals, Sequences, FiniteSets

CONSTANTS
    Pushers,    \* threads that push
    Poppers,    \* threads that pop
    Lap,        \* indices per block, one more than its slots
    MaxPushes,  \* bound: values that one pusher pushes
    MaxPops,    \* bound: pops of one popper
    Closing     \* whether the queue may be closed while it is used

Threads  == Pushers \cup Poppers
BlockCap == Lap - 1
Offsets  == 0..(BlockCap - 1)

ASSUME LapAssumption == Lap \in Nat /\ Lap > 1
ASSUME BoundAssumption == MaxPushes \in Nat /\ MaxPops \in Nat
ASSUME ThreadAssumption == IsFiniteSet(Threads) /\ Pushers \cap Poppers = {}
ASSUME ClosingAssumption == Closing \in BOOLEAN

(* A block is known by the order of its installation; 0 is the null pointer.*)
Null      == 0
MaxBlocks == 1 + (Cardinality(Pushers) * MaxPushes) \div BlockCap
Blocks    == 1..MaxBlocks
MaxIndex  == MaxBlocks * Lap
Values    == Pushers \X (1..MaxPushes)
NoValue   == <<>>
WRITE     == "written"
READ      == "read"
DESTROY   == "destroy"

VARIABLES
    head,       \* index and mark of the next pop
    headBlock,  \* its block
    tail,       \* index and mark of the next push
    tailBlock,  \* its block
    next,       \* each block's next block
    cell,       \* each slot's value
    state,      \* each slot's state bits
    live,       \* the blocks that are allocated
    pc,         \* where each thread is in its call
    loc,        \* each thread's local variables
    result,     \* the outcome of each thread's last call
    calls,      \* calls each thread has begun
    dropper,    \* the progress of Drop for Unbounded
    entered,    \* history: the values in the order of their indices
    left        \* history: how many of them pops have claimed

vars == <<head, headBlock, tail, tailBlock, next, cell, state, live, pc, loc, result, calls,
          dropper, entered, left>>
queueVars == <<head, headBlock, tail, tailBlock>>
blockVars == <<next, cell, state, live>>
history   == <<entered, left>>

F == INSTANCE FifoQueue WITH items <- SubSeq(entered, left + 1, Len(entered)), closed <- tail.mark

Positions == [index : 0..MaxIndex, mark : BOOLEAN]
Pointers  == Blocks \cup {Null}
(* The local variables of push and pop: the position and block they read,   *)
(* the next block, the mark of the new head, and the slot destroy is at.    *)
Locals    == [pos : Positions, block : Pointers, fresh : Pointers, mark : BOOLEAN, slot : 0..BlockCap]
NoPos     == [index |-> 0, mark |-> FALSE]
NoLocals  == [pos |-> NoPos, block |-> Null, fresh |-> Null, mark |-> FALSE, slot |-> 0]

PushPlaces == {"index", "block", "first", "headBlock", "advance", "install", "skip", "link", "write"}
PopPlaces  == {"head", "block", "tail", "claim", "waitNext", "peek", "moveBlock", "moveIndex",
               "read", "mark", "destroy"}
Results    == {F!NoResult, F!Pushed, F!Refused, F!Empty, F!Closed} \cup {F!Got(v) : v \in Values}

TypeOK ==
    /\ head \in Positions /\ tail \in Positions
    /\ headBlock \in Pointers /\ tailBlock \in Pointers
    /\ next \in [Blocks -> Pointers]
    /\ cell \in [Blocks \X Offsets -> Values \cup {NoValue}]
    /\ state \in [Blocks \X Offsets -> SUBSET {WRITE, READ, DESTROY}]
    /\ live \subseteq Blocks
    /\ pc \in [Threads -> PushPlaces \cup PopPlaces \cup {"idle"}]
    /\ loc \in [Threads -> Locals]
    /\ result \in [Threads -> Results]
    /\ calls \in [Threads -> Nat]
    /\ dropper \in [pc : {"none", "walk", "done"}, index : 0..MaxIndex, block : Pointers]
    /\ entered \in Seq(Values) /\ left \in 0..Len(entered)

Init ==
    /\ head = NoPos /\ tail = NoPos /\ headBlock = Null /\ tailBlock = Null
    /\ next = [b \in Blocks |-> Null]
    /\ cell = [s \in Blocks \X Offsets |-> NoValue]
    /\ state = [s \in Blocks \X Offsets |-> {}]
    /\ live = {}
    /\ pc = [t \in Threads |-> "idle"]
    /\ loc = [t \in Threads |-> NoLocals]
    /\ result = [t \in Threads |-> F!NoResult]
    /\ calls = [t \in Threads |-> 0]
    /\ dropper = [pc |-> "none", index |-> 0, block |-> Null]
    /\ entered = <<>> /\ left = 0

-----------------------------------------------------------------------------
Offset(p) == p.index % Lap
Last(p)   == Offset(p) + 1 = BlockCap
Plus(p)   == [p EXCEPT !.index = @ + 1]
Slot(t)   == <<loc[t].block, Offset(loc[t].pos)>>

(* The block that an allocation returns: addresses are not told apart.      *)
Fresh == 1 + Cardinality({b \in Blocks : b \in live \/ next[b] # Null})

Goto(t, place)     == pc' = [pc EXCEPT ![t] = place]
Local(t, f, v)     == loc' = [loc EXCEPT ![t][f] = v]
Return(t, r)       == /\ Goto(t, "idle")
                      /\ loc' = [loc EXCEPT ![t] = NoLocals]
                      /\ result' = [result EXCEPT ![t] = r]
End(t)             == Return(t, result[t])

-----------------------------------------------------------------------------
(* Unbounded::push.  A fresh look at the tail: its index, then its block.   *)
PushStart(t) ==
    /\ pc[t] = "idle" /\ calls[t] < MaxPushes /\ dropper.pc = "none"
    /\ calls' = [calls EXCEPT ![t] = @ + 1]
    /\ Goto(t, "index")
    /\ UNCHANGED <<queueVars, blockVars, loc, result, dropper, history>>

PushSees(t, p) ==
    IF p.mark
    THEN Return(t, F!Refused)
    ELSE Goto(t, "block") /\ Local(t, "pos", p) /\ UNCHANGED result

PushIndex(t) ==
    /\ pc[t] = "index"
    /\ PushSees(t, tail)
    /\ UNCHANGED <<queueVars, blockVars, calls, dropper, history>>

PushBlock(t) ==
    /\ pc[t] = "block"
    /\ IF Offset(loc[t].pos) = BlockCap
       THEN Goto(t, "index") /\ UNCHANGED loc
       ELSE /\ Local(t, "block", tailBlock)
            /\ Goto(t, IF tailBlock = Null THEN "first" ELSE "advance")
    /\ UNCHANGED <<queueVars, blockVars, result, calls, dropper, history>>

(* The first push installs the first block, in the tail before the head.    *)
PushFirst(t) ==
    /\ pc[t] = "first"
    /\ IF tailBlock = Null
       THEN /\ tailBlock' = Fresh /\ live' = live \cup {Fresh}
            /\ Local(t, "block", Fresh) /\ Goto(t, "headBlock")
       ELSE Goto(t, "index") /\ UNCHANGED <<tailBlock, live, loc>>
    /\ UNCHANGED <<head, headBlock, tail, next, cell, state, result, calls, dropper, history>>

PushHeadBlock(t) ==
    /\ pc[t] = "headBlock"
    /\ headBlock' = loc[t].block
    /\ Goto(t, "advance")
    /\ UNCHANGED <<head, tail, tailBlock, blockVars, loc, result, calls, dropper, history>>

(* The compare_exchange that gives the value its place in the queue.  It    *)
(* may fail for no reason.                                                  *)
PushAdvance(t) ==
    /\ pc[t] = "advance" /\ tail = loc[t].pos
    /\ tail' = Plus(tail)
    /\ entered' = Append(entered, <<t, calls[t]>>)
    /\ result' = [result EXCEPT ![t] = F!Pushed]
    /\ Goto(t, IF Last(tail) THEN "install" ELSE "write")
    /\ UNCHANGED <<head, headBlock, tailBlock, blockVars, loc, calls, dropper, left>>

PushRetry(t) ==
    /\ pc[t] = "advance"
    /\ PushSees(t, tail)
    /\ UNCHANGED <<queueVars, blockVars, calls, dropper, history>>

(* The push of a block's last slot installs the next block: in the tail,    *)
(* then by moving the tail past the waiting position, then in the list.     *)
PushInstall(t) ==
    /\ pc[t] = "install"
    /\ tailBlock' = Fresh /\ live' = live \cup {Fresh}
    /\ Local(t, "fresh", Fresh)
    /\ Goto(t, "skip")
    /\ UNCHANGED <<head, headBlock, tail, next, cell, state, result, calls, dropper, history>>

(* Mutant: the block is not linked to the next one.                         *)
PushSkipUnlinked(t) ==
    /\ pc[t] = "skip"
    /\ tail' = Plus(tail)
    /\ Goto(t, "write")
    /\ UNCHANGED <<head, headBlock, tailBlock, blockVars, loc, result, calls, dropper, history>>

PushSkip(t) ==
    /\ pc[t] = "skip"
    /\ tail' = Plus(tail)
    /\ Goto(t, "link")
    /\ UNCHANGED <<head, headBlock, tailBlock, blockVars, loc, result, calls, dropper, history>>

PushLink(t) ==
    /\ pc[t] = "link"
    /\ next' = [next EXCEPT ![loc[t].block] = loc[t].fresh]
    /\ Goto(t, "write")
    /\ UNCHANGED <<queueVars, cell, state, live, loc, result, calls, dropper, history>>

(* The value is written before the WRITE bit says so.                       *)
PushWrite(t) ==
    /\ pc[t] = "write"
    /\ cell' = [cell EXCEPT ![Slot(t)] = <<t, calls[t]>>]
    /\ state' = [state EXCEPT ![Slot(t)] = @ \cup {WRITE}]
    /\ End(t)
    /\ UNCHANGED <<queueVars, next, live, calls, dropper, history>>

-----------------------------------------------------------------------------
(* Unbounded::pop.                                                          *)
PopStart(t) ==
    /\ pc[t] = "idle" /\ calls[t] < MaxPops /\ dropper.pc = "none"
    /\ calls' = [calls EXCEPT ![t] = @ + 1]
    /\ Goto(t, "head")
    /\ UNCHANGED <<queueVars, blockVars, loc, result, dropper, history>>

PopHead(t) ==
    /\ pc[t] = "head"
    /\ Local(t, "pos", head)
    /\ Goto(t, "block")
    /\ UNCHANGED <<queueVars, blockVars, result, calls, dropper, history>>

(* A marked head says that the block has a next one: the tail is far away.  *)
PopBlock(t) ==
    /\ pc[t] = "block"
    /\ IF Offset(loc[t].pos) = BlockCap \/ (loc[t].pos.mark /\ headBlock = Null)
       THEN Goto(t, "head") /\ UNCHANGED loc
       ELSE /\ loc' = [loc EXCEPT ![t].block = headBlock, ![t].mark = loc[t].pos.mark]
            /\ Goto(t, IF loc[t].pos.mark THEN "claim" ELSE "tail")
    /\ UNCHANGED <<queueVars, blockVars, result, calls, dropper, history>>

(* Equal indices: the queue is empty.  Otherwise the new head is marked if  *)
(* the tail is in another block.  Only the first push leaves a null block.  *)
PopTail(t) ==
    LET pos == loc[t].pos IN
    /\ pc[t] = "tail"
    /\ IF pos.index = tail.index
       THEN Return(t, IF tail.mark THEN F!Closed ELSE F!Empty)
       ELSE /\ Local(t, "mark", pos.index \div Lap # tail.index \div Lap)
            /\ Goto(t, IF loc[t].block = Null THEN "head" ELSE "claim")
            /\ UNCHANGED result
    /\ UNCHANGED <<queueVars, blockVars, calls, dropper, history>>

(* The compare_exchange that claims the slot, and for the history the value *)
(* that is due.  It may fail for no reason.                                 *)
PopClaim(t) ==
    /\ pc[t] = "claim" /\ head = loc[t].pos
    /\ head' = [index |-> head.index + 1, mark |-> loc[t].mark]
    /\ left' = left + 1
    /\ result' = [result EXCEPT ![t] = F!Got(entered[left + 1])]
    /\ Goto(t, IF Last(head) THEN "waitNext" ELSE "read")
    /\ UNCHANGED <<headBlock, tail, tailBlock, blockVars, loc, calls, dropper, entered>>

PopRetry(t) ==
    /\ pc[t] = "claim"
    /\ Local(t, "pos", head)
    /\ Goto(t, "block")
    /\ UNCHANGED <<queueVars, blockVars, result, calls, dropper, history>>

(* The pop of a block's last slot moves the head to the next block, for     *)
(* which it waits: the block, then the index with a new mark.               *)
PopWaitNext(t) ==
    /\ pc[t] = "waitNext" /\ next[loc[t].block] # Null
    /\ Local(t, "fresh", next[loc[t].block])
    /\ Goto(t, "peek")
    /\ UNCHANGED <<queueVars, blockVars, result, calls, dropper, history>>

PopPeek(t) ==
    /\ pc[t] = "peek"
    /\ Local(t, "mark", next[loc[t].fresh] # Null)
    /\ Goto(t, "moveBlock")
    /\ UNCHANGED <<queueVars, blockVars, result, calls, dropper, history>>

PopMoveBlock(t) ==
    /\ pc[t] = "moveBlock"
    /\ headBlock' = loc[t].fresh
    /\ Goto(t, "moveIndex")
    /\ UNCHANGED <<head, tail, tailBlock, blockVars, loc, result, calls, dropper, history>>

PopMoveIndex(t) ==
    /\ pc[t] = "moveIndex"
    /\ head' = [index |-> loc[t].pos.index + 2, mark |-> loc[t].mark]
    /\ Goto(t, "read")
    /\ UNCHANGED <<headBlock, tail, tailBlock, blockVars, loc, result, calls, dropper, history>>

(* Wait for the value and take it.  The reader of the last slot begins to   *)
(* destroy the block.                                                       *)
(* Mutant: the value is taken before it was written.                        *)
PopReadAtOnce(t) ==
    /\ pc[t] = "read"
    /\ result' = [result EXCEPT ![t] = F!Got(cell[Slot(t)])]
    /\ Goto(t, IF Last(loc[t].pos) THEN "destroy" ELSE "mark")
    /\ UNCHANGED <<queueVars, blockVars, loc, calls, dropper, history>>

PopRead(t) ==
    /\ pc[t] = "read" /\ WRITE \in state[Slot(t)]
    /\ result' = [result EXCEPT ![t] = F!Got(cell[Slot(t)])]
    /\ Goto(t, IF Last(loc[t].pos) THEN "destroy" ELSE "mark")
    /\ UNCHANGED <<queueVars, blockVars, loc, calls, dropper, history>>

(* A reader that finds the DESTROY bit goes on with the destruction.        *)
PopMark(t) ==
    /\ pc[t] = "mark"
    /\ state' = [state EXCEPT ![Slot(t)] = @ \cup {READ}]
    /\ IF DESTROY \in state[Slot(t)]
       THEN /\ Local(t, "slot", Offset(loc[t].pos) + 1) /\ Goto(t, "destroy")
            /\ UNCHANGED result
       ELSE End(t)
    /\ UNCHANGED <<queueVars, next, cell, live, calls, dropper, history>>

(* Block::destroy: a slot still being read is given the DESTROY bit and its *)
(* reader the rest of the work; the last slot needs no look.                *)
(* Mutant: slots that are still read hold nobody up.                        *)
PopDestroyAtOnce(t) ==
    /\ pc[t] = "destroy" /\ loc[t].slot < BlockCap - 1
    /\ Local(t, "slot", loc[t].slot + 1)
    /\ UNCHANGED <<queueVars, next, cell, state, live, pc, result, calls, dropper, history>>

PopDestroy(t) ==
    LET slot == <<loc[t].block, loc[t].slot>> IN
    /\ pc[t] = "destroy" /\ loc[t].slot < BlockCap - 1
    /\ IF READ \in state[slot]
       THEN Local(t, "slot", loc[t].slot + 1) /\ UNCHANGED <<state, pc, result>>
       ELSE /\ state' = [state EXCEPT ![slot] = @ \cup {DESTROY}]
            /\ End(t)
    /\ UNCHANGED <<queueVars, next, cell, live, calls, dropper, history>>

PopFree(t) ==
    /\ pc[t] = "destroy" /\ loc[t].slot >= BlockCap - 1
    /\ live' = live \ {loc[t].block}
    /\ End(t)
    /\ UNCHANGED <<queueVars, next, cell, state, calls, dropper, history>>

-----------------------------------------------------------------------------
(* Unbounded::close: the mark in the tail.                                  *)
Close ==
    /\ Closing /\ ~tail.mark /\ dropper.pc = "none"
    /\ tail' = [tail EXCEPT !.mark = TRUE]
    /\ UNCHANGED <<head, headBlock, tailBlock, blockVars, pc, loc, result, calls, dropper, history>>

(* Drop for Unbounded: no call is in progress and none can begin.  It goes  *)
(* from head to tail, drops the value of every slot and frees the blocks.   *)
DropStart ==
    /\ dropper.pc = "none" /\ \A t \in Threads : pc[t] = "idle"
    /\ dropper' = [pc |-> "walk", index |-> head.index, block |-> headBlock]
    /\ UNCHANGED <<queueVars, blockVars, pc, loc, result, calls, history>>

DropSlot ==
    /\ dropper.pc = "walk" /\ dropper.index # tail.index
    /\ IF dropper.index % Lap < BlockCap
       THEN /\ cell' = [cell EXCEPT ![<<dropper.block, dropper.index % Lap>>] = NoValue]
            /\ dropper' = [dropper EXCEPT !.index = @ + 1]
            /\ UNCHANGED live
       ELSE /\ live' = live \ {dropper.block}
            /\ dropper' = [dropper EXCEPT !.index = @ + 1, !.block = next[@]]
            /\ UNCHANGED cell
    /\ UNCHANGED <<queueVars, next, state, pc, loc, result, calls, history>>

DropEnd ==
    /\ dropper.pc = "walk" /\ dropper.index = tail.index
    /\ live' = live \ {dropper.block}
    /\ dropper' = [dropper EXCEPT !.pc = "done"]
    /\ UNCHANGED <<queueVars, next, cell, state, pc, loc, result, calls, history>>

-----------------------------------------------------------------------------
(* The rest of a call that has begun. *)
PushStep(t) ==
    \/ PushIndex(t) \/ PushBlock(t) \/ PushFirst(t) \/ PushHeadBlock(t) \/ PushAdvance(t)
    \/ PushRetry(t) \/ PushInstall(t) \/ PushSkip(t) \/ PushLink(t) \/ PushWrite(t)

PopStep(t) ==
    \/ PopHead(t) \/ PopBlock(t) \/ PopTail(t) \/ PopClaim(t) \/ PopRetry(t)
    \/ PopWaitNext(t) \/ PopPeek(t) \/ PopMoveBlock(t) \/ PopMoveIndex(t)
    \/ PopRead(t) \/ PopMark(t) \/ PopDestroy(t) \/ PopFree(t)

DropStep == DropSlot \/ DropEnd

Next ==
    \/ \E t \in Pushers : PushStart(t) \/ PushStep(t)
    \/ \E t \in Poppers : PopStart(t) \/ PopStep(t)
    \/ Close \/ DropStart \/ DropStep

Spec == Init /\ [][Next]_vars

-----------------------------------------------------------------------------
(* The lock-free queue is a FIFO queue: its calls take effect one at a      *)
(* time, values come out once and in order, nothing enters a closed queue,  *)
(* and "empty" and "closed" are said only when that is so.                  *)
FifoKept == F!Spec

(* No thread touches a block after it was freed, nor frees it again, and    *)
(* the queue never points at one; the drop finds in each slot it empties a  *)
(* value written and not yet read, and frees every block that was left.     *)
Touched(t) ==
    CASE pc[t] \in {"install", "link", "write", "waitNext", "read", "mark", "destroy"} -> {loc[t].block}
      [] pc[t] = "peek" -> {loc[t].fresh}
      [] OTHER -> {}

MemorySafe ==
    /\ \A t \in Threads : Touched(t) \subseteq live
    /\ dropper.pc = "none" => {headBlock, tailBlock} \ {Null} \subseteq live
    /\ dropper.pc = "walk" /\ dropper.index # tail.index =>
          /\ dropper.block \in live
          /\ dropper.index % Lap < BlockCap =>
                 state[<<dropper.block, dropper.index % Lap>>] = {WRITE}
    /\ dropper.pc = "done" => live = {}

(* Whoever has to wait does so for a thread that need not wait for it: for  *)
(* the write of a value, for the first block, or for the next block in the  *)
(* tail, in the list or in the head.                                        *)
SomeoneAt(T, places) == \E t \in T : pc[t] \in places

WaitsForAnother ==
    /\ Offset(tail) = BlockCap => SomeoneAt(Pushers, {"install", "skip"})
    /\ Offset(head) = BlockCap =>
          SomeoneAt(Poppers, {"waitNext", "peek", "moveBlock", "moveIndex"})
    /\ headBlock = Null /\ tail.index > 0 => SomeoneAt(Pushers, {"headBlock"})
    /\ \A c \in Poppers :
          /\ pc[c] = "waitNext" /\ next[loc[c].block] = Null =>
                 \E p \in Pushers : /\ pc[p] \in {"install", "skip", "link"}
                                    /\ loc[p].block = loc[c].block
          /\ pc[c] = "read" /\ WRITE \notin state[Slot(c)] =>
                 \E p \in Pushers : /\ pc[p] \in {"install", "skip", "link", "write"}
                                    /\ Slot(p) = Slot(c)
=============================================================================
