--------------------------- MODULE SampleQueue ---------------------------
(***************************************************************************)
(* What the read-ahead buffer of an audio file promises: a bounded queue.  *)
(* The blocks of the file enter it in the order of the file, up to         *)
(* Capacity of them, and leave it in the order in which they entered.  The *)
(* file may be rewound at any moment, which touches no block that has been *)
(* read.                                                                   *)
(***************************************************************************)
EXTENDS Integers, Sequences

CONSTANTS Blocks,    \* number of blocks in the file
          Capacity   \* how many blocks are read ahead

VARIABLES queue,     \* the blocks that have been read and not been taken
          position,  \* the block that is read next
          last       \* the block taken last, -1 before the first

vars == <<queue, position, last>>

Init == /\ queue = << >>
        /\ position = 0
        /\ last = -1

Read == /\ position < Blocks
        /\ Len(queue) < Capacity
        /\ queue' = Append(queue, position)
        /\ position' = position + 1
        /\ UNCHANGED last

Take == /\ queue # << >>
        /\ last' = Head(queue)
        /\ queue' = Tail(queue)
        /\ UNCHANGED position

Rewind == /\ position' = 0
          /\ UNCHANGED <<queue, last>>

Next == Read \/ Take \/ Rewind
Spec == Init /\ [][Next]_vars
=============================================================================
