---------------------------- MODULE BlockDevice ----------------------------
(***************************************************************************)
(* What the block device's I/O handle promises its callers (spec 4.A and   *)
(* 4.C): a byte array of SIZE bytes with one seek position, on which each  *)
(* read, write and SETPOS call takes effect at once.  A read or write of n *)
(* bytes moves the position by min(n, SIZE - pos); a write stores its      *)
(* bytes over [pos, pos + that count); SETPOS beyond SIZE changes nothing. *)
(* The driver module Vioblk is shown to implement this specification.      *)
(***************************************************************************)
EXTENDS Naturals

CONSTANTS SIZE,   \* device size in bytes
          Vals,   \* the byte values the model distinguishes
          Calls   \* the calls callers make: [op, arg, val] records

VARIABLES disk, pos
vars == <<disk, pos>>

Bytes == 0..(SIZE - 1)

Count(n) == IF n < SIZE - pos THEN n ELSE SIZE - pos

Init == /\ disk \in [Bytes -> Vals]
        /\ pos = 0

SetPos(x) == /\ x <= SIZE
             /\ pos' = x
             /\ UNCHANGED disk

Read(n) == /\ pos' = pos + Count(n)
           /\ UNCHANGED disk

Write(n, v) == /\ disk' = [i \in Bytes |->
                             IF pos <= i /\ i < pos + Count(n) THEN v ELSE disk[i]]
               /\ pos' = pos + Count(n)

Next == \E c \in Calls :
          \/ c.op = "setpos" /\ SetPos(c.arg)
          \/ c.op = "read"   /\ Read(c.arg)
          \/ c.op = "write"  /\ Write(c.arg, c.val)

Spec == Init /\ [][Next]_vars
=============================================================================
