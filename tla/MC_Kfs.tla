------------------------------ MODULE MC_Kfs ------------------------------
(* A disk of one boot block, two inodes and three data blocks of two      *)
(* bytes.  File a (inode 0) is 3 bytes in data blocks 0 and 1; file b      *)
(* (inode 1) is 2 bytes in data block 2; name c has no dentry.           *)
EXTENDS Kfs, TLC

CONSTANTS n_a, n_b, n_c

MCInodes ==
  0 :> [byte_len |-> 3, blocks |-> (0 :> 0 @@ 1 :> 1)] @@
  1 :> [byte_len |-> 2, blocks |-> (0 :> 2 @@ 1 :> 0)]

\* A disk whose data blocks are zero: the writes store ones.
MCInitData == {[x \in DataBytes |-> 0]}

MCDir == n_a :> 0 @@ n_b :> 1

Call(op, arg, val) == [op |-> op, arg |-> arg, val |-> val]

\* Opens of all three names; reads of one byte and of more than a block, a
\* write of more than a block; SETPOS inside file a and past its end.
MCCalls ==
  {Call("open", x, 0) : x \in {n_a, n_b, n_c}}
  \cup {Call("read", n, 0) : n \in {1, 3}}
  \cup {Call("write", 3, 1)}
  \cup {Call("setpos", x, 0) : x \in {1, 4}}

\* Reads and writes of WORD - 1 bytes: a size_t that validate_vptr_len
\* accepts because start + len wraps past zero.
MCHugeCalls ==
  {Call("open", n_a, 0), Call("setpos", 1, 0), Call("read", 15, 0)}

ThreadSymmetry == Permutations(Threads)
=============================================================================
