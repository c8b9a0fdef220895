------------------------------ MODULE MC_Vioblk ------------------------------
(* Model-checking instance of Vioblk: two threads, a 4-byte device of two  *)
(* 2-byte blocks, so that reads and writes start mid-block, cross a block  *)
(* boundary and run into the end of the device.                            *)
EXTENDS Vioblk, TLC

\* The two threads run the same code: swapping them is a symmetry.
ThreadSymmetry == Permutations(Threads)

\* SETPOS inside, at and beyond the end; reads and writes of one byte, and of
\* three bytes (crossing a block boundary and, from position 3, the end).
MCCalls ==
  {[op |-> "setpos", arg |-> x, val |-> 0] : x \in {0, 1, 3, 5}}
  \cup {[op |-> "getpos", arg |-> 0, val |-> 0]}
  \cup {[op |-> "read", arg |-> n, val |-> 0] : n \in {1, 3}}
  \cup {[op |-> "write", arg |-> n, val |-> v] : n \in {1, 3}, v \in {0, 1}}

\* Reads only: no write can reach the end of the device.
MCReadCalls ==
  {[op |-> "setpos", arg |-> x, val |-> 0] : x \in {0, 1}}
  \cup {[op |-> "read", arg |-> n, val |-> 0] : n \in {1, 3}}
=============================================================================
