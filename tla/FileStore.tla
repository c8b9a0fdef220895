----------------------------- MODULE FileStore -----------------------------
(***************************************************************************)
(* What the file system promises its callers (spec 4.D): each file is a    *)
(* fixed-length byte array; an open-file slot holds a file and a position; *)
(* a read or write of n bytes takes effect at once, moves the position by  *)
(* the bytes it transfers, never past the end of the file, and a write     *)
(* never extends a file.  SETPOS beyond the end changes nothing.  Kfs is   *)
(* shown to implement this specification.                                  *)
(***************************************************************************)
EXTENDS Naturals

CONSTANTS Slots,      \* open-file slots
          Files,      \* inode numbers
          FLen,       \* FLen[f]: byte length of file f
          Vals,       \* byte values
          Counts,     \* byte counts callers pass to read and write
          Positions   \* positions callers pass to SETPOS

VARIABLES contents, handle
vars == <<contents, handle>>

Closed == [open |-> FALSE, file |-> 0, pos |-> 0]

Contents == {c \in [Files -> UNION {[0..(FLen[f] - 1) -> Vals] : f \in Files}] :
               \A f \in Files : DOMAIN c[f] = 0..(FLen[f] - 1)}

Init == /\ contents \in Contents
        /\ handle = [s \in Slots |-> Closed]

\* Bytes a transfer of n moves: none at or past the end, else up to the end.
Cnt(s, n) == LET h == handle[s] IN
             IF h.pos >= FLen[h.file] THEN 0
             ELSE IF n < FLen[h.file] - h.pos THEN n ELSE FLen[h.file] - h.pos

Open(s, f) == /\ ~handle[s].open
              /\ handle' = [handle EXCEPT ![s] = [open |-> TRUE, file |-> f, pos |-> 0]]
              /\ UNCHANGED contents

Close(s) == /\ handle[s].open
            /\ handle' = [handle EXCEPT ![s] = Closed]
            /\ UNCHANGED contents

Read(s, n) == /\ handle[s].open
              /\ handle' = [handle EXCEPT ![s].pos = @ + Cnt(s, n)]
              /\ UNCHANGED contents

Write(s, n, v) ==
  LET h == handle[s] IN
  /\ h.open
  /\ contents' = [contents EXCEPT ![h.file] =
                    [i \in DOMAIN @ |-> IF h.pos <= i /\ i < h.pos + Cnt(s, n)
                                          THEN v ELSE @[i]]]
  /\ handle' = [handle EXCEPT ![s].pos = @ + Cnt(s, n)]

SetPos(s, x) == /\ handle[s].open
                /\ x <= FLen[handle[s].file]
                /\ handle' = [handle EXCEPT ![s].pos = x]
                /\ UNCHANGED contents

Next == \E s \in Slots :
          \/ Close(s)
          \/ \E f \in Files : Open(s, f)
          \/ \E n \in Counts : Read(s, n) \/ \E v \in Vals : Write(s, n, v)
          \/ \E x \in Positions : SetPos(s, x)

Spec == Init /\ [][Next]_vars
=============================================================================
