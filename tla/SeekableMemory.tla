--------------------------- MODULE SeekableMemory ---------------------------
(***************************************************************************)
(* What a pseudo character device promises to the one program that uses    *)
(* it: a memory of fixed size seen through open files, each with a         *)
(* position.  Every call is one step.  A call that fails moves no position *)
(* and, unless it is a write whose user buffer was bad, changes nothing.   *)
(***************************************************************************)
EXTENDS Integers, Sequences

CONSTANTS
  Files,   \* open files on the device
  Bytes,   \* values of one byte
  Zero,    \* the byte the memory is filled with at first
  Size     \* bytes in the memory

VARIABLES
  mem,     \* the device's memory
  pos,     \* pos[f]: the position of file f
  result   \* what the last call returned, and the bytes it delivered

Cells == 0 .. Size - 1

Errors == {-22, -14, -12}

Outcome(ret, data) == [op |-> "idle", ret |-> ret, data |-> data]

Init ==
  /\ mem = [p \in Cells |-> Zero]
  /\ pos = [f \in Files |-> 0]
  /\ result = Outcome(0, <<>>)

Open == \E f \in Files :
  /\ pos' = [pos EXCEPT ![f] = 0]
  /\ UNCHANGED <<mem, result>>

(* A call works at p; it is the file's own position exactly if it moves it. *)
Moves(f, p, n) ==
  \/ p = pos[f] /\ pos' = [pos EXCEPT ![f] = p + n]
  \/ pos' = pos

Read == \E f \in Files, p \in 0 .. Size : \E n \in 0 .. Size - p :
  /\ Moves(f, p, n)
  /\ result' = Outcome(n, [i \in 1 .. n |-> mem[p + i - 1]])
  /\ mem' = mem

Write == \E f \in Files, p \in 0 .. Size, byte \in Bytes : \E n \in 1 .. Size - p :
  /\ Moves(f, p, n)
  /\ mem' = [q \in Cells |-> IF q \in p .. p + n - 1 THEN byte ELSE mem[q]]
  /\ result' = Outcome(n, <<>>)

Seek == \E f \in Files, p \in 0 .. Size :
  /\ pos' = [pos EXCEPT ![f] = p]
  /\ result' = Outcome(p, <<>>)
  /\ mem' = mem

Fail ==
  /\ \E e \in Errors : result' = Outcome(e, <<>>)
  /\ UNCHANGED <<mem, pos>>

(* The user's buffer ended early: the first bytes arrived, the others of    *)
(* the range are zero.                                                      *)
FailHalfway == \E p, q, r \in 0 .. Size, byte \in Bytes :
  /\ p <= q /\ q < r
  /\ mem' = [c \in Cells |-> IF c \in p .. q - 1 THEN byte
                             ELSE IF c \in q .. r - 1 THEN Zero ELSE mem[c]]
  /\ result' = Outcome(-14, <<>>)
  /\ pos' = pos

Next == Open \/ Read \/ Write \/ Seek \/ Fail \/ FailHalfway

Spec == Init /\ [][Next]_<<mem, pos, result>>
=============================================================================
