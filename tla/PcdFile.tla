------------------------------ MODULE PcdFile ------------------------------
(***************************************************************************)
(* The file operations of the pseudo character devices: pcd_lseek,         *)
(* pcd_read, pcd_write, pcd_open and pcd_release of pcd.c (one device) and *)
(* pcd_drv.c (four devices that differ in memory and permission; one of    *)
(* them is modelled, Perm being its pcdev_data[i].perm).                   *)
(*                                                                         *)
(* The drivers take no lock, and the kernel does not serialise the calls   *)
(* made on one open character file.  A call is therefore several steps:    *)
(*   - read and write get a copy of the file's position, work on the copy  *)
(*     and the kernel stores the copy back when the call has succeeded;    *)
(*   - the bytes cross copy_to_user / copy_from_user one at a time;        *)
(*   - lseek loads, stores and reloads filp->f_pos itself.                 *)
(* pread and pwrite hand the handler a position of the caller's own.       *)
(* What a byte is worth to its user and the log lines are left out.        *)
(***************************************************************************)
EXTENDS Integers, Sequences

CONSTANTS
  Threads,    \* threads that call into the driver
  Files,      \* open-file slots (struct file) on the device
  Bytes,      \* values of one byte
  Zero,       \* the byte value 0
  Size,       \* DEV_MEM_SIZE / pcdev_data->size
  LoffMax,    \* largest loff_t; size_t has twice its range
  CopyMax,    \* INT_MAX, the largest copy the user-copy functions accept
  Perm,       \* "RDONLY", "WRONLY" or "RDWR"
  Uses,       \* Uses[t]: the files thread t holds a descriptor of
  Calls,      \* Calls[t]: the kinds of call thread t makes
  Faulty,     \* threads whose user buffer may be unmapped in part
  Counts,     \* lengths asked for
  Offsets,    \* offsets given to lseek
  Positions   \* positions given to pread and pwrite

Kinds == {"read", "pread", "write", "pwrite", "seek"}
Device == 0 .. Size - 1
ULongs == 2 * (LoffMax + 1)

ASSUME SizeAssumption ==
  /\ Size \in Nat /\ CopyMax \in Nat /\ LoffMax \in Nat
  /\ Size <= CopyMax /\ CopyMax <= LoffMax
ASSUME ByteAssumption == Zero \in Bytes
ASSUME PermAssumption == Perm \in {"RDONLY", "WRONLY", "RDWR"}
ASSUME UsesAssumption == Uses \in [Threads -> SUBSET Files]
ASSUME CallsAssumption == Calls \in [Threads -> SUBSET Kinds]
ASSUME ArgumentAssumption ==
  /\ Counts \subseteq 0 .. CopyMax
  /\ Offsets \subseteq -(LoffMax + 1) .. LoffMax
  /\ Positions \subseteq 0 .. LoffMax

VARIABLES
  buffer,   \* device_buffer / pcdev_data->buffer
  f_pos,    \* f_pos[f]: filp->f_pos
  f_mode,   \* f_mode[f]: FMODE_READ and FMODE_WRITE of f; {} when not open
  call      \* call[t]: the call thread t is in, or the result of its last one

vars == <<buffer, f_pos, f_mode, call>>

EPERM  == -1
ENOMEM == -12
EFAULT == -14
EINVAL == -22

Idle(ret, data) == [op |-> "idle", ret |-> ret, data |-> data]

IdleCalls == [op : {"idle"}, ret : Int, data : Seq(Bytes)]
ReadCalls == [op : {"read"}, file : Files, own : BOOLEAN, pos : Nat, len : Nat,
              data : Seq(Bytes)]
WriteCalls == [op : {"write"}, file : Files, own : BOOLEAN, pos : Nat, len : Nat,
               byte : Bytes, done : Nat]
SeekCalls == [op : {"seek", "tell"}, file : Files, target : Int]

-----------------------------------------------------------------------------
(* C arithmetic.  The kernel is built with -fno-strict-overflow: loff_t      *)
(* wraps.  *f_pos + count mixes loff_t and size_t and is unsigned.           *)

Wrap(x) == IF x > LoffMax THEN x - ULongs
           ELSE IF x < -(LoffMax + 1) THEN x + ULongs ELSE x

ULong(x) == IF x < 0 THEN x + ULongs ELSE x

(* Mutants: the clamp lets a call reach one byte too far; it computes       *)
(* signed; it keeps the last byte out of reach.                             *)
ClampTooFar(pos, count) ==
  IF ULong(pos) + count > Size + 1 THEN ULong(Size - pos) ELSE count
ClampSigned(pos, count) == IF pos + count > Size THEN Size - pos ELSE count
ClampShort(pos, count) ==
  IF ULong(pos) + count >= Size THEN ULong(Size - 1 - pos) ELSE count

(* The length that is left of count at position pos. *)
Clamp(pos, count) == IF ULong(pos) + count > Size THEN ULong(Size - pos) ELSE count

(* Mutant: FMODE_WRITE is not looked at. *)
check_permissionLoose(perm, mode) ==
  IF perm = "RDWR" \/ "READ" \in mode THEN 0 ELSE EPERM

check_permission(perm, mode) ==
  IF \/ perm = "RDWR"
     \/ perm = "RDONLY" /\ mode = {"READ"}
     \/ perm = "WRONLY" /\ mode = {"READ"}
  THEN 0 ELSE EPERM

-----------------------------------------------------------------------------
Init ==
  /\ buffer = [p \in Device |-> Zero]
  /\ f_pos = [f \in Files |-> 0]
  /\ f_mode = [f \in Files |-> {}]
  /\ call = [t \in Threads |-> Idle(0, <<>>)]

(* Thread t may start a call of this kind on file f. *)
Ready(t, f, kind) ==
  /\ call[t].op = "idle"
  /\ f \in Uses[t] /\ kind \in Calls[t]
  /\ f_mode[f] # {}

pcd_open(f, mode) ==
  /\ f_mode[f] = {}
  /\ check_permission(Perm, mode) = 0
  /\ f_mode' = [f_mode EXCEPT ![f] = mode]
  /\ f_pos' = [f_pos EXCEPT ![f] = 0]
  /\ UNCHANGED <<buffer, call>>

(* The last reference to the file goes away: no call holds one. *)
pcd_release(f) ==
  /\ f_mode[f] # {}
  /\ \A t \in Threads : call[t].op # "idle" => call[t].file # f
  /\ f_mode' = [f_mode EXCEPT ![f] = {}]
  /\ UNCHANGED <<buffer, f_pos, call>>

(* What the kernel checks before it hands a position and a length over. *)
Accepted(pos, count) == 0 <= pos /\ pos + count <= LoffMax

pcd_read(t, f, own, pos, count) ==
  /\ Ready(t, f, IF own THEN "read" ELSE "pread")
  /\ "READ" \in f_mode[f]
  /\ Accepted(pos, count)
  /\ LET len == Clamp(pos, count)
     IN call' = [call EXCEPT ![t] =
                   IF len > CopyMax
                   THEN Idle(EFAULT, <<>>)
                   ELSE [op |-> "read", file |-> f, own |-> own, pos |-> pos,
                         len |-> len, data |-> <<>>]]
  /\ UNCHANGED <<buffer, f_pos, f_mode>>

pcd_write(t, f, own, pos, count, byte) ==
  /\ Ready(t, f, IF own THEN "write" ELSE "pwrite")
  /\ "WRITE" \in f_mode[f]
  /\ Accepted(pos, count)
  /\ LET len == Clamp(pos, count)
     IN call' = [call EXCEPT ![t] =
                   IF len = 0 THEN Idle(ENOMEM, <<>>)
                   ELSE IF len > CopyMax THEN Idle(EFAULT, <<>>)
                   ELSE [op |-> "write", file |-> f, own |-> own, pos |-> pos,
                         len |-> len, byte |-> byte, done |-> 0]]
  /\ UNCHANGED <<buffer, f_pos, f_mode>>

copy_to_user(t) ==
  /\ call[t].op = "read"
  /\ Len(call[t].data) < call[t].len
  /\ call' = [call EXCEPT ![t].data =
                Append(@, buffer[call[t].pos + Len(call[t].data)])]
  /\ UNCHANGED <<buffer, f_pos, f_mode>>

copy_from_user(t) ==
  /\ call[t].op = "write"
  /\ call[t].done < call[t].len
  /\ buffer' = [buffer EXCEPT ![call[t].pos + call[t].done] = call[t].byte]
  /\ call' = [call EXCEPT ![t].done = @ + 1]
  /\ UNCHANGED <<f_pos, f_mode>>

(* Mutants: the position moves before the copy is known to have succeeded. *)
ReadFaultMoves(t) ==
  /\ t \in Faulty
  /\ call[t].op = "read"
  /\ Len(call[t].data) < call[t].len
  /\ f_pos' = [f_pos EXCEPT ![call[t].file] = call[t].pos + call[t].len]
  /\ call' = [call EXCEPT ![t] = Idle(EFAULT, <<>>)]
  /\ UNCHANGED <<buffer, f_mode>>

WriteFaultMoves(t) ==
  /\ t \in Faulty
  /\ call[t].op = "write"
  /\ call[t].done < call[t].len
  /\ f_pos' = [f_pos EXCEPT ![call[t].file] = call[t].pos + call[t].len]
  /\ call' = [call EXCEPT ![t] = Idle(EFAULT, <<>>)]
  /\ UNCHANGED <<buffer, f_mode>>

(* The user's buffer ends here.  copy_from_user clears what it could not    *)
(* fill; both handlers return before they move the position.                *)
ReadFault(t) ==
  /\ t \in Faulty
  /\ call[t].op = "read"
  /\ Len(call[t].data) < call[t].len
  /\ call' = [call EXCEPT ![t] = Idle(EFAULT, <<>>)]
  /\ UNCHANGED <<buffer, f_pos, f_mode>>

WriteFault(t) ==
  /\ t \in Faulty
  /\ call[t].op = "write"
  /\ call[t].done < call[t].len
  /\ buffer' = [p \in Device |->
                  IF p \in call[t].pos + call[t].done .. call[t].pos + call[t].len - 1
                  THEN Zero ELSE buffer[p]]
  /\ call' = [call EXCEPT ![t] = Idle(EFAULT, <<>>)]
  /\ UNCHANGED <<f_pos, f_mode>>

(* Mutant: filp->f_pos += count, in a pread or pwrite as well. *)
AdvancedThroughFile(c) == [f_pos EXCEPT ![c.file] = IF c.own THEN c.pos + c.len ELSE @ + c.len]

(* *f_pos += count, which the kernel stores back into the file it came from. *)
Advanced(c) == IF c.own THEN [f_pos EXCEPT ![c.file] = c.pos + c.len] ELSE f_pos

ReadReturn(t) ==
  /\ call[t].op = "read"
  /\ Len(call[t].data) = call[t].len
  /\ f_pos' = Advanced(call[t])
  /\ call' = [call EXCEPT ![t] = Idle(call[t].len, call[t].data)]
  /\ UNCHANGED <<buffer, f_mode>>

WriteReturn(t) ==
  /\ call[t].op = "write"
  /\ call[t].done = call[t].len
  /\ f_pos' = Advanced(call[t])
  /\ call' = [call EXCEPT ![t] = Idle(call[t].len, <<>>)]
  /\ UNCHANGED <<buffer, f_mode>>

(* lseek: where the file would be after it.  "HOLE" stands for every whence *)
(* the switch has no case for.                                              *)
Base(f, whence) == CASE whence = "SET" -> 0
                     [] whence = "CUR" -> f_pos[f]
                     [] OTHER -> Size

(* Mutant: temp < 0 is not tested. *)
pcd_lseekNegative(t, f, whence, off) ==
  /\ Ready(t, f, "seek")
  /\ LET temp == Wrap(Base(f, whence) + off)
     IN call' = [call EXCEPT ![t] =
                   IF whence = "HOLE" \/ temp > Size THEN Idle(EINVAL, <<>>)
                   ELSE [op |-> "seek", file |-> f, target |-> temp]]
  /\ UNCHANGED <<buffer, f_pos, f_mode>>

pcd_lseek(t, f, whence, off) ==
  /\ Ready(t, f, "seek")
  /\ LET temp == Wrap(Base(f, whence) + off)
     IN call' = [call EXCEPT ![t] =
                   IF whence = "HOLE" \/ temp > Size \/ temp < 0
                   THEN Idle(EINVAL, <<>>)
                   ELSE [op |-> "seek", file |-> f, target |-> temp]]
  /\ UNCHANGED <<buffer, f_pos, f_mode>>

SeekStore(t) ==
  /\ call[t].op = "seek"
  /\ f_pos' = [f_pos EXCEPT ![call[t].file] = call[t].target]
  /\ call' = [call EXCEPT ![t].op = "tell"]
  /\ UNCHANGED <<buffer, f_mode>>

(* return filp->f_pos: whatever the position is by now. *)
SeekReturn(t) ==
  /\ call[t].op = "tell"
  /\ call' = [call EXCEPT ![t] = Idle(f_pos[call[t].file], <<>>)]
  /\ UNCHANGED <<buffer, f_pos, f_mode>>

-----------------------------------------------------------------------------
BeginRead(t) == \E f \in Files, count \in Counts :
  \/ pcd_read(t, f, TRUE, f_pos[f], count)
  \/ \E pos \in Positions : pcd_read(t, f, FALSE, pos, count)

BeginWrite(t) == \E f \in Files, count \in Counts, byte \in Bytes :
  \/ pcd_write(t, f, TRUE, f_pos[f], count, byte)
  \/ \E pos \in Positions : pcd_write(t, f, FALSE, pos, count, byte)

BeginSeek(t) == \E f \in Files, whence \in {"SET", "CUR", "END", "HOLE"}, off \in Offsets :
  pcd_lseek(t, f, whence, off)

(* A call that has begun goes on: the thread is in the kernel. *)
Continue(t) ==
  \/ copy_to_user(t) \/ copy_from_user(t)
  \/ ReadFault(t) \/ WriteFault(t)
  \/ ReadReturn(t) \/ WriteReturn(t)
  \/ SeekStore(t) \/ SeekReturn(t)

OpenOrRelease ==
  \E f \in Files : \/ \E mode \in (SUBSET {"READ", "WRITE"}) \ {{}} : pcd_open(f, mode)
                   \/ pcd_release(f)

Next ==
  \/ OpenOrRelease
  \/ \E t \in Threads : BeginRead(t) \/ BeginWrite(t) \/ BeginSeek(t) \/ Continue(t)

Spec == Init /\ [][Next]_vars

(* A call that has begun ends, and a thread that reads goes on reading.     *)
FairSpec ==
  /\ Spec
  /\ \A t \in Threads : WF_vars(Continue(t)) /\ WF_vars(BeginRead(t))

-----------------------------------------------------------------------------
(* The variables hold values of the code's types. *)
TypeOK ==
  /\ buffer \in [Device -> Bytes]
  /\ f_pos \in [Files -> Int]
  /\ f_mode \in [Files -> SUBSET {"READ", "WRITE"}]
  /\ call \in [Threads -> IdleCalls \cup ReadCalls \cup WriteCalls \cup SeekCalls]

(* pcd_lseek reads filp->f_pos, checks it and stores it in three unlocked   *)
(* steps, and read and write overwrite it from a stale copy: however the    *)
(* calls on a file interleave, its position stays within the device (the    *)
(* end included), and so does the one a seek is about to store.             *)
PositionInDevice ==
  /\ \A f \in Files : f_pos[f] \in 0 .. Size
  /\ \A t \in Threads : call[t].op \in {"seek", "tell"} => call[t].target \in 0 .. Size

(* The clamp of pcd_read and pcd_write computes in unsigned arithmetic and  *)
(* underflows for a pread or pwrite behind the end: every byte a call will  *)
(* touch is nevertheless a byte of the device's memory.                     *)
TransferInDevice ==
  \A t \in Threads : call[t].op \in {"read", "write"} =>
                       call[t].pos + call[t].len <= Size

(* File f is used by one thread only. *)
Private(f) == \A t, u \in Threads : f \in Uses[t] /\ f \in Uses[u] => t = u

(* The step in which a read or a write of thread t returns. *)
TransferReturns(t) == call[t].op \in {"read", "write"} /\ call'[t].op = "idle"

(* On a file that one thread uses, a read or write that succeeds moves the  *)
(* position by exactly what it returns from where the position was when the *)
(* call began; a failed one, a pread and a pwrite do not move it.  It holds *)
(* whatever the other threads do to the device and to their own files.      *)
MovesFromStart == [][
  \A t \in Threads : TransferReturns(t) /\ Private(call[t].file) =>
    LET c == call[t]
        ret == call'[t].ret
    IN f_pos'[c.file] = IF ~c.own THEN f_pos[c.file]
                        ELSE IF ret < 0 THEN c.pos ELSE c.pos + ret ]_vars

(* A device of permission RDONLY keeps its memory: no open file, however it *)
(* was opened, lets a write reach copy_from_user.                           *)
ReadOnlyMemory == [][Perm = "RDONLY" => UNCHANGED buffer]_vars

(* pcd_drv.c calls the permission 0x10 WRONLY: nobody reads such a device.  *)
WriteOnlyHonoured == Perm = "WRONLY" => \A t \in Threads : call[t].op # "read"

(* Threads that share an open file overwrite each other's position with     *)
(* stale copies.  Readers that go on reading a file that stays open for     *)
(* reading still reach the end of the device and stay there: no two of them *)
(* can throw each other back forever.                                       *)
EventuallyAtEnd ==
  \A f \in Files : <>[]("READ" \in f_mode[f]) => <>[](f_pos[f] = Size)
=============================================================================
