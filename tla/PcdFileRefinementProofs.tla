---------------------- MODULE PcdFileRefinementProofs ----------------------
(***************************************************************************)
(* Proof that a device used by one thread implements SeekableMemory, for   *)
(* every size of the device, every number of files and all arguments.      *)
(***************************************************************************)
EXTENDS PcdFileRefinement, PcdFileProofs, SequenceTheorems

-----------------------------------------------------------------------------
(* The strengthening: what the call under way has done so far, seen from    *)
(* the memory before it.                                                    *)

(* memory with n bytes at p overwritten by byte *)
Overwritten(memory, p, n, byte) ==
  [q \in Device |-> IF q \in p .. p + n - 1 THEN byte ELSE memory[q]]

(* before is the present outside the driver, and its memory the present one *)
(* until a write has begun to copy.                                         *)
BeforeInv ==
  /\ before \in [mem : [Device -> Bytes], result : IdleCalls]
  /\ call[Sole].op = "idle" => before = Snapshot
  /\ call[Sole].op \in {"read", "seek", "tell"} => before.mem = buffer

(* What a read has copied is the beginning of its range. *)
ReadInv ==
  call[Sole].op = "read" =>
    /\ Len(call[Sole].data) <= call[Sole].len
    /\ \A i \in 1 .. Len(call[Sole].data) :
         call[Sole].data[i] = buffer[call[Sole].pos + i - 1]

(* A write has overwritten the beginning of its range and nothing else. *)
WriteInv ==
  call[Sole].op = "write" =>
    /\ call[Sole].len > 0 /\ call[Sole].done <= call[Sole].len
    /\ buffer = Overwritten(before.mem, call[Sole].pos, call[Sole].done, call[Sole].byte)

(* What a seek has stored stays until it returns. *)
TellInv == call[Sole].op = "tell" => f_pos[call[Sole].file] = call[Sole].target

HInv == IInv /\ BeforeInv /\ ReadInv /\ WriteInv /\ TellInv

(* The thread's results as the abstract memory shows them. *)
Shown == IF call[Sole].op = "tell" THEN Idle(call[Sole].target, <<>>) ELSE before.result

-----------------------------------------------------------------------------
(* The thread is the only one, and every file it uses is its own.           *)
LEMMA OnlySole ==
  /\ Sole \in Threads
  /\ \A t \in Threads : t = Sole
  /\ \A f : Private(f)
BY SoleAssumption DEF Private

(* A step is an open, a release, or one of the thread. *)
LEMMA StepKinds ==
  ASSUME Next
  PROVE  \/ \E f \in Files : pcd_release(f)
         \/ \E f \in Files, mode \in SUBSET {"READ", "WRITE"} : pcd_open(f, mode)
         \/ BeginRead(Sole) \/ BeginWrite(Sole) \/ BeginSeek(Sole)
         \/ copy_to_user(Sole) \/ copy_from_user(Sole)
         \/ ReadFault(Sole) \/ WriteFault(Sole)
         \/ ReadReturn(Sole) \/ WriteReturn(Sole)
         \/ SeekStore(Sole) \/ SeekReturn(Sole)
BY OnlySole DEF Next, OpenOrRelease, Continue

(* What a handler's entry may leave: an error, or a call that has done      *)
(* nothing yet; a write has something to do.                                *)
Fresh(c) ==
  \/ c \in {Idle(EINVAL, <<>>), Idle(EFAULT, <<>>), Idle(ENOMEM, <<>>)}
  \/ c.op = "read" /\ c.data = <<>>
  \/ c.op = "write" /\ c.done = 0 /\ c.len # 0
  \/ c.op = "seek"

(* Every way into the driver leaves the thread with a fresh call. *)
LEMMA CallFresh ==
  ASSUME TypeOK, BeginRead(Sole) \/ BeginWrite(Sole) \/ BeginSeek(Sole)
  PROVE  /\ call[Sole].op = "idle"
         /\ UNCHANGED <<buffer, f_pos, f_mode>>
         /\ Fresh(call'[Sole])
<1>0. \A c : call' = [call EXCEPT ![Sole] = c] => call'[Sole] = c
  BY OnlySole DEF TypeOK
<1>1. CASE BeginRead(Sole)
  <2>1. PICK f, own, pos, count : pcd_read(Sole, f, own, pos, count)
    BY <1>1 DEF BeginRead
  <2> DEFINE len == Clamp(pos, count)
             c == [op |-> "read", file |-> f, own |-> own, pos |-> pos,
                   len |-> len, data |-> <<>>]
  <2>2. call' = [call EXCEPT ![Sole] = IF len > CopyMax THEN Idle(EFAULT, <<>>) ELSE c]
    BY <2>1 DEF pcd_read
  <2>3. call'[Sole] \in {Idle(EFAULT, <<>>), c}
    BY <1>0, <2>2
  <2>4. Fresh(c) /\ Fresh(Idle(EFAULT, <<>>))
    BY DEF Fresh
  <2> QED BY <2>1, <2>3, <2>4 DEF pcd_read, Ready
<1>2. CASE BeginWrite(Sole)
  <2>1. PICK f, own, pos, count, byte : pcd_write(Sole, f, own, pos, count, byte)
    BY <1>2 DEF BeginWrite
  <2> DEFINE len == Clamp(pos, count)
             c == [op |-> "write", file |-> f, own |-> own, pos |-> pos,
                   len |-> len, byte |-> byte, done |-> 0]
  <2>2. call' = [call EXCEPT ![Sole] = IF len = 0 THEN Idle(ENOMEM, <<>>)
                                       ELSE IF len > CopyMax THEN Idle(EFAULT, <<>>) ELSE c]
    BY <2>1 DEF pcd_write
  <2>3. call'[Sole] \in {Idle(ENOMEM, <<>>), Idle(EFAULT, <<>>)} \/ (call'[Sole] = c /\ len # 0)
    BY <1>0, <2>2
  <2>4. Fresh(Idle(ENOMEM, <<>>)) /\ Fresh(Idle(EFAULT, <<>>)) /\ (len # 0 => Fresh(c))
    BY DEF Fresh
  <2> QED BY <2>1, <2>3, <2>4 DEF pcd_write, Ready
<1>3. CASE BeginSeek(Sole)
  <2>1. PICK f, whence, off : pcd_lseek(Sole, f, whence, off)
    BY <1>3 DEF BeginSeek
  <2> DEFINE temp == Wrap(Base(f, whence) + off)
             c == [op |-> "seek", file |-> f, target |-> temp]
  <2>2. call' = [call EXCEPT ![Sole] =
                   IF whence = "HOLE" \/ temp > Size \/ temp < 0 THEN Idle(EINVAL, <<>>) ELSE c]
    BY <2>1 DEF pcd_lseek
  <2>3. call'[Sole] \in {Idle(EINVAL, <<>>), c}
    BY <1>0, <2>2
  <2>4. Fresh(c) /\ Fresh(Idle(EINVAL, <<>>))
    BY DEF Fresh
  <2> QED BY <2>1, <2>3, <2>4 DEF pcd_lseek, Ready
<1> QED BY <1>1, <1>2, <1>3

(* The history variable after a step. *)
LEMMA BeforeNext ==
  ASSUME HNext
  PROVE  /\ call'[Sole].op = "idle" =>
              before'.mem = buffer' /\ before'.result = call'[Sole] /\ before' = Snapshot'
         /\ call'[Sole].op # "idle" => before' = before
BY DEF HNext, Snapshot

-----------------------------------------------------------------------------
(* Before the first call the memory and the result are the present ones. *)
LEMMA HInitInv == HInit => HInv
<1> SUFFICES ASSUME HInit
             PROVE  HInv
  OBVIOUS
<1>1. IInv /\ TypeOK /\ before = Snapshot
  BY InitIInv DEF HInit, IInv
<1>2. call[Sole] = Idle(0, <<>>) /\ call[Sole].op = "idle"
  BY OnlySole DEF HInit, Init, Idle
<1>3. call[Sole] \in IdleCalls /\ buffer \in [Device -> Bytes]
  BY <1>1, <1>2, OnlySole, CallType DEF TypeOK
<1> QED BY <1>1, <1>2, <1>3 DEF HInv, BeforeInv, ReadInv, WriteInv, TellInv, Snapshot

(* An end of a call, however it comes about, makes before the present.      *)
LEMMA CallEnds ==
  ASSUME IInv', HNext, call'[Sole].op = "idle"
  PROVE  HInv'
<1>1. before' = Snapshot'
  BY BeforeNext
<1>2. call'[Sole] \in IdleCalls /\ buffer' \in [Device -> Bytes]
  <2>1. TypeOK'
    BY DEF IInv
  <2> QED BY <2>1, OnlySole DEF TypeOK, IdleCalls, ReadCalls, WriteCalls, SeekCalls
<1>3. BeforeInv'
  BY <1>1, <1>2 DEF BeforeInv, Snapshot
<1> QED BY <1>3 DEF HInv, ReadInv, WriteInv, TellInv

(* Opens and releases do not touch the call under way: its file is open.    *)
LEMMA OpenKeepsHistory ==
  ASSUME HInv, IInv', HNext, NEW f \in Files,
         pcd_release(f) \/ \E mode \in SUBSET {"READ", "WRITE"} : pcd_open(f, mode)
  PROVE  HInv' /\ before' = before /\ call' = call /\ buffer' = buffer
<1>1. /\ call' = call /\ buffer' = buffer
      /\ f_pos' = f_pos \/ (f_mode[f] = {} /\ f_pos' = [f_pos EXCEPT ![f] = 0])
  BY DEF pcd_release, pcd_open
<1>2. before' = before
  BY <1>1, BeforeNext DEF HInv, BeforeInv, Snapshot
<1>3. BeforeInv' /\ ReadInv' /\ WriteInv'
  BY <1>1, <1>2 DEF HInv, BeforeInv, ReadInv, WriteInv, Snapshot
<1>4. TellInv'
  <2> SUFFICES ASSUME call[Sole].op = "tell"
               PROVE  f_pos'[call[Sole].file] = call[Sole].target
    BY <1>1 DEF TellInv
  <2>1. /\ call[Sole].file \in Files /\ f_mode[call[Sole].file] # {}
        /\ f_pos[call[Sole].file] = call[Sole].target /\ f_pos \in [Files -> Int]
    BY OnlySole, CallType DEF HInv, IInv, CallsHoldFiles, TellInv, TypeOK, SeekCalls
  <2> QED BY <1>1, <2>1
<1> QED BY <1>1, <1>2, <1>3, <1>4 DEF HInv

(* A call that begins has read and written nothing yet. *)
LEMMA BeginKeepsHistory ==
  ASSUME HInv, IInv', HNext, BeginRead(Sole) \/ BeginWrite(Sole) \/ BeginSeek(Sole)
  PROVE  HInv'
<1>1. /\ call[Sole].op = "idle" /\ UNCHANGED <<buffer, f_pos, f_mode>>
      /\ Fresh(call'[Sole]) /\ before = Snapshot
  BY CallFresh DEF HInv, IInv, BeforeInv
<1>2. CASE call'[Sole].op = "idle"
  BY <1>2, CallEnds
<1>3. CASE call'[Sole].op # "idle"
  <2>1. before' = before /\ before'.mem = buffer' /\ buffer' \in [Device -> Bytes]
    BY <1>1, <1>3, BeforeNext DEF Snapshot, HInv, IInv, TypeOK
  <2>2. BeforeInv'
    BY <1>3, <2>1 DEF HInv, BeforeInv
  <2>3. /\ call'[Sole].op = "read" => call'[Sole] \in ReadCalls /\ call'[Sole].data = <<>>
        /\ call'[Sole].op = "write" => /\ call'[Sole] \in WriteCalls
                                       /\ call'[Sole].done = 0 /\ call'[Sole].len # 0
        /\ call'[Sole].op # "tell"
    <3>1. TypeOK' /\ ~(call'[Sole].op = "idle")
      BY <1>3 DEF IInv
    <3>2. /\ call'[Sole].op = "read" => call'[Sole] \in ReadCalls
          /\ call'[Sole].op = "write" => call'[Sole] \in WriteCalls
      BY <3>1, OnlySole DEF TypeOK, IdleCalls, ReadCalls, WriteCalls, SeekCalls
    <3> QED BY <1>1, <1>3, <3>2 DEF Fresh, Idle
  <2>4. ReadInv'
    BY <2>3 DEF ReadInv, ReadCalls
  <2>5. WriteInv'
    <3> SUFFICES ASSUME call'[Sole].op = "write"
                 PROVE  /\ call'[Sole].len > 0 /\ call'[Sole].done <= call'[Sole].len
                        /\ buffer' = Overwritten(before'.mem, call'[Sole].pos, call'[Sole].done,
                                                 call'[Sole].byte)
      BY DEF WriteInv, Overwritten
    <3>1. /\ call'[Sole].pos \in Nat /\ call'[Sole].len \in Nat
          /\ call'[Sole].len # 0 /\ call'[Sole].done = 0
      BY <2>3 DEF WriteCalls
    <3>2. call'[Sole].pos .. call'[Sole].pos + 0 - 1 = {}
      BY <3>1
    <3>3. Overwritten(before'.mem, call'[Sole].pos, 0, call'[Sole].byte) = before'.mem
      BY <2>1, <3>2 DEF Overwritten
    <3> QED BY <2>1, <3>1, <3>3
  <2>6. TellInv'
    BY <2>3 DEF TellInv
  <2> QED BY <2>2, <2>4, <2>5, <2>6 DEF HInv
<1> QED BY <1>2, <1>3

(* A byte that is copied to the user is the next of the range. *)
LEMMA ReadKeepsHistory ==
  ASSUME HInv, IInv', HNext, copy_to_user(Sole)
  PROVE  HInv' /\ before' = before /\ call'[Sole].op = "read"
<1> DEFINE c == call[Sole]
           d == Append(c.data, buffer[c.pos + Len(c.data)])
<1>1. c \in ReadCalls /\ c.op = "read" /\ Len(c.data) < c.len /\ TypeOK
  BY OnlySole, CallType DEF copy_to_user, HInv, IInv
<1>2. call'[Sole] = [c EXCEPT !.data = d] /\ buffer' = buffer
  BY <1>1, OnlySole DEF copy_to_user, TypeOK
<1>3. /\ call'[Sole].op = "read" /\ call'[Sole].data = d
      /\ call'[Sole].pos = c.pos /\ call'[Sole].len = c.len
  BY <1>1, <1>2 DEF ReadCalls
<1>4. before' = before
  BY <1>3, BeforeNext
<1>5. BeforeInv'
  BY <1>1, <1>2, <1>3, <1>4 DEF HInv, BeforeInv
<1>6. ReadInv'
  <2>1. /\ c.pos \in Nat /\ c.len \in Nat /\ c.data \in Seq(Bytes) /\ Len(c.data) \in Nat
        /\ buffer[c.pos + Len(c.data)] \in Bytes
    <3>1. c.pos \in Nat /\ c.len \in Nat /\ c.data \in Seq(Bytes) /\ Len(c.data) \in Nat
      BY <1>1 DEF ReadCalls
    <3>2. c.pos + c.len <= Size
      BY <1>1, OnlySole DEF HInv, IInv, TransferInDevice
    <3>3. \A x, y, z \in Nat : y < z /\ x + z <= Size => x + y \in Device
      BY SizeAssumption DEF Device
    <3>4. c.pos + Len(c.data) \in Device
      BY <1>1, <3>1, <3>2, <3>3
    <3> QED BY <1>1, <3>1, <3>4 DEF TypeOK
  <2>2. /\ Len(d) = Len(c.data) + 1
        /\ \A i \in 1 .. Len(c.data) : d[i] = c.data[i]
        /\ d[Len(c.data) + 1] = buffer[c.pos + Len(c.data)]
    BY <2>1
  <2>3. \A i \in 1 .. Len(c.data) : c.data[i] = buffer[c.pos + i - 1]
    BY <1>1 DEF HInv, ReadInv
  <2> HIDE DEF d, c
  <2>4. \A i \in 1 .. Len(d) : d[i] = buffer[c.pos + i - 1]
    <3> SUFFICES ASSUME NEW i \in 1 .. Len(d)
                 PROVE  d[i] = buffer[c.pos + i - 1]
      OBVIOUS
    <3>1. CASE i = Len(c.data) + 1
      <4>1. c.pos + i - 1 = c.pos + Len(c.data)
        BY <2>1, <3>1
      <4> QED BY <2>2, <3>1, <4>1
    <3>2. CASE i # Len(c.data) + 1
      <4>1. i \in 1 .. Len(c.data)
        BY <2>1, <2>2, <3>2
      <4> QED BY <2>2, <2>3, <4>1
    <3> QED BY <3>1, <3>2
  <2>5. Len(d) <= c.len
    BY <1>1, <2>1, <2>2
  <2> QED BY <1>2, <1>3, <2>4, <2>5 DEF ReadInv
<1>7. WriteInv' /\ TellInv'
  BY <1>3 DEF WriteInv, TellInv
<1> QED BY <1>3, <1>4, <1>5, <1>6, <1>7 DEF HInv

(* A byte that is copied from the user is the next of the range. *)
LEMMA WriteKeepsHistory ==
  ASSUME HInv, IInv', HNext, copy_from_user(Sole)
  PROVE  HInv' /\ before' = before /\ call'[Sole].op = "write"
<1> DEFINE c == call[Sole]
<1>1. c \in WriteCalls /\ c.op = "write" /\ c.done < c.len /\ TypeOK
  BY OnlySole, CallType DEF copy_from_user, HInv, IInv
<1>2. /\ call'[Sole] = [c EXCEPT !.done = @ + 1]
      /\ buffer' = [buffer EXCEPT ![c.pos + c.done] = c.byte]
  BY <1>1, OnlySole DEF copy_from_user, TypeOK
<1>3. /\ call'[Sole].op = "write" /\ call'[Sole].done = c.done + 1
      /\ call'[Sole].pos = c.pos /\ call'[Sole].len = c.len /\ call'[Sole].byte = c.byte
  BY <1>1, <1>2 DEF WriteCalls
<1>4. before' = before
  BY <1>3, BeforeNext
<1>5. BeforeInv'
  BY <1>3, <1>4 DEF HInv, BeforeInv
<1>6. WriteInv'
  <2>1. c.pos \in Nat /\ c.len \in Nat /\ c.done \in Nat
    BY <1>1 DEF WriteCalls
  <2>2. buffer = Overwritten(before.mem, c.pos, c.done, c.byte) /\ c.len > 0
    BY <1>1 DEF HInv, WriteInv
  <2> HIDE DEF c
  <2>3. \A q \in Device : q \in c.pos .. c.pos + (c.done + 1) - 1
                            <=> q \in c.pos .. c.pos + c.done - 1 \/ q = c.pos + c.done
    BY <2>1, SizeAssumption DEF Device
  <2>4. buffer' = [q \in Device |-> IF q = c.pos + c.done THEN c.byte ELSE buffer[q]]
    BY <1>2, <2>2 DEF Overwritten
  <2>5. buffer' = Overwritten(before.mem, c.pos, c.done + 1, c.byte)
    <3>1. ASSUME NEW q \in Device
          PROVE  (IF q = c.pos + c.done THEN c.byte ELSE buffer[q])
                   = IF q \in c.pos .. c.pos + (c.done + 1) - 1 THEN c.byte ELSE before.mem[q]
      <4>1. buffer[q] = IF q \in c.pos .. c.pos + c.done - 1 THEN c.byte ELSE before.mem[q]
        BY <2>2 DEF Overwritten
      <4> QED BY <2>3, <4>1, Zenon
    <3> QED BY <2>4, <3>1, Zenon DEF Overwritten
  <2>6. c.done + 1 <= c.len
    BY <1>1, <2>1
  <2> QED BY <1>3, <1>4, <2>2, <2>5, <2>6 DEF WriteInv, Overwritten
<1>7. ReadInv' /\ TellInv'
  BY <1>3 DEF ReadInv, TellInv
<1> QED BY <1>3, <1>4, <1>5, <1>6, <1>7 DEF HInv

(* A seek that stores leaves the memory, and its target as the position. *)
LEMMA StoreKeepsHistory ==
  ASSUME HInv, IInv', HNext, SeekStore(Sole)
  PROVE  HInv' /\ before' = before
<1> DEFINE c == call[Sole]
<1>1. c \in SeekCalls /\ c.op = "seek" /\ TypeOK /\ c.file \in Files
  BY OnlySole, CallType DEF SeekStore, HInv, IInv, SeekCalls
<1>2. /\ call'[Sole] = [c EXCEPT !.op = "tell"] /\ buffer' = buffer
      /\ f_pos' = [f_pos EXCEPT ![c.file] = c.target]
  BY <1>1, OnlySole DEF SeekStore, TypeOK
<1>3. call'[Sole].op = "tell" /\ call'[Sole].file = c.file /\ call'[Sole].target = c.target
  BY <1>1, <1>2 DEF SeekCalls
<1>4. before' = before
  BY <1>3, BeforeNext
<1>5. BeforeInv' /\ ReadInv' /\ WriteInv'
  BY <1>1, <1>2, <1>3, <1>4 DEF HInv, BeforeInv, ReadInv, WriteInv
<1>6. TellInv'
  BY <1>1, <1>2, <1>3 DEF TellInv, TypeOK
<1> QED BY <1>4, <1>5, <1>6 DEF HInv

-----------------------------------------------------------------------------
(* Every step keeps the strengthening. *)
LEMMA HNextInv == HInv /\ IInv' /\ [HNext]_hvars => HInv'
<1> SUFFICES ASSUME HInv, IInv', [HNext]_hvars
             PROVE  HInv'
  OBVIOUS
<1>1. CASE UNCHANGED hvars
  BY <1>1 DEF hvars, HInv, BeforeInv, ReadInv, WriteInv, TellInv, Snapshot
<1>2. CASE HNext
  <2>1. CASE \/ ReadFault(Sole) \/ WriteFault(Sole) \/ ReadReturn(Sole) \/ WriteReturn(Sole)
             \/ SeekReturn(Sole)
    <3>1. \E ret, data : call'[Sole] = Idle(ret, data)
      BY <2>1, OnlySole
      DEF ReadFault, WriteFault, ReadReturn, WriteReturn, SeekReturn, HInv, IInv, TypeOK
    <3> QED BY <1>2, <3>1, CallEnds DEF Idle
  <2> QED
    BY <1>2, <2>1, StepKinds, OpenKeepsHistory, BeginKeepsHistory, ReadKeepsHistory,
       WriteKeepsHistory, StoreKeepsHistory
    DEF HNext
<1> QED BY <1>1, <1>2

(* The strengthening holds of every behaviour with its history. *)
LEMMA HistoryInvariant == HSpec => []HInv
<1>1. IInv /\ [HNext]_hvars => IInv'
  <2>1. [HNext]_hvars => [Next]_vars
    BY DEF HNext, hvars, vars
  <2> QED BY <2>1, NextIInv
<1>2. HInv => IInv
  BY DEF HInv
<1> QED BY <1>1, <1>2, HInitInv, HNextInv, PTL DEF HSpec

-----------------------------------------------------------------------------
(* The abstract memory sees nothing of a step. *)
Unseen == UNCHANGED <<before.mem, f_pos, Shown>>

(* An end of a call shows the memory and the result of now. *)
LEMMA EndShows ==
  ASSUME HNext, call'[Sole].op = "idle"
  PROVE  before'.mem = buffer' /\ Shown' = call'[Sole]
BY BeforeNext DEF Shown

(* The memory starts zeroed, with every position at its start. *)
LEMMA HInitRefines == HInit => SM!Init
<1> SUFFICES ASSUME HInit
             PROVE  SM!Init
  OBVIOUS
<1>1. call[Sole] = Idle(0, <<>>) /\ before.mem = buffer /\ before.result = call[Sole]
  BY OnlySole DEF HInit, Init, Snapshot
<1>2. call[Sole].op = "idle"
  BY <1>1 DEF Idle
<1> QED BY <1>1, <1>2 DEF HInit, Init, SM!Init, SM!Outcome, SM!Cells, Device, Idle

(* An open is an open, a release is not seen. *)
LEMMA OpenRefines ==
  ASSUME HInv, IInv', HNext, NEW f \in Files,
         pcd_release(f) \/ \E mode \in SUBSET {"READ", "WRITE"} : pcd_open(f, mode)
  PROVE  SM!Next \/ Unseen
<1>1. before' = before /\ Shown' = Shown
  BY OpenKeepsHistory DEF Shown
<1>2. CASE pcd_release(f)
  BY <1>1, <1>2 DEF Unseen, pcd_release
<1>3. CASE f_pos' = [f_pos EXCEPT ![f] = 0]
  <2>1. SM!Open
    BY <1>1, <1>3 DEF SM!Open, Shown
  <2> QED BY <2>1 DEF SM!Next
<1> QED BY <1>2, <1>3 DEF pcd_open

(* An error that leaves the memory and the positions is a failure of the    *)
(* abstract memory.                                                         *)
LEMMA ErrorFails ==
  ASSUME HNext, call'[Sole] \in {Idle(EINVAL, <<>>), Idle(EFAULT, <<>>), Idle(ENOMEM, <<>>)},
         before.mem = buffer, UNCHANGED <<buffer, f_pos>>
  PROVE  SM!Next
<1>1. call'[Sole].op = "idle"
  BY DEF Idle
<1>2. before'.mem = before.mem /\ Shown' = call'[Sole]
  BY <1>1, EndShows
<1>3. \E e \in SM!Errors : Shown' = SM!Outcome(e, <<>>)
  BY <1>2 DEF SM!Errors, SM!Outcome, Idle, EINVAL, EFAULT, ENOMEM
<1>4. SM!Fail
  BY <1>2, <1>3 DEF SM!Fail, Shown
<1> QED BY <1>4 DEF SM!Next

(* A call that begins is not seen, or fails at once. *)
LEMMA BeginRefines ==
  ASSUME HInv, IInv', HNext, BeginRead(Sole) \/ BeginWrite(Sole) \/ BeginSeek(Sole)
  PROVE  SM!Next \/ Unseen
<1>1. /\ call[Sole].op = "idle" /\ UNCHANGED <<buffer, f_pos, f_mode>>
      /\ Fresh(call'[Sole]) /\ before = Snapshot
  BY CallFresh DEF HInv, IInv, BeforeInv
<1>2. CASE call'[Sole].op = "idle"
  <2>1. call'[Sole] \in {Idle(EINVAL, <<>>), Idle(EFAULT, <<>>), Idle(ENOMEM, <<>>)}
    BY <1>1, <1>2 DEF Fresh
  <2> QED BY <1>1, <2>1, ErrorFails DEF Snapshot
<1>3. CASE call'[Sole].op # "idle"
  <2>1. before' = before
    BY <1>3, BeforeNext
  <2>2. call'[Sole].op # "tell"
    BY <1>1, <1>3 DEF Fresh, Idle
  <2> QED BY <1>1, <2>1, <2>2 DEF Unseen, Shown
<1> QED BY <1>2, <1>3

(* A read that returns has read what the memory holds in its range, at once. *)
LEMMA ReadRefines ==
  ASSUME HInv, IInv', HNext, ReadReturn(Sole)
  PROVE  SM!Next
<1> DEFINE c == call[Sole]
<1>1. /\ c \in ReadCalls /\ c.op = "read" /\ Len(c.data) = c.len /\ TypeOK
      /\ before.mem = buffer
  BY OnlySole, CallType DEF ReadReturn, HInv, IInv, BeforeInv
<1>2. /\ call'[Sole] = Idle(c.len, c.data) /\ buffer' = buffer /\ f_pos' = Advanced(c)
  BY <1>1, OnlySole DEF ReadReturn, TypeOK
<1>3. before'.mem = before.mem /\ Shown' = Idle(c.len, c.data)
  BY <1>1, <1>2, EndShows DEF Idle
<1>4. /\ c.file \in Files /\ c.pos \in Nat /\ c.len \in Nat /\ c.data \in Seq(Bytes)
      /\ c.pos + c.len <= Size
      /\ c.own => f_pos[c.file] = c.pos
  BY <1>1, OnlySole DEF ReadCalls, HInv, IInv, TransferInDevice, PrivateUnmoved
<1>5. c.pos \in 0 .. Size /\ c.len \in 0 .. Size - c.pos
  BY <1>4, SizeAssumption
<1>6. c.data = [i \in 1 .. c.len |-> before.mem[c.pos + i - 1]]
  <2>1. \A i \in 1 .. c.len : c.data[i] = before.mem[c.pos + i - 1]
    BY <1>1 DEF HInv, ReadInv
  <2>2. c.data = [i \in 1 .. c.len |-> c.data[i]]
    BY <1>1, <1>4, LenProperties
  <2> QED BY <2>1, <2>2
<1>7. SM!Moves(c.file, c.pos, c.len)
  BY <1>2, <1>4 DEF SM!Moves, Advanced
<1> HIDE DEF c
<1>8. SM!Read
  BY <1>3, <1>4, <1>5, <1>6, <1>7 DEF SM!Read, SM!Outcome, Idle, Shown
<1> QED BY <1>8 DEF SM!Next

(* A write that returns has overwritten its range, at once. *)
LEMMA WriteRefines ==
  ASSUME HInv, IInv', HNext, WriteReturn(Sole)
  PROVE  SM!Next
<1> DEFINE c == call[Sole]
<1>1. /\ c \in WriteCalls /\ c.op = "write" /\ c.done = c.len /\ TypeOK
      /\ c.len > 0 /\ buffer = Overwritten(before.mem, c.pos, c.len, c.byte)
  BY OnlySole, CallType DEF WriteReturn, HInv, IInv, WriteInv
<1>2. /\ call'[Sole] = Idle(c.len, <<>>) /\ buffer' = buffer /\ f_pos' = Advanced(c)
  BY <1>1, OnlySole DEF WriteReturn, TypeOK
<1>3. before'.mem = buffer /\ Shown' = Idle(c.len, <<>>)
  BY <1>2, EndShows DEF Idle
<1>4. /\ c.file \in Files /\ c.pos \in Nat /\ c.len \in Nat /\ c.byte \in Bytes
      /\ c.pos + c.len <= Size
      /\ c.own => f_pos[c.file] = c.pos
  BY <1>1, OnlySole DEF WriteCalls, HInv, IInv, TransferInDevice, PrivateUnmoved
<1>5. c.pos \in 0 .. Size /\ c.len \in 1 .. Size - c.pos
  BY <1>1, <1>4, SizeAssumption
<1>6. SM!Moves(c.file, c.pos, c.len)
  BY <1>2, <1>4 DEF SM!Moves, Advanced
<1> HIDE DEF c
<1>7. SM!Write
  BY <1>1, <1>3, <1>4, <1>5, <1>6
  DEF SM!Write, SM!Outcome, SM!Cells, Device, Overwritten, Idle, Shown
<1> QED BY <1>7 DEF SM!Next

(* A write that faults has written the beginning of its range and cleared   *)
(* the rest.                                                                *)
LEMMA WriteFaultRefines ==
  ASSUME HInv, IInv', HNext, WriteFault(Sole)
  PROVE  SM!Next
<1> DEFINE c == call[Sole]
<1>1. /\ c \in WriteCalls /\ c.op = "write" /\ c.done < c.len /\ TypeOK
      /\ buffer = Overwritten(before.mem, c.pos, c.done, c.byte)
  BY OnlySole, CallType DEF WriteFault, HInv, IInv, WriteInv
<1>2. /\ call'[Sole] = Idle(EFAULT, <<>>) /\ f_pos' = f_pos
      /\ buffer' = [p \in Device |-> IF p \in c.pos + c.done .. c.pos + c.len - 1
                                     THEN Zero ELSE buffer[p]]
  BY <1>1, OnlySole DEF WriteFault, TypeOK
<1>3. before'.mem = buffer' /\ Shown' = Idle(EFAULT, <<>>)
  BY <1>2, EndShows DEF Idle
<1>4. /\ c.pos \in Nat /\ c.len \in Nat /\ c.done \in Nat /\ c.byte \in Bytes
      /\ c.pos + c.len <= Size
  BY <1>1, OnlySole DEF WriteCalls, HInv, IInv, TransferInDevice
<1> HIDE DEF c
<1> DEFINE mid == c.pos + c.done
           end == c.pos + c.len
<1>5. /\ c.pos \in 0 .. Size /\ mid \in 0 .. Size /\ end \in 0 .. Size
      /\ c.pos <= mid /\ mid < end
  BY <1>1, <1>4, SizeAssumption
<1>6. c.pos + c.done - 1 = mid - 1 /\ c.pos + c.len - 1 = end - 1
  BY <1>4
<1> HIDE DEF mid, end
<1>7. buffer' = [x \in Device |-> IF x \in c.pos .. mid - 1 THEN c.byte
                                  ELSE IF x \in mid .. end - 1 THEN Zero ELSE before.mem[x]]
  <2>1. ASSUME NEW x \in Device
        PROVE  (IF x \in mid .. end - 1 THEN Zero ELSE buffer[x])
                 = IF x \in c.pos .. mid - 1 THEN c.byte
                   ELSE IF x \in mid .. end - 1 THEN Zero ELSE before.mem[x]
    <3>1. buffer[x] = IF x \in c.pos .. mid - 1 THEN c.byte ELSE before.mem[x]
      BY <1>1, <1>6, Zenon DEF Overwritten
    <3>2. ~(x \in mid .. end - 1 /\ x \in c.pos .. mid - 1)
      BY <1>5
    <3> QED BY <3>1, <3>2, Zenon
  <2>2. buffer' = [x \in Device |-> IF x \in mid .. end - 1 THEN Zero ELSE buffer[x]]
    BY <1>2, <1>6, Zenon DEF mid
  <2> QED BY <2>1, <2>2, Zenon
<1>8. Shown' = SM!Outcome(-14, <<>>)
  BY <1>3 DEF SM!Outcome, Idle, EFAULT
<1>9. SM!FailHalfway
  <2> SUFFICES \E p, x, y \in 0 .. Size, byte \in Bytes :
                 /\ p <= x /\ x < y
                 /\ buffer' = [d \in Device |-> IF d \in p .. x - 1 THEN byte
                                                ELSE IF d \in x .. y - 1 THEN Zero
                                                ELSE before.mem[d]]
    BY <1>2, <1>3, <1>8 DEF SM!FailHalfway, SM!Cells, Device, Shown
  <2>1. c.byte \in Bytes
    BY <1>4
  <2> QED BY <1>5, <1>7, <2>1, Zenon
<1> QED BY <1>9 DEF SM!Next

(* A seek takes effect when it stores. *)
LEMMA SeekRefines ==
  ASSUME HInv, IInv', HNext, SeekStore(Sole)
  PROVE  SM!Next
<1> DEFINE c == call[Sole]
<1>1. /\ c \in SeekCalls /\ c.op = "seek" /\ TypeOK /\ c.file \in Files
      /\ c.target \in 0 .. Size
  BY OnlySole, CallType DEF SeekStore, HInv, IInv, SeekCalls, PositionInDevice
<1>2. /\ call'[Sole] = [c EXCEPT !.op = "tell"]
      /\ f_pos' = [f_pos EXCEPT ![c.file] = c.target]
  BY <1>1, OnlySole DEF SeekStore, TypeOK
<1>3. call'[Sole].op = "tell" /\ call'[Sole].target = c.target
  BY <1>1, <1>2 DEF SeekCalls
<1>4. before' = before /\ Shown' = Idle(c.target, <<>>)
  BY <1>3, StoreKeepsHistory DEF Shown
<1> HIDE DEF c
<1>5. SM!Seek
  BY <1>1, <1>2, <1>4 DEF SM!Seek, SM!Outcome, Idle, Shown
<1> QED BY <1>5 DEF SM!Next

(* What a seek returns is what it has stored. *)
LEMMA TellRefines ==
  ASSUME HInv, IInv', HNext, SeekReturn(Sole)
  PROVE  Unseen
<1>1. /\ call[Sole].op = "tell" /\ before.mem = buffer
      /\ f_pos[call[Sole].file] = call[Sole].target
  BY DEF SeekReturn, HInv, BeforeInv, TellInv
<1>2. /\ call'[Sole] = Idle(call[Sole].target, <<>>)
      /\ UNCHANGED <<buffer, f_pos>>
  BY <1>1, OnlySole DEF SeekReturn, HInv, IInv, TypeOK
<1>3. before'.mem = before.mem /\ Shown' = Shown
  BY <1>1, <1>2, EndShows DEF Idle, Shown
<1> QED BY <1>2, <1>3 DEF Unseen

(* The copy of a byte is not seen. *)
LEMMA CopyRefines ==
  ASSUME HInv, IInv', HNext, copy_to_user(Sole) \/ copy_from_user(Sole)
  PROVE  Unseen
<1>1. before' = before /\ call'[Sole].op \in {"read", "write"} /\ f_pos' = f_pos
  BY ReadKeepsHistory, WriteKeepsHistory DEF copy_to_user, copy_from_user
<1>2. call[Sole].op \in {"read", "write"}
  BY DEF copy_to_user, copy_from_user
<1> QED BY <1>1, <1>2 DEF Unseen, Shown

(* The file operations of pcd.c and pcd_drv.c, called by one thread through *)
(* any number of files, behave as atomic reads, writes and seeks, for every *)
(* size of the device and wherever a user buffer ends.                      *)
THEOREM ActsAtomically == HSpec => ImplementsMemory
<1>1. HInv /\ IInv' /\ [HNext]_hvars
        => [SM!Next]_<<before.mem, f_pos,
                       IF call[Sole].op = "tell" THEN Idle(call[Sole].target, <<>>)
                       ELSE before.result>>
  <2> SUFFICES ASSUME HInv, IInv', [HNext]_hvars
               PROVE  SM!Next \/ Unseen
    BY DEF Unseen, Shown
  <2>1. CASE UNCHANGED hvars
    BY <2>1 DEF hvars, Unseen, Shown
  <2>2. CASE HNext /\ ReadFault(Sole)
    <3>1. call'[Sole] = Idle(EFAULT, <<>>) /\ UNCHANGED <<buffer, f_pos>> /\ before.mem = buffer
      BY <2>2, OnlySole DEF ReadFault, HInv, IInv, TypeOK, BeforeInv
    <3> QED BY <2>2, <3>1, ErrorFails
  <2>3. CASE HNext
    BY <2>2, <2>3, StepKinds, OpenRefines, BeginRefines, ReadRefines, WriteRefines,
       WriteFaultRefines, SeekRefines, TellRefines, CopyRefines
    DEF HNext
  <2> QED BY <2>1, <2>3
<1>2. HInv => IInv
  BY DEF HInv
<1> QED BY <1>1, <1>2, HInitRefines, HistoryInvariant, PTL DEF HSpec, ImplementsMemory, SM!Spec
=============================================================================
