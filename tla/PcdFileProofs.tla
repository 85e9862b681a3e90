--------------------------- MODULE PcdFileProofs ---------------------------
(***************************************************************************)
(* Proofs about PcdFile, for every number of threads and files, every size *)
(* of the device and every choice of calls and arguments.                  *)
(***************************************************************************)
EXTENDS PcdFile, TLAPS

AllCallTypes == IdleCalls \cup ReadCalls \cup WriteCalls \cup SeekCalls

(* What pcd_read and pcd_write are left with after the clamp is a length,   *)
(* and if the copy functions take it, it ends within the device.            *)
LEMMA ClampBounds ==
  ASSUME NEW pos \in Int, NEW count \in Counts, Accepted(pos, count)
  PROVE  /\ pos \in Nat
         /\ Clamp(pos, count) \in Nat
         /\ Clamp(pos, count) <= CopyMax => pos + Clamp(pos, count) <= Size
BY SizeAssumption, ArgumentAssumption DEF Accepted, Clamp, ULong, ULongs

(* The target pcd_lseek computes is an integer. *)
LEMMA TargetIsInt ==
  ASSUME TypeOK, NEW f \in Files, NEW whence, NEW off \in Offsets
  PROVE  Wrap(Base(f, whence) + off) \in Int
<1>1. Base(f, whence) \in Int
  BY SizeAssumption DEF TypeOK, Base
<1>2. off \in Int
  BY ArgumentAssumption, SizeAssumption
<1> QED BY <1>1, <1>2, SizeAssumption DEF Wrap, ULongs

-----------------------------------------------------------------------------
(* A beginning read leaves thread t idle with an error or in a ReadCalls.   *)
LEMMA ReadBegins ==
  ASSUME TypeOK, NEW t \in Threads, NEW f \in Files, NEW own \in BOOLEAN,
         NEW pos \in Int, NEW count \in Counts, pcd_read(t, f, own, pos, count)
  PROVE  /\ UNCHANGED <<buffer, f_pos, f_mode>>
         /\ f \in Uses[t] /\ f_mode[f] # {} /\ "READ" \in f_mode[f]
         /\ pos \in Nat
         /\ \E c \in AllCallTypes :
              /\ call' = [call EXCEPT ![t] = c]
              /\ \/ c.op = "idle"
                 \/ /\ c \in ReadCalls /\ c.op = "read" /\ c.file = f /\ c.own = own
                    /\ c.pos = pos /\ pos + c.len <= Size
<1> DEFINE len == Clamp(pos, count)
<1>1. /\ Accepted(pos, count)
      /\ f \in Uses[t] /\ f_mode[f] # {} /\ "READ" \in f_mode[f]
      /\ UNCHANGED <<buffer, f_pos, f_mode>>
  BY DEF pcd_read, Ready
<1>2. pos \in Nat /\ len \in Nat /\ (len <= CopyMax => pos + len <= Size)
  BY <1>1, ClampBounds
<1>3. CASE len > CopyMax
  <2>1. call' = [call EXCEPT ![t] = Idle(EFAULT, <<>>)]
    BY <1>3 DEF pcd_read
  <2>2. Idle(EFAULT, <<>>) \in IdleCalls /\ Idle(EFAULT, <<>>).op = "idle"
    BY DEF Idle, IdleCalls, EFAULT
  <2> QED BY <1>1, <1>2, <2>1, <2>2 DEF AllCallTypes
<1>4. CASE ~(len > CopyMax)
  <2> DEFINE c == [op |-> "read", file |-> f, own |-> own, pos |-> pos,
                   len |-> len, data |-> <<>>]
  <2>1. call' = [call EXCEPT ![t] = c]
    BY <1>4 DEF pcd_read
  <2>2. c \in ReadCalls
    BY <1>2 DEF ReadCalls
  <2>3. c.op = "read" /\ c.file = f /\ c.own = own /\ c.pos = pos /\ c.len = len
    OBVIOUS
  <2>4. pos + c.len <= Size
    BY <1>2, <1>4, <2>3, SizeAssumption
  <2> QED BY <1>1, <1>2, <2>1, <2>2, <2>3, <2>4 DEF AllCallTypes
<1> QED BY <1>3, <1>4

(* A beginning write leaves thread t idle with an error or in a WriteCalls. *)
LEMMA WriteBegins ==
  ASSUME TypeOK, NEW t \in Threads, NEW f \in Files, NEW own \in BOOLEAN,
         NEW pos \in Int, NEW count \in Counts, NEW byte \in Bytes,
         pcd_write(t, f, own, pos, count, byte)
  PROVE  /\ UNCHANGED <<buffer, f_pos, f_mode>>
         /\ f \in Uses[t] /\ f_mode[f] # {} /\ "WRITE" \in f_mode[f]
         /\ pos \in Nat
         /\ \E c \in AllCallTypes :
              /\ call' = [call EXCEPT ![t] = c]
              /\ \/ c.op = "idle"
                 \/ /\ c \in WriteCalls /\ c.op = "write" /\ c.file = f /\ c.own = own
                    /\ c.pos = pos /\ pos + c.len <= Size
<1> DEFINE len == Clamp(pos, count)
<1>1. /\ Accepted(pos, count)
      /\ f \in Uses[t] /\ f_mode[f] # {} /\ "WRITE" \in f_mode[f]
      /\ UNCHANGED <<buffer, f_pos, f_mode>>
  BY DEF pcd_write, Ready
<1>2. pos \in Nat /\ len \in Nat /\ (len <= CopyMax => pos + len <= Size)
  BY <1>1, ClampBounds
<1>3. CASE len = 0 \/ len > CopyMax
  <2>1. \E e \in {ENOMEM, EFAULT} : call' = [call EXCEPT ![t] = Idle(e, <<>>)]
    BY <1>3 DEF pcd_write
  <2>2. \A e \in {ENOMEM, EFAULT} : Idle(e, <<>>) \in IdleCalls /\ Idle(e, <<>>).op = "idle"
    BY DEF Idle, IdleCalls, EFAULT, ENOMEM
  <2> QED BY <1>1, <1>2, <2>1, <2>2 DEF AllCallTypes
<1>4. CASE ~(len = 0 \/ len > CopyMax)
  <2> DEFINE c == [op |-> "write", file |-> f, own |-> own, pos |-> pos,
                   len |-> len, byte |-> byte, done |-> 0]
  <2>1. call' = [call EXCEPT ![t] = c]
    BY <1>4 DEF pcd_write
  <2>2. c \in WriteCalls
    BY <1>2 DEF WriteCalls
  <2>3. c.op = "write" /\ c.file = f /\ c.own = own /\ c.pos = pos /\ c.len = len
    OBVIOUS
  <2>4. pos + c.len <= Size
    BY <1>2, <1>4, <2>3, SizeAssumption
  <2> QED BY <1>1, <1>2, <2>1, <2>2, <2>3, <2>4 DEF AllCallTypes
<1> QED BY <1>3, <1>4

(* A beginning seek leaves thread t idle or about to store a checked target. *)
LEMMA SeekBegins ==
  ASSUME TypeOK, NEW t \in Threads, NEW f \in Files, NEW whence, NEW off \in Offsets,
         pcd_lseek(t, f, whence, off)
  PROVE  /\ UNCHANGED <<buffer, f_pos, f_mode>>
         /\ f \in Uses[t] /\ f_mode[f] # {}
         /\ \E c \in AllCallTypes :
              /\ call' = [call EXCEPT ![t] = c]
              /\ \/ c.op = "idle"
                 \/ /\ c \in SeekCalls /\ c.op = "seek" /\ c.file = f
                    /\ c.target \in 0 .. Size
<1> DEFINE temp == Wrap(Base(f, whence) + off)
           bad == whence = "HOLE" \/ temp > Size \/ temp < 0
<1>1. f \in Uses[t] /\ f_mode[f] # {} /\ UNCHANGED <<buffer, f_pos, f_mode>>
  BY DEF pcd_lseek, Ready
<1>2. temp \in Int
  BY TargetIsInt
<1>3. CASE bad
  <2>1. call' = [call EXCEPT ![t] = Idle(EINVAL, <<>>)]
    BY <1>3 DEF pcd_lseek
  <2>2. Idle(EINVAL, <<>>) \in IdleCalls /\ Idle(EINVAL, <<>>).op = "idle"
    BY DEF Idle, IdleCalls, EINVAL
  <2> QED BY <1>1, <2>1, <2>2 DEF AllCallTypes
<1>4. CASE ~bad
  <2> DEFINE c == [op |-> "seek", file |-> f, target |-> temp]
  <2>1. call' = [call EXCEPT ![t] = c]
    BY <1>4 DEF pcd_lseek
  <2>2. c \in SeekCalls /\ c.op = "seek" /\ c.file = f /\ c.target = temp
    BY <1>2 DEF SeekCalls
  <2>3. temp \in 0 .. Size
    BY <1>2, <1>4, SizeAssumption
  <2> QED BY <1>1, <2>1, <2>2, <2>3 DEF AllCallTypes
<1> QED BY <1>3, <1>4

-----------------------------------------------------------------------------
(* What thread t may be in after its step into the driver: c is its result  *)
(* or a call whose range or target has been checked against the device.     *)
Began(t, c) ==
  \/ c \in IdleCalls /\ c.op = "idle"
  \/ /\ c \in ReadCalls \cup WriteCalls /\ c.op \in {"read", "write"}
     /\ c.file \in Uses[t] /\ f_mode[c.file] # {}
     /\ c.op = "write" => "WRITE" \in f_mode[c.file]
     /\ c.own => c.pos = f_pos[c.file]
     /\ c.pos + c.len <= Size
  \/ /\ c \in SeekCalls /\ c.op = "seek"
     /\ c.file \in Uses[t] /\ f_mode[c.file] # {}
     /\ c.target \in 0 .. Size

(* Every way into the driver leaves thread t in a call that has begun well, *)
(* and nothing else changed.                                                *)
LEMMA CallBegins ==
  ASSUME TypeOK, NEW t \in Threads, BeginRead(t) \/ BeginWrite(t) \/ BeginSeek(t)
  PROVE  /\ UNCHANGED <<buffer, f_pos, f_mode>>
         /\ \E c \in AllCallTypes : call' = [call EXCEPT ![t] = c] /\ Began(t, c)
<1>0. \A f \in Files : f_pos[f] \in Int
  BY DEF TypeOK
<1>1. \A c \in AllCallTypes : c.op = "idle" => c \in IdleCalls
  BY DEF AllCallTypes, IdleCalls, ReadCalls, WriteCalls, SeekCalls
<1>2. CASE BeginRead(t)
  <2>1. PICK f \in Files, own \in BOOLEAN, pos \in Int, count \in Counts :
          pcd_read(t, f, own, pos, count) /\ (own => pos = f_pos[f])
    <3>1. PICK f \in Files, count \in Counts :
            \/ pcd_read(t, f, TRUE, f_pos[f], count)
            \/ \E pos \in Positions : pcd_read(t, f, FALSE, pos, count)
      BY <1>2 DEF BeginRead
    <3>2. CASE pcd_read(t, f, TRUE, f_pos[f], count)
      BY <1>0, <3>2
    <3>3. ASSUME NEW pos \in Positions, pcd_read(t, f, FALSE, pos, count)
          PROVE  pos \in Int /\ (FALSE => pos = f_pos[f])
      BY ArgumentAssumption, SizeAssumption
    <3> QED BY <3>1, <3>2, <3>3
  <2>2. PICK c \in AllCallTypes :
          /\ call' = [call EXCEPT ![t] = c]
          /\ \/ c.op = "idle"
             \/ /\ c \in ReadCalls /\ c.op = "read" /\ c.file = f /\ c.own = own
                /\ c.pos = pos /\ pos + c.len <= Size
    BY <2>1, ReadBegins
  <2>3. UNCHANGED <<buffer, f_pos, f_mode>> /\ f \in Uses[t] /\ f_mode[f] # {}
    BY <2>1, ReadBegins
  <2>4. Began(t, c)
    BY <2>1, <2>2, <2>3, <1>1 DEF Began
  <2> QED BY <2>2, <2>3, <2>4
<1>3. CASE BeginWrite(t)
  <2>1. PICK f \in Files, own \in BOOLEAN, pos \in Int, count \in Counts, byte \in Bytes :
          pcd_write(t, f, own, pos, count, byte) /\ (own => pos = f_pos[f])
    <3>1. PICK f \in Files, count \in Counts, byte \in Bytes :
            \/ pcd_write(t, f, TRUE, f_pos[f], count, byte)
            \/ \E pos \in Positions : pcd_write(t, f, FALSE, pos, count, byte)
      BY <1>3 DEF BeginWrite
    <3>2. CASE pcd_write(t, f, TRUE, f_pos[f], count, byte)
      BY <1>0, <3>2
    <3>3. ASSUME NEW pos \in Positions, pcd_write(t, f, FALSE, pos, count, byte)
          PROVE  pos \in Int /\ (FALSE => pos = f_pos[f])
      BY ArgumentAssumption, SizeAssumption
    <3> QED BY <3>1, <3>2, <3>3
  <2>2. PICK c \in AllCallTypes :
          /\ call' = [call EXCEPT ![t] = c]
          /\ \/ c.op = "idle"
             \/ /\ c \in WriteCalls /\ c.op = "write" /\ c.file = f /\ c.own = own
                /\ c.pos = pos /\ pos + c.len <= Size
    BY <2>1, WriteBegins
  <2>3. /\ UNCHANGED <<buffer, f_pos, f_mode>>
        /\ f \in Uses[t] /\ f_mode[f] # {} /\ "WRITE" \in f_mode[f]
    BY <2>1, WriteBegins
  <2>4. Began(t, c)
    BY <2>1, <2>2, <2>3, <1>1 DEF Began
  <2> QED BY <2>2, <2>3, <2>4
<1>4. CASE BeginSeek(t)
  <2>1. PICK f \in Files, whence \in {"SET", "CUR", "END", "HOLE"}, off \in Offsets :
          pcd_lseek(t, f, whence, off)
    BY <1>4 DEF BeginSeek
  <2>2. PICK c \in AllCallTypes :
          /\ call' = [call EXCEPT ![t] = c]
          /\ \/ c.op = "idle"
             \/ /\ c \in SeekCalls /\ c.op = "seek" /\ c.file = f
                /\ c.target \in 0 .. Size
    BY <2>1, SeekBegins
  <2>3. UNCHANGED <<buffer, f_pos, f_mode>> /\ f \in Uses[t] /\ f_mode[f] # {}
    BY <2>1, SeekBegins
  <2>4. Began(t, c)
    BY <2>2, <2>3, <1>1 DEF Began
  <2> QED BY <2>2, <2>3, <2>4
<1> QED BY <1>2, <1>3, <1>4

(* A thread's call is of the type its op says. *)
LEMMA CallType ==
  ASSUME TypeOK, NEW t \in Threads
  PROVE  /\ call[t].op = "idle" => call[t] \in IdleCalls
         /\ call[t].op = "read" => call[t] \in ReadCalls
         /\ call[t].op = "write" => call[t] \in WriteCalls
         /\ call[t].op \in {"seek", "tell"} => call[t] \in SeekCalls
BY DEF TypeOK, IdleCalls, ReadCalls, WriteCalls, SeekCalls

-----------------------------------------------------------------------------
(* Every step keeps the types; a copy needs TransferInDevice for its index. *)
LEMMA TypeStep == TypeOK /\ TransferInDevice /\ [Next]_vars => TypeOK'
<1> SUFFICES ASSUME TypeOK, TransferInDevice, [Next]_vars PROVE TypeOK'
  OBVIOUS
<1>1. ASSUME NEW f \in Files, NEW mode \in SUBSET {"READ", "WRITE"}, pcd_open(f, mode)
      PROVE  TypeOK'
  BY <1>1 DEF TypeOK, pcd_open
<1>2. ASSUME NEW f \in Files, pcd_release(f) PROVE TypeOK'
  BY <1>2 DEF TypeOK, pcd_release
<1>3. ASSUME NEW t \in Threads, BeginRead(t) \/ BeginWrite(t) \/ BeginSeek(t)
      PROVE  TypeOK'
  BY <1>3, CallBegins DEF TypeOK, AllCallTypes
<1>4. ASSUME NEW t \in Threads, copy_to_user(t) PROVE TypeOK'
  <2> DEFINE p == call[t].pos + Len(call[t].data)
             c == [call[t] EXCEPT !.data = Append(@, buffer[p])]
  <2>1. call[t] \in ReadCalls
    BY <1>4, CallType DEF copy_to_user
  <2>2. p \in Device
    <3>1. call[t].pos \in Nat /\ call[t].len \in Nat /\ Len(call[t].data) \in Nat
      BY <2>1 DEF ReadCalls
    <3>2. Len(call[t].data) < call[t].len /\ call[t].pos + call[t].len <= Size
      BY <1>4 DEF copy_to_user, TransferInDevice
    <3>3. \A x, y, z \in Nat : y < z /\ x + z <= Size => x + y \in 0 .. Size - 1
      BY SizeAssumption
    <3> QED BY <3>1, <3>2, <3>3 DEF Device
  <2>3. c \in ReadCalls
    <3>1. buffer[p] \in Bytes /\ call[t].data \in Seq(Bytes)
      BY <2>1, <2>2 DEF TypeOK, ReadCalls
    <3>2. Append(call[t].data, buffer[p]) \in Seq(Bytes)
      BY <3>1
    <3> QED BY <2>1, <3>2 DEF ReadCalls
  <2>4. call' = [call EXCEPT ![t] = c] /\ UNCHANGED <<buffer, f_pos, f_mode>>
    BY <1>4 DEF copy_to_user
  <2> QED BY <2>3, <2>4 DEF TypeOK
<1>5. ASSUME NEW t \in Threads, copy_from_user(t) PROVE TypeOK'
  <2> DEFINE c == [call[t] EXCEPT !.done = @ + 1]
  <2>1. call[t] \in WriteCalls
    BY <1>5, CallType DEF copy_from_user
  <2>2. c \in WriteCalls
    BY <2>1 DEF WriteCalls
  <2>3. /\ call' = [call EXCEPT ![t] = c] /\ UNCHANGED <<f_pos, f_mode>>
        /\ buffer' = [buffer EXCEPT ![call[t].pos + call[t].done] = call[t].byte]
    BY <1>5 DEF copy_from_user
  <2>4. call[t].byte \in Bytes
    BY <2>1 DEF WriteCalls
  <2> QED BY <2>2, <2>3, <2>4 DEF TypeOK
<1>6. ASSUME NEW t \in Threads, ReadFault(t) \/ WriteFault(t) PROVE TypeOK'
  <2>1. Idle(EFAULT, <<>>) \in IdleCalls
    BY DEF Idle, IdleCalls, EFAULT
  <2> QED BY <1>6, <2>1, ByteAssumption DEF TypeOK, ReadFault, WriteFault
<1>7. ASSUME NEW t \in Threads, ReadReturn(t) \/ WriteReturn(t) PROVE TypeOK'
  <2>1. call[t] \in ReadCalls \cup WriteCalls
    BY <1>7, CallType DEF ReadReturn, WriteReturn
  <2>2. Advanced(call[t]) \in [Files -> Int]
    BY <2>1 DEF TypeOK, Advanced, ReadCalls, WriteCalls
  <2>3. PICK data \in Seq(Bytes) : call' = [call EXCEPT ![t] = Idle(call[t].len, data)]
    <3>1. CASE ReadReturn(t)
      BY <3>1, CallType DEF ReadReturn, ReadCalls
    <3>2. <<>> \in Seq(Bytes)
      OBVIOUS
    <3>3. CASE WriteReturn(t)
      BY <3>2, <3>3 DEF WriteReturn
    <3> QED BY <1>7, <3>1, <3>3
  <2>4. Idle(call[t].len, data) \in IdleCalls
    BY <2>1 DEF Idle, IdleCalls, ReadCalls, WriteCalls
  <2> QED BY <1>7, <2>2, <2>3, <2>4 DEF TypeOK, ReadReturn, WriteReturn
<1>8. ASSUME NEW t \in Threads, SeekStore(t) PROVE TypeOK'
  <2>1. call[t] \in SeekCalls
    BY <1>8, CallType DEF SeekStore
  <2>2. [call[t] EXCEPT !.op = "tell"] \in SeekCalls
    BY <2>1 DEF SeekCalls
  <2>3. call[t].target \in Int
    BY <2>1 DEF SeekCalls
  <2> QED BY <1>8, <2>2, <2>3 DEF TypeOK, SeekStore
<1>9. ASSUME NEW t \in Threads, SeekReturn(t) PROVE TypeOK'
  <2>1. call[t] \in SeekCalls
    BY <1>9, CallType DEF SeekReturn
  <2>2. Idle(f_pos[call[t].file], <<>>) \in IdleCalls
    BY <2>1 DEF TypeOK, SeekCalls, Idle, IdleCalls
  <2> QED BY <1>9, <2>2 DEF TypeOK, SeekReturn
<1>10. CASE UNCHANGED vars
  BY <1>10 DEF vars, TypeOK
<1> QED
  BY <1>1, <1>2, <1>3, <1>4, <1>5, <1>6, <1>7, <1>8, <1>9, <1>10
  DEF Next, OpenOrRelease, Continue

-----------------------------------------------------------------------------
(* The strengthening.  A call keeps the file it works on open (its          *)
(* descriptor holds a reference), so no open resets the file's position     *)
(* under it; and on a file of one thread the position stays where the       *)
(* thread's transfer found it.                                              *)
CallsHoldFiles ==
  \A t \in Threads : call[t].op # "idle" =>
    /\ call[t].file \in Uses[t]
    /\ f_mode[call[t].file] # {}

PrivateUnmoved ==
  \A t \in Threads :
    call[t].op \in {"read", "write"} /\ call[t].own /\ Private(call[t].file)
      => f_pos[call[t].file] = call[t].pos

(* On a device of permission RDONLY no file can be written through. *)
NoWriter ==
  Perm = "RDONLY" =>
    /\ \A f \in Files : "WRITE" \notin f_mode[f]
    /\ \A t \in Threads : call[t].op # "write"

IInv ==
  /\ TypeOK
  /\ PositionInDevice /\ TransferInDevice
  /\ CallsHoldFiles /\ PrivateUnmoved
  /\ NoWriter

(* The inductive invariant holds before the first open.                     *)
LEMMA InitIInv == Init => IInv
<1> SUFFICES ASSUME Init PROVE IInv
  OBVIOUS
<1>1. Idle(0, <<>>) \in IdleCalls /\ Idle(0, <<>>).op = "idle"
  BY DEF Idle, IdleCalls
<1>2. TypeOK
  BY <1>1, ByteAssumption DEF Init, TypeOK
<1> QED
  BY <1>1, <1>2, SizeAssumption
  DEF Init, IInv, PositionInDevice, TransferInDevice, CallsHoldFiles, PrivateUnmoved, NoWriter

(* A step that leaves the positions and modes alone and puts thread t into  *)
(* what Began allows, or leaves it in its call, preserves the invariant.    *)
LEMMA CallChanges ==
  ASSUME IInv, NEW t \in Threads, NEW c, Began(t, c), TypeOK',
         call' = [call EXCEPT ![t] = c], UNCHANGED <<f_pos, f_mode>>
  PROVE  IInv'
<1>1. /\ call'[t] = c
      /\ \A u \in Threads : u # t => call'[u] = call[u]
  BY DEF IInv, TypeOK
<1>2. PositionInDevice'
  BY <1>1 DEF IInv, PositionInDevice, Began
<1>3. TransferInDevice'
  BY <1>1 DEF IInv, TransferInDevice, Began
<1>4. CallsHoldFiles'
  BY <1>1 DEF IInv, CallsHoldFiles, Began
<1>5. PrivateUnmoved'
  BY <1>1 DEF IInv, PrivateUnmoved, Began, Private
<1>6. NoWriter'
  <2> SUFFICES ASSUME Perm = "RDONLY" PROVE NoWriter'
    BY DEF NoWriter
  <2>1. c.op # "write"
    BY DEF IInv, NoWriter, Began, ReadCalls, WriteCalls
  <2> QED BY <1>1, <2>1 DEF IInv, NoWriter
<1> QED BY <1>2, <1>3, <1>4, <1>5, <1>6 DEF IInv

(* A step that returns from a call or moves a seek on, and may put the      *)
(* position of the file of that call somewhere within the device.           *)
LEMMA PositionChanges ==
  ASSUME IInv, NEW t \in Threads, NEW c, NEW p \in 0 .. Size, NEW f,
         f = call[t].file, call[t].op # "idle", TypeOK',
         \/ c.op = "idle"
         \/ c.op = "tell" /\ c.file = f /\ c.target \in 0 .. Size,
         call' = [call EXCEPT ![t] = c], f_pos' = [f_pos EXCEPT ![f] = p], UNCHANGED f_mode
  PROVE  IInv'
<1>1. /\ call'[t] = c
      /\ \A u \in Threads : u # t => call'[u] = call[u]
      /\ f_pos \in [Files -> Int] /\ f_mode' = f_mode
  BY DEF IInv, TypeOK
<1>2. PositionInDevice'
  BY <1>1 DEF IInv, PositionInDevice
<1>3. TransferInDevice'
  BY <1>1 DEF IInv, TransferInDevice
<1>4. CallsHoldFiles'
  BY <1>1 DEF IInv, CallsHoldFiles
<1>5. PrivateUnmoved'
  <2> SUFFICES ASSUME NEW u \in Threads, call'[u].op \in {"read", "write"},
                      call'[u].own, Private(call'[u].file)
               PROVE  f_pos'[call'[u].file] = call'[u].pos
    BY DEF PrivateUnmoved, Private
  <2>1. u # t /\ call'[u] = call[u]
    BY <1>1
  <2>2. call[u].file # f
    BY <2>1 DEF IInv, CallsHoldFiles, Private, PrivateUnmoved, TypeOK
  <2>3. f_pos'[call[u].file] = f_pos[call[u].file]
    <3>1. call[u].file \in Files
      BY <2>1, CallType DEF IInv, ReadCalls, WriteCalls
    <3> QED BY <1>1, <2>2, <3>1
  <2> QED BY <2>1, <2>3 DEF IInv, PrivateUnmoved
<1>6. NoWriter'
  BY <1>1 DEF IInv, NoWriter
<1> QED BY <1>2, <1>3, <1>4, <1>5, <1>6 DEF IInv

(* Every step keeps the inductive invariant.                                *)
LEMMA NextIInv == IInv /\ [Next]_vars => IInv'
<1> SUFFICES ASSUME IInv, [Next]_vars PROVE IInv'
  OBVIOUS
<1>0. TypeOK' /\ TypeOK
  BY TypeStep DEF IInv
<1>1. ASSUME NEW f \in Files, NEW mode \in SUBSET {"READ", "WRITE"}, pcd_open(f, mode)
      PROVE  IInv'
  <2>1. /\ call' = call
        /\ \A g \in Files : g # f => f_pos'[g] = f_pos[g] /\ f_mode'[g] = f_mode[g]
        /\ f_pos'[f] = 0 /\ f_mode'[f] = mode
    BY <1>0, <1>1 DEF pcd_open, TypeOK
  <2>2. \A t \in Threads : call[t].op # "idle" => call[t].file \in Files /\ call[t].file # f
    BY <1>0, <1>1, CallType
    DEF IInv, CallsHoldFiles, pcd_open, TypeOK, IdleCalls, ReadCalls, WriteCalls, SeekCalls
  <2>3. PositionInDevice' /\ TransferInDevice'
    BY <2>1, SizeAssumption DEF IInv, PositionInDevice, TransferInDevice
  <2>4. CallsHoldFiles'
    BY <2>1, <2>2 DEF IInv, CallsHoldFiles
  <2>5. PrivateUnmoved'
    BY <2>1, <2>2 DEF IInv, PrivateUnmoved, Private
  <2>6. NoWriter'
    <3>1. Perm = "RDONLY" => mode = {"READ"}
      BY <1>1 DEF pcd_open, check_permission, EPERM
    <3> QED BY <2>1, <3>1 DEF IInv, NoWriter
  <2> QED BY <1>0, <2>3, <2>4, <2>5, <2>6 DEF IInv
<1>2. ASSUME NEW f \in Files, pcd_release(f) PROVE IInv'
  <2>1. /\ call' = call /\ f_pos' = f_pos
        /\ \A g \in Files : g # f => f_mode'[g] = f_mode[g]
        /\ f_mode'[f] = {}
        /\ \A t \in Threads : call[t].op # "idle" => call[t].file # f
    BY <1>0, <1>2 DEF pcd_release, TypeOK
  <2>2. \A t \in Threads : call[t].op # "idle" => call[t].file \in Files
    BY <1>0, CallType DEF TypeOK, IdleCalls, ReadCalls, WriteCalls, SeekCalls
  <2>3. PositionInDevice' /\ TransferInDevice'
    BY <2>1 DEF IInv, PositionInDevice, TransferInDevice
  <2>4. CallsHoldFiles'
    BY <2>1, <2>2 DEF IInv, CallsHoldFiles
  <2>5. PrivateUnmoved' /\ NoWriter'
    BY <2>1 DEF IInv, PrivateUnmoved, Private, NoWriter
  <2> QED BY <1>0, <2>3, <2>4, <2>5 DEF IInv
<1>3. ASSUME NEW t \in Threads, BeginRead(t) \/ BeginWrite(t) \/ BeginSeek(t)
      PROVE  IInv'
  <2>1. /\ UNCHANGED <<buffer, f_pos, f_mode>>
        /\ \E c \in AllCallTypes : call' = [call EXCEPT ![t] = c] /\ Began(t, c)
    BY <1>0, <1>3, CallBegins
  <2> QED BY <1>0, <2>1, CallChanges
<1>4. ASSUME NEW t \in Threads, copy_to_user(t) PROVE IInv'
  <2> DEFINE c == [call[t] EXCEPT !.data =
                     Append(@, buffer[call[t].pos + Len(call[t].data)])]
  <2>1. call[t] \in ReadCalls /\ call[t].op = "read"
    BY <1>0, <1>4, CallType DEF copy_to_user
  <2>2. call' = [call EXCEPT ![t] = c] /\ UNCHANGED <<f_pos, f_mode>>
    BY <1>4 DEF copy_to_user
  <2>3. /\ c.op = "read" /\ c.own = call[t].own /\ c.file = call[t].file
        /\ c.pos = call[t].pos /\ c.len = call[t].len
    BY <2>1 DEF ReadCalls
  <2> HIDE DEF c
  <2> QED BY <1>0, <2>1, <2>2, <2>3
          DEF IInv, TypeOK, PositionInDevice, TransferInDevice, CallsHoldFiles,
              PrivateUnmoved, Private, NoWriter
<1>5. ASSUME NEW t \in Threads, copy_from_user(t) PROVE IInv'
  <2> DEFINE c == [call[t] EXCEPT !.done = @ + 1]
  <2>1. call[t] \in WriteCalls /\ call[t].op = "write"
    BY <1>0, <1>5, CallType DEF copy_from_user
  <2>2. call' = [call EXCEPT ![t] = c] /\ UNCHANGED <<f_pos, f_mode>>
    BY <1>5 DEF copy_from_user
  <2>3. /\ c.op = "write" /\ c.own = call[t].own /\ c.file = call[t].file
        /\ c.pos = call[t].pos /\ c.len = call[t].len
    BY <2>1 DEF WriteCalls
  <2> HIDE DEF c
  <2> QED BY <1>0, <2>1, <2>2, <2>3
          DEF IInv, TypeOK, PositionInDevice, TransferInDevice, CallsHoldFiles,
              PrivateUnmoved, Private, NoWriter
<1>6. ASSUME NEW t \in Threads, ReadFault(t) \/ WriteFault(t) PROVE IInv'
  <2>1. Began(t, Idle(EFAULT, <<>>))
    BY DEF Began, Idle, IdleCalls, EFAULT
  <2> QED BY <1>0, <1>6, <2>1, CallChanges DEF ReadFault, WriteFault
<1>7. ASSUME NEW t \in Threads, ReadReturn(t) \/ WriteReturn(t) PROVE IInv'
  <2> DEFINE f == call[t].file
  <2>1. call[t] \in ReadCalls \cup WriteCalls /\ call[t].op \in {"read", "write"}
    BY <1>0, <1>7, CallType DEF ReadReturn, WriteReturn
  <2>2. PICK data : call' = [call EXCEPT ![t] = Idle(call[t].len, data)]
    BY <1>7 DEF ReadReturn, WriteReturn
  <2>3. Idle(call[t].len, data).op = "idle"
    BY DEF Idle
  <2>4. PICK p \in 0 .. Size : f_pos' = [f_pos EXCEPT ![f] = p]
    <3>1. call[t].pos + call[t].len \in 0 .. Size
      BY <2>1, SizeAssumption DEF IInv, TransferInDevice, ReadCalls, WriteCalls
    <3>2. f_pos[f] \in 0 .. Size /\ f_pos = [f_pos EXCEPT ![f] = f_pos[f]]
      BY <1>0, <2>1 DEF IInv, PositionInDevice, TypeOK, ReadCalls, WriteCalls
    <3> QED BY <1>7, <3>1, <3>2 DEF ReadReturn, WriteReturn, Advanced
  <2>5. UNCHANGED f_mode
    BY <1>7 DEF ReadReturn, WriteReturn
  <2> QED BY <1>0, <2>1, <2>2, <2>3, <2>4, <2>5, PositionChanges
<1>8. ASSUME NEW t \in Threads, SeekStore(t) PROVE IInv'
  <2> DEFINE c == [call[t] EXCEPT !.op = "tell"]
  <2>1. call[t] \in SeekCalls /\ call[t].op = "seek"
    BY <1>0, <1>8, CallType DEF SeekStore
  <2>2. c.op = "tell" /\ c.file = call[t].file /\ c.target = call[t].target
    BY <2>1 DEF SeekCalls
  <2>3. call[t].target \in 0 .. Size
    BY <2>1 DEF IInv, PositionInDevice
  <2>4. /\ call' = [call EXCEPT ![t] = c]
        /\ f_pos' = [f_pos EXCEPT ![call[t].file] = call[t].target] /\ UNCHANGED f_mode
    BY <1>8 DEF SeekStore
  <2> HIDE DEF c
  <2> QED BY <1>0, <2>1, <2>2, <2>3, <2>4, PositionChanges
<1>9. ASSUME NEW t \in Threads, SeekReturn(t) PROVE IInv'
  <2>1. Began(t, Idle(f_pos[call[t].file], <<>>))
    BY <1>0, <1>9, CallType DEF SeekReturn, Began, Idle, IdleCalls, SeekCalls, TypeOK
  <2> QED BY <1>0, <1>9, <2>1, CallChanges DEF SeekReturn
<1>10. CASE UNCHANGED vars
  BY <1>0, <1>10
  DEF vars, IInv, TypeOK, PositionInDevice, TransferInDevice, CallsHoldFiles,
      PrivateUnmoved, Private, NoWriter
<1> QED
  BY <1>1, <1>2, <1>3, <1>4, <1>5, <1>6, <1>7, <1>8, <1>9, <1>10
  DEF Next, OpenOrRelease, Continue

(* The inductive invariant holds of every behaviour.                        *)
LEMMA Inductive == Spec => []IInv
  BY InitIInv, NextIInv, PTL DEF Spec

-----------------------------------------------------------------------------
(* The variables of the file operations keep the types the code gives them. *)
THEOREM TypeCorrect == Spec => []TypeOK
<1>1. IInv => TypeOK
  BY DEF IInv
<1> QED BY <1>1, Inductive, PTL

(* However lseek, read and write on the same files interleave, no position  *)
(* leaves the device: the check in pcd_lseek is made on a value that cannot *)
(* change any more before it is stored.                                     *)
THEOREM PositionSafe == Spec => []PositionInDevice
<1>1. IInv => PositionInDevice
  BY DEF IInv
<1> QED BY <1>1, Inductive, PTL

(* The clamp in pcd_read and pcd_write, together with the limit of the      *)
(* user-copy functions, confines every transfer to the device's memory.     *)
THEOREM TransferSafe == Spec => []TransferInDevice
<1>1. IInv => TransferInDevice
  BY DEF IInv
<1> QED BY <1>1, Inductive, PTL

(* No update of the position of a file that one thread uses is lost.        *)
THEOREM PositionExact == Spec => MovesFromStart
<1> DEFINE A == \A t \in Threads : TransferReturns(t) /\ Private(call[t].file) =>
                  f_pos'[call[t].file] =
                     IF ~call[t].own THEN f_pos[call[t].file]
                     ELSE IF call'[t].ret < 0 THEN call[t].pos
                     ELSE call[t].pos + call'[t].ret
<1>1. IInv /\ [Next]_vars => [A]_vars
  <2> SUFFICES ASSUME IInv, Next, NEW t \in Threads, TransferReturns(t),
                      Private(call[t].file)
               PROVE  f_pos'[call[t].file] =
                        IF ~call[t].own THEN f_pos[call[t].file]
                        ELSE IF call'[t].ret < 0 THEN call[t].pos
                        ELSE call[t].pos + call'[t].ret
    OBVIOUS
  <2>0. TypeOK /\ call[t].op \in {"read", "write"} /\ call'[t].op = "idle"
    BY DEF IInv, TransferReturns
  <2>1. call[t] \in ReadCalls \cup WriteCalls
    BY <2>0, CallType
  <2>2. ReadFault(t) \/ WriteFault(t) \/ ReadReturn(t) \/ WriteReturn(t)
    <3>1. call' # call
      BY <2>0
    <3>2. ASSUME NEW u \in Threads, BeginRead(u) \/ BeginWrite(u) \/ BeginSeek(u)
          PROVE  u = t
      <4>1. \E c : call' = [call EXCEPT ![u] = c]
        BY <2>0, <3>2, CallBegins
      <4> QED BY <2>0, <4>1 DEF TypeOK
    <3>3. ASSUME NEW u \in Threads, BeginRead(u) \/ BeginWrite(u) \/ BeginSeek(u)
          PROVE  call[u].op = "idle"
      BY <3>3 DEF BeginRead, BeginWrite, BeginSeek, pcd_read, pcd_write, pcd_lseek, Ready
    <3>4. ASSUME NEW u \in Threads, Continue(u) PROVE u = t
      <4>1. \E c : call' = [call EXCEPT ![u] = c]
        BY <3>4 DEF Continue, copy_to_user, copy_from_user, ReadFault, WriteFault,
                    ReadReturn, WriteReturn, SeekStore, SeekReturn
      <4> QED BY <2>0, <4>1 DEF TypeOK
    <3>5. ~OpenOrRelease
      BY <3>1 DEF OpenOrRelease, pcd_open, pcd_release
    <3>6. Continue(t)
      BY <2>0, <3>2, <3>3, <3>4, <3>5 DEF Next
    <3>7. ~copy_to_user(t) /\ ~copy_from_user(t)
      <4>1. \A x : [call[t] EXCEPT !.data = x].op = call[t].op
        BY <2>1 DEF ReadCalls, WriteCalls
      <4>2. \A x : [call[t] EXCEPT !.done = x].op = call[t].op
        BY <2>1 DEF ReadCalls, WriteCalls
      <4>3. copy_to_user(t) => \E x : call'[t] = [call[t] EXCEPT !.data = x]
        BY <2>0 DEF copy_to_user, TypeOK
      <4>4. copy_from_user(t) => \E x : call'[t] = [call[t] EXCEPT !.done = x]
        BY <2>0 DEF copy_from_user, TypeOK
      <4> QED BY <2>0, <4>1, <4>2, <4>3, <4>4
    <3> QED BY <2>0, <3>6, <3>7 DEF Continue, SeekStore, SeekReturn
  <2>3. CASE ReadFault(t) \/ WriteFault(t)
    <3>1. call'[t] = Idle(EFAULT, <<>>) /\ f_pos' = f_pos
      BY <2>0, <2>3 DEF ReadFault, WriteFault, TypeOK
    <3>2. call'[t].ret < 0
      BY <3>1 DEF Idle, EFAULT
    <3> QED BY <2>0, <3>1, <3>2 DEF IInv, PrivateUnmoved
  <2>4. CASE ReadReturn(t) \/ WriteReturn(t)
    <3>1. f_pos' = Advanced(call[t]) /\ call'[t].ret = call[t].len
      BY <2>0, <2>4 DEF ReadReturn, WriteReturn, Idle, TypeOK
    <3>2. call[t].len \in Nat /\ call[t].file \in Files
      BY <2>1 DEF ReadCalls, WriteCalls
    <3> QED BY <2>0, <3>1, <3>2 DEF Advanced, TypeOK
  <2> QED BY <2>2, <2>3, <2>4
<1>2. A <=> \A t \in Threads : TransferReturns(t) /\ Private(call[t].file) =>
              LET c == call[t]
                  ret == call'[t].ret
              IN f_pos'[c.file] = IF ~c.own THEN f_pos[c.file]
                                  ELSE IF ret < 0 THEN c.pos ELSE c.pos + ret
  OBVIOUS
<1> QED BY <1>1, <1>2, Inductive, PTL DEF Spec, MovesFromStart

(* No step of the driver changes a device of permission RDONLY.             *)
LEMMA ReadOnlyStep ==
  ASSUME IInv, Next, Perm = "RDONLY"
  PROVE  UNCHANGED buffer
<1>1. ASSUME NEW t \in Threads PROVE ~copy_from_user(t) /\ ~WriteFault(t)
  BY DEF IInv, NoWriter, copy_from_user, WriteFault
<1>2. ASSUME NEW t \in Threads, BeginRead(t) \/ BeginWrite(t) \/ BeginSeek(t)
      PROVE  UNCHANGED buffer
  BY <1>2, CallBegins DEF IInv
<1> QED
  BY <1>1, <1>2
  DEF Next, OpenOrRelease, pcd_open, pcd_release, Continue, copy_to_user, ReadFault,
      ReadReturn, WriteReturn, SeekStore, SeekReturn

(* The memory of a device of permission RDONLY never changes.               *)
THEOREM ReadOnlyKept == Spec => ReadOnlyMemory
<1>1. IInv /\ [Next]_vars => [Perm = "RDONLY" => UNCHANGED buffer]_vars
  BY ReadOnlyStep
<1> QED BY <1>1, Inductive, PTL DEF Spec, ReadOnlyMemory
=============================================================================
