----------------------------- MODULE I2cClients -----------------------------
(***************************************************************************)
(* What programs get from the two i2c chips: the LM75A thermometer under   *)
(* one of its two drivers (both match "lm75a"; one of them is bound), and  *)
(* the DS3231 clock.  The chip measures at any moment, and a transfer on   *)
(* the bus, which the adapter's lock makes atomic, may fail.               *)
(*                                                                         *)
(* A program reads a thermometer file of its own until it has the end of   *)
(* it, as cat does, and tries again when a call fails, or gives up.        *)
(* Of the clock's bytes only their number is kept.  Not in the model:      *)
(* kmalloc and memdup_user of the clock's driver fail.                     *)
(***************************************************************************)
EXTENDS Lm75aRegister, Sequences

CONSTANTS
  Thermometers,   \* programs that read the LM75A
  Clocks,         \* programs that read and write the DS3231
  Registers,      \* contents of the temperature register
  Counts,         \* lengths a program asks the thermometer for
  ClockCounts,    \* lengths a program asks the clock for
  MaxErrors,      \* failed calls a program puts up with
  MsgRange        \* values of msg.len, a __u16 (65536 in the code)

ASSUME ClientsAssumption ==
  /\ Registers \subseteq Bytes \X Bytes
  /\ Counts \subseteq Nat \ {0} /\ ClockCounts \subseteq Nat
  /\ MaxErrors \in Nat /\ MsgRange \in Nat \ {0}

VARIABLES
  register,   \* the temperature register
  driver,     \* the driver bound to the LM75A: "char" or "hwmon"
  program,    \* program[p]: the reading of p, in the kernel or between calls
  steady,     \* history: the register has not changed since p opened its file
  clock       \* clock[p]: the call of p on the clock, or its last result

vars == <<register, driver, program, steady, clock>>

EIO == -5
EFAULT == -14

Closed == [pc |-> "closed", pos |-> 0, count |-> 0, text |-> Text(<<0, 0>>),
           pieces |-> <<>>, val |-> 0, errors |-> 0]
NoCall == [op |-> "idle", count |-> 0, moved |-> 0, ret |-> 0]

Init ==
  /\ register \in Registers
  /\ driver \in {"char", "hwmon"}
  /\ program = [p \in Thermometers |-> Closed]
  /\ steady = [p \in Thermometers |-> TRUE]
  /\ clock = [p \in Clocks |-> NoCall]

(* The chip has measured. *)
Measure ==
  /\ register' \in Registers \ {register}
  /\ steady' = [p \in Thermometers |-> FALSE]
  /\ UNCHANGED <<driver, program, clock>>

-----------------------------------------------------------------------------
(* Programs and the thermometer.                                            *)

At(p, pc) == program[p].pc = pc
Becomes(p, new) == program' = [program EXCEPT ![p] = new]
Chip == <<register, driver, steady, clock>>

(* lm75a_open, or the open of temp1_input. *)
Open(p) ==
  /\ At(p, "closed")
  /\ Becomes(p, [Closed EXCEPT !.pc = "call"])
  /\ steady' = [steady EXCEPT ![p] = TRUE]
  /\ UNCHANGED <<register, driver, clock>>

(* A call returns an error: the program calls again, or gives up. *)
Fails(p) ==
  IF program[p].errors < MaxErrors
  THEN Becomes(p, [program[p] EXCEPT !.pc = "call", !.errors = @ + 1,
                                          !.count = 0, !.text = Closed.text])
  ELSE Becomes(p, [program[p] EXCEPT !.pc = "failed"])

(* lm75a_read: i2c_master_send of the register's address, *)
lm75a_read(p) ==
  /\ At(p, "call") /\ driver = "char"
  /\ \/ \E count \in Counts :
          Becomes(p, [program[p] EXCEPT !.pc = "recv", !.count = count])
     \/ Fails(p)
  /\ UNCHANGED Chip

(* Mutant: the count is cut to the length of the text. *)
i2c_master_recvWhole(p) ==
  /\ At(p, "recv")
  /\ \/ LET text == Text(register)
            len == TextLength(text)
        IN IF program[p].pos >= len
           THEN Becomes(p, [program[p] EXCEPT !.pc = "end"])
           ELSE Becomes(p, [program[p] EXCEPT !.pc = "copy", !.text = text,
                              !.count = IF @ > len THEN len ELSE @])
     \/ Fails(p)
  /\ UNCHANGED Chip

(* i2c_master_recv, and the text of what it has received: every call takes  *)
(* the temperature anew, and cuts its text at the file's position.          *)
i2c_master_recv(p) ==
  /\ At(p, "recv")
  /\ \/ LET text == Text(register)
            left == TextLength(text) - program[p].pos
        IN IF left <= 0
           THEN Becomes(p, [program[p] EXCEPT !.pc = "end"])
           ELSE Becomes(p, [program[p] EXCEPT !.pc = "copy", !.text = text,
                              !.count = IF @ > left THEN left ELSE @])
     \/ Fails(p)
  /\ UNCHANGED Chip

(* Mutant: *ppos += count comes before copy_to_user. *)
CopyFaultMoves(p) ==
  /\ At(p, "copy")
  /\ program[p].errors < MaxErrors
  /\ Becomes(p, [program[p] EXCEPT !.pc = "call", !.errors = @ + 1,
                                   !.pos = @ + program[p].count])
  /\ UNCHANGED Chip

(* copy_to_user has not copied all of it: the position stays. *)
CopyFault(p) ==
  /\ At(p, "copy")
  /\ Fails(p)
  /\ UNCHANGED Chip

Piece(p) ==
  LET r == program[p]
  IN [text |-> r.text, from |-> r.pos, to |-> r.pos + r.count]

(* Mutant: *ppos += count is missing. *)
ReadReturnStays(p) ==
  /\ At(p, "copy")
  /\ Becomes(p, [program[p] EXCEPT !.pc = "call"])
  /\ UNCHANGED Chip

ReadReturn(p) ==
  /\ At(p, "copy")
  /\ Becomes(p, [Closed EXCEPT !.pc = "call", !.errors = program[p].errors,
                               !.pos = program[p].pos + program[p].count,
                               !.pieces = Append(program[p].pieces, Piece(p))])
  /\ UNCHANGED Chip

(* lm75a_read_temp of hwmon: one transfer, the whole value. *)
lm75a_read_temp(p) ==
  /\ At(p, "call") /\ driver = "hwmon"
  /\ \/ Becomes(p, [program[p] EXCEPT !.pc = "end", !.val = temp_val(register)])
     \/ Fails(p)
  /\ UNCHANGED Chip

lm75a_release(p) ==
  /\ program[p].pc \in {"end", "failed"}
  /\ Becomes(p, Closed)
  /\ UNCHANGED Chip

Reading(p) ==
  \/ lm75a_read(p) \/ i2c_master_recv(p) \/ CopyFault(p) \/ ReadReturn(p)
  \/ lm75a_read_temp(p) \/ lm75a_release(p)

-----------------------------------------------------------------------------
(* Programs and the clock.                                                  *)

Thermometer == <<register, driver, program, steady>>
Returns(p, ret) == clock' = [clock EXCEPT ![p].op = "idle", ![p].ret = ret]

(* msg.len = count *)
MsgLen(count) == count % MsgRange

(* Mutant: what i2c_transfer returns is not looked at. *)
my_readUnchecked(p) ==
  /\ clock[p].op = "idle"
  /\ \E count \in ClockCounts : \E moved \in {0, MsgLen(count)} :
       clock' = [clock EXCEPT ![p] =
                   [op |-> "copy", count |-> count, moved |-> moved, ret |-> 0]]
  /\ UNCHANGED Thermometer

my_read(p) ==
  /\ clock[p].op = "idle"
  /\ \E count \in ClockCounts :
       \/ clock' = [clock EXCEPT ![p] =
                      [op |-> "copy", count |-> count, moved |-> MsgLen(count), ret |-> 0]]
       \/ clock' = [clock EXCEPT ![p] =
                      [op |-> "idle", count |-> count, moved |-> 0, ret |-> EIO]]
  /\ UNCHANGED Thermometer

(* copy_to_user of all count bytes, those behind msg.len uninitialised. *)
my_readReturn(p) ==
  /\ clock[p].op = "copy"
  /\ Returns(p, clock[p].count) \/ Returns(p, EFAULT)
  /\ UNCHANGED Thermometer

my_write(p) ==
  /\ clock[p].op = "idle"
  /\ \E count \in ClockCounts :
       \/ clock' = [clock EXCEPT ![p] =
                      [op |-> "idle", count |-> count, moved |-> MsgLen(count), ret |-> count]]
       \/ clock' = [clock EXCEPT ![p] =
                      [op |-> "idle", count |-> count, moved |-> 0, ret |-> EIO]]
  /\ UNCHANGED Thermometer

Next ==
  \/ Measure
  \/ \E p \in Thermometers : Open(p) \/ Reading(p)
  \/ \E p \in Clocks : my_read(p) \/ my_readReturn(p) \/ my_write(p)

Spec == Init /\ [][Next]_vars

(* A program that has opened its file is scheduled. *)
FairSpec == Spec /\ \A p \in Thermometers : WF_vars(Reading(p))

-----------------------------------------------------------------------------
(* The variables hold values of the code's types, and every byte that is    *)
(* copied lies in kbuf.                                                     *)
TypeOK ==
  /\ register \in Registers /\ driver \in {"char", "hwmon"}
  /\ \A p \in Thermometers : program[p].pc = "copy" =>
       program[p].pos + program[p].count < KBUF
  /\ \A p \in Clocks : clock[p].ret \in {EIO, EFAULT} \cup Nat

(* The pieces of a reading follow one another, each inside the text it was  *)
(* cut from, from the first byte to where some temperature's text ends:     *)
(* nothing is lost or read twice, however the temperature and with it the   *)
(* length of the text changes between the calls, and whichever calls fail.  *)
PiecesFollow ==
  \A p \in Thermometers :
    LET r == program[p]
        Start(i) == IF i = 1 THEN 0 ELSE r.pieces[i - 1].to
    IN /\ \A i \in 1 .. Len(r.pieces) :
            /\ r.pieces[i].from = Start(i)
            /\ r.pieces[i].to \in Start(i) + 1 .. TextLength(r.pieces[i].text)
       /\ r.pc = "end" /\ driver = "char" =>
            \E buf \in Registers : TextLength(Text(buf)) <= Start(Len(r.pieces) + 1)

(* While the temperature stands, a reading that came to its end has one     *)
(* text in all its pieces and names the temperature of the chip, under      *)
(* either driver: the minus sign of -0.5 degrees apart for the text, and    *)
(* all that are negative for hwmon.                                         *)
ReadsTemperature ==
  \A p \in Thermometers : At(p, "end") /\ steady[p] =>
    IF driver = "char"
    THEN \A i \in 1 .. Len(program[p].pieces) :
           LET text == program[p].pieces[i].text
           IN Millidegrees(register) # -500 => Named(text) = Millidegrees(register)
    ELSE Millidegrees(register) >= 0 => program[p].val = Millidegrees(register)

(* Comments of both drivers: nine bits in two's complement, reported in     *)
(* thousandths of a degree.  A value of the hwmon driver is the chip's.     *)
HwmonMillidegrees ==
  \A p \in Thermometers : At(p, "end") /\ steady[p] /\ driver = "hwmon" =>
    program[p].val = Millidegrees(register)

(* A call on the clock that returns a length has moved that many bytes over *)
(* the bus: none of a buffer the transfer has not filled, and none of a     *)
(* failed transfer.  It holds below the range of msg.len.                   *)
MovesWhatItReturns ==
  \A p \in Clocks : clock[p].op = "idle" /\ clock[p].ret \in 0 .. MsgRange - 1 =>
    clock[p].moved = clock[p].ret

(* A reading ends, although every call may find another text: the position  *)
(* only goes up, and no text is longer than kbuf.                           *)
ReadingEnds == \A p \in Thermometers : ~At(p, "closed") ~> At(p, "closed")
=============================================================================
