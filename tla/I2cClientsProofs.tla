-------------------------- MODULE I2cClientsProofs --------------------------
(***************************************************************************)
(* Proofs about I2cClients, for every content of the temperature register, *)
(* every length asked for and every number of programs.                    *)
(***************************************************************************)
EXTENDS I2cClients, TLAPS

(* The texts a temperature can have: they fit into kbuf.                    *)
Texts == {text \in [degrees : Int, thousandths : Int] : TextLength(text) \in 22 .. 25}

Pieces == [text : Texts, from : Nat, to : Nat]
Readings == [pc : {"closed", "call", "recv", "copy", "end", "failed"}, pos : Nat, count : Nat,
             text : Texts, pieces : Seq(Pieces), val : Int, errors : Nat]

(* Where piece i begins if the pieces follow one another.                   *)
Start(pieces, i) == IF i = 1 THEN 0 ELSE pieces[i - 1].to

(* The pieces follow one another up to pos, each inside its text.           *)
Chain(pieces, pos) ==
  /\ \A i \in 1 .. Len(pieces) :
       /\ pieces[i].from = Start(pieces, i)
       /\ pieces[i].to \in Start(pieces, i) + 1 .. TextLength(pieces[i].text)
  /\ pos = Start(pieces, Len(pieces) + 1)

(* What a reading has, quiet when the temperature stands since its open:    *)
(* then every text of it is that of the register.                           *)
Good(r, quiet) ==
  /\ r \in Readings
  /\ Chain(r.pieces, r.pos)
  /\ r.pc \in {"recv", "copy"} => r.count > 0 /\ driver = "char"
  /\ r.pc = "copy" => r.pos + r.count <= TextLength(r.text)
  /\ r.pc = "end" /\ driver = "char" => \E buf \in Registers : TextLength(Text(buf)) <= r.pos
  /\ quiet =>
       /\ \A i \in 1 .. Len(r.pieces) : r.pieces[i].text = Text(register)
       /\ r.pc = "copy" => r.text = Text(register)
       /\ r.pc = "end" /\ driver = "hwmon" => r.val = temp_val(register)

ProgramInv ==
  /\ register \in Registers /\ driver \in {"char", "hwmon"}
  /\ program \in [Thermometers -> Readings] /\ DOMAIN steady = Thermometers
  /\ \A p \in Thermometers : Good(program[p], steady[p])

(* A call on the clock moves what msg.len holds of the length asked for.    *)
ClockInv ==
  /\ clock \in [Clocks -> [op : {"idle", "copy"}, count : Nat, moved : Nat, ret : Int]]
  /\ \A p \in Clocks :
       /\ clock[p].ret \in {EIO, EFAULT} \cup Nat
       /\ clock[p].op = "copy" => clock[p].moved = MsgLen(clock[p].count)
       /\ clock[p].op = "idle" /\ clock[p].ret \in 0 .. MsgRange - 1 =>
            clock[p].moved = clock[p].ret

IInv == ProgramInv /\ ClockInv

-----------------------------------------------------------------------------
(* The short of lm75a_read and its arithmetic shift give the temperature:   *)
(* half degrees in two's complement of nine bits.                           *)
LEMMA HalfDegrees ==
  ASSUME NEW buf \in Bytes \X Bytes
  PROVE  /\ temp_c(buf) = Millidegrees(buf)
         /\ \E h \in Int : -256 <= h /\ h <= 255 /\ temp_c(buf) = 500 * h
         /\ Millidegrees(buf) >= 0 => temp_val(buf) = Millidegrees(buf)
         /\ temp_val(buf) \in Int
<1>1. /\ buf[1] \in Int /\ buf[1] >= 0 /\ buf[1] <= 255
      /\ buf[2] \in Int /\ buf[2] >= 0 /\ buf[2] <= 255
  BY DEF Bytes
<1>2. PICK b \in Int : b = 256 * buf[1] + buf[2] /\ 0 <= b /\ b < 65536
  BY <1>1
<1>3. PICK q \in Int : q = b \div 128 /\ 0 <= q /\ q < 512
  BY <1>2
<1>4. Short(b) = IF b < 32768 THEN b ELSE b - 65536
  <2>1. b % 65536 = b
    BY <1>2
  <2> QED BY <1>2, <2>1 DEF Short
<1>5. Short(b) \div 128 = IF q < 256 THEN q ELSE q - 512
  <2>1. b < 32768 <=> q < 256
    BY <1>2, <1>3
  <2>2. (b - 65536) \div 128 = q - 512
    BY <1>2, <1>3
  <2> QED BY <1>3, <1>4, <2>1, <2>2
<1>6. Short(q) = q
  <2>1. q % 65536 = q
    BY <1>3
  <2> QED BY <1>3, <2>1 DEF Short
<1>7. Millidegrees(buf) = 500 * (IF q < 256 THEN q ELSE q - 512)
  BY <1>2, <1>3 DEF Millidegrees
<1>8. temp_c(buf) = 500 * (IF q < 256 THEN q ELSE q - 512)
  BY <1>2, <1>5 DEF temp_c
<1>9. temp_val(buf) = 500 * q
  BY <1>2, <1>3, <1>6 DEF temp_val
<1>10. q >= 256 => 500 * (q - 512) < 0
  BY <1>3
<1>11. PICK h \in Int : h = (IF q < 256 THEN q ELSE q - 512) /\ -256 <= h /\ h <= 255
  BY <1>3
<1>12. temp_c(buf) = 500 * h /\ temp_c(buf) = Millidegrees(buf)
  BY <1>7, <1>8, <1>11
<1>13. \E k \in Int : -256 <= k /\ k <= 255 /\ temp_c(buf) = 500 * k
  BY <1>11, <1>12
<1>14. Millidegrees(buf) >= 0 => temp_val(buf) = Millidegrees(buf)
  BY <1>3, <1>7, <1>9, <1>10
<1>15. temp_val(buf) \in Int
  BY <1>3, <1>9
<1> QED BY <1>12, <1>13, <1>14, <1>15

(* The text has its digits' number, and names the temperature, but for the  *)
(* minus sign of half a degree below zero.                                  *)
LEMMA TextNames ==
  ASSUME NEW buf \in Bytes \X Bytes
  PROVE  /\ Text(buf) \in Texts
         /\ Millidegrees(buf) # -500 => Named(Text(buf)) = Millidegrees(buf)
<1>1. PICK h \in Int : -256 <= h /\ h <= 255 /\ temp_c(buf) = 500 * h
  BY HalfDegrees
<1>2. /\ Quotient(500 * h, 1000) \in -128 .. 127
      /\ Quotient(500 * h, 1000) = IF h < 0 THEN -((-h) \div 2) ELSE h \div 2
  <2>1. ASSUME NEW k \in Int, 0 <= k, k <= 256
        PROVE  (500 * k) \div 1000 = k \div 2
    <3> DEFINE q == k \div 2
    <3>1. q \in Int /\ (k = 2 * q \/ k = 2 * q + 1)
      BY <2>1
    <3> HIDE DEF q
    <3>2. (500 * k) \div 1000 = q
      BY <3>1
    <3> QED BY <3>2 DEF q
  <2>2. h < 0 => Quotient(500 * h, 1000) = -((-h) \div 2)
    <3>1. h < 0 => /\ 500 * h < 0 /\ -(500 * h) = 500 * (-h)
                   /\ (500 * (-h)) \div 1000 = (-h) \div 2
      BY <1>1, <2>1
    <3> QED BY <1>1, <3>1 DEF Quotient
  <2>3. h >= 0 => Quotient(500 * h, 1000) = h \div 2
    <3>1. h >= 0 => ~(500 * h < 0) /\ (500 * h) \div 1000 = h \div 2
      BY <1>1, <2>1
    <3> QED BY <1>1, <3>1 DEF Quotient
  <2> QED BY <1>1, <2>2, <2>3
<1>3. Remainder(500 * h, 1000) = 500 * h - 1000 * Quotient(500 * h, 1000)
  BY DEF Remainder
<1>4. /\ Text(buf).degrees = Quotient(500 * h, 1000)
      /\ Text(buf).thousandths = Abs(500 * h - 1000 * Quotient(500 * h, 1000))
      /\ Text(buf) \in [degrees : Int, thousandths : Int]
  BY <1>1, <1>2, <1>3 DEF Text, Abs
<1>5. TextLength(Text(buf)) \in 22 .. 25
  BY <1>2, <1>4 DEF TextLength, Abs
<1>6. 500 * h # -500 => Named(Text(buf)) = 500 * h
  BY <1>2, <1>4 DEF Named, Abs
<1> QED BY <1>1, <1>4, <1>5, <1>6, HalfDegrees DEF Texts

(* One more piece, cut from a text at the position, continues the chain.    *)
LEMMA ChainGrows ==
  ASSUME NEW pieces \in Seq(Pieces), NEW pos \in Nat, Chain(pieces, pos),
         NEW text \in Texts, NEW count \in Nat \ {0}, pos + count <= TextLength(text)
  PROVE  LET piece == [text |-> text, from |-> pos, to |-> pos + count]
         IN  /\ Append(pieces, piece) \in Seq(Pieces)
             /\ Chain(Append(pieces, piece), pos + count)
<1> DEFINE piece == [text |-> text, from |-> pos, to |-> pos + count]
           more == Append(pieces, piece)
<1>1. piece \in Pieces /\ piece.text = text /\ piece.from = pos /\ piece.to = pos + count
  BY DEF Pieces
<1> HIDE DEF piece
<1>2. /\ more \in Seq(Pieces) /\ Len(more) = Len(pieces) + 1 /\ Len(pieces) \in Nat
      /\ more[Len(pieces) + 1] = piece
      /\ \A i \in 1 .. Len(pieces) : more[i] = pieces[i]
  BY <1>1
<1> HIDE DEF more
<1>3. \A i \in 1 .. Len(pieces) + 1 : Start(more, i) = Start(pieces, i)
  BY <1>2 DEF Start
<1>4. Start(more, Len(more) + 1) = pos + count
  BY <1>1, <1>2 DEF Start
<1>5. pos + count \in pos + 1 .. TextLength(text)
  BY DEF Texts
<1>6. Chain(more, pos + count)
  BY <1>1, <1>2, <1>3, <1>4, <1>5 DEF Chain
<1> QED BY <1>2, <1>6 DEF more, piece

-----------------------------------------------------------------------------
(* A program that is not reading has a good, empty reading.                 *)
LEMMA ClosedGood ==
  /\ \A quiet : Good(Closed, quiet)
  /\ \A quiet : Good([Closed EXCEPT !.pc = "call"], quiet)
<1>1. Text(<<0, 0>>) \in Texts
  BY TextNames DEF Bytes
<1>2. Closed \in Readings
  BY <1>1 DEF Closed, Readings
<1>3. [Closed EXCEPT !.pc = "call"] \in Readings
  BY <1>2 DEF Readings
<1>4. Chain(<<>>, 0)
  BY DEF Chain, Start
<1> QED BY <1>2, <1>3, <1>4 DEF Good, Closed

(* A reading whose call failed is good again, or over.                      *)
LEMMA FailsGood ==
  ASSUME NEW p \in Thermometers, NEW quiet, Good(program[p], quiet), Fails(p),
         program \in [Thermometers -> Readings]
  PROVE  \E new \in Readings : Becomes(p, new) /\ Good(new, quiet)
<1>1. Closed.text \in Texts
  BY ClosedGood DEF Good, Readings
<1>2. CASE program[p].errors < MaxErrors
  <2> DEFINE new == [program[p] EXCEPT !.pc = "call", !.errors = @ + 1,
                                       !.count = 0, !.text = Closed.text]
  <2>1. Becomes(p, new)
    BY <1>2 DEF Fails
  <2>2. /\ new \in Readings /\ new.pc = "call"
        /\ new.pieces = program[p].pieces /\ new.pos = program[p].pos
    <3> DEFINE e == program[p].errors + 1
    <3>1. program[p] \in Readings
      OBVIOUS
    <3>2. e \in Nat
      BY <3>1 DEF Readings
    <3> HIDE DEF e
    <3>3. [program[p] EXCEPT !.pc = "call", !.errors = e, !.count = 0, !.text = Closed.text]
            \in Readings
      BY <1>1, <3>1, <3>2 DEF Readings
    <3> QED BY <3>1, <3>3 DEF Readings, e
  <2>3. Good(new, quiet)
    BY <2>2 DEF Good
  <2> QED BY <2>1, <2>2, <2>3
<1>3. CASE ~(program[p].errors < MaxErrors)
  <2> DEFINE new == [program[p] EXCEPT !.pc = "failed"]
  <2>1. Becomes(p, new)
    BY <1>3 DEF Fails
  <2>2. /\ new \in Readings /\ new.pc = "failed"
        /\ new.pieces = program[p].pieces /\ new.pos = program[p].pos
    BY DEF Readings
  <2>3. Good(new, quiet)
    BY <2>2 DEF Good
  <2> QED BY <2>1, <2>2, <2>3
<1> QED BY <1>2, <1>3

(* Each step of a reading leaves a good one.                                *)
LEMMA ReadingGood ==
  ASSUME IInv, NEW p \in Thermometers, Reading(p)
  PROVE  \E new \in Readings : Becomes(p, new) /\ Good(new, steady[p]) /\ UNCHANGED Chip
<1> DEFINE r == program[p]
           quiet == steady[p]
<1>1. /\ register \in Registers /\ driver \in {"char", "hwmon"}
      /\ program \in [Thermometers -> Readings]
      /\ r \in Readings /\ Good(r, quiet)
      /\ Registers \subseteq Bytes \X Bytes /\ Counts \subseteq Nat \ {0}
  BY ClientsAssumption DEF IInv, ProgramInv
<1>2. Text(register) \in Texts /\ temp_val(register) \in Int
  BY <1>1, TextNames, HalfDegrees
<1>3. CASE Fails(p) /\ UNCHANGED Chip
  BY <1>1, <1>3, FailsGood
<1>4. ASSUME NEW count \in Counts, Becomes(p, [r EXCEPT !.pc = "recv", !.count = count]),
             driver = "char", UNCHANGED Chip
      PROVE  \E new \in Readings : Becomes(p, new) /\ Good(new, quiet) /\ UNCHANGED Chip
  <2> DEFINE new == [r EXCEPT !.pc = "recv", !.count = count]
  <2>1. r \in Readings /\ count \in Nat /\ count > 0
    BY <1>1
  <2> HIDE DEF r
  <2>2. /\ new \in Readings /\ new.pc = "recv" /\ new.count > 0
        /\ new.pieces = r.pieces /\ new.pos = r.pos
    BY <2>1 DEF Readings
  <2>3. Good(new, quiet)
    BY <1>1, <1>4, <2>2 DEF Good
  <2> QED BY <1>4, <2>2, <2>3
<1>5. CASE i2c_master_recv(p) /\ ~Fails(p)
  <2> DEFINE text == Text(register)
             left == TextLength(text) - r.pos
  <2>1. left \in Int /\ r.count \in Nat /\ r.count > 0 /\ driver = "char"
    <3>1. r \in Readings /\ r.pc = "recv" /\ TextLength(text) \in Int
      BY <1>1, <1>2, <1>5 DEF Texts, i2c_master_recv, At
    <3>2. r.pos \in Nat /\ r.count \in Nat
      BY <3>1 DEF Readings
    <3> QED BY <1>1, <3>1, <3>2 DEF Good
  <2>2. CASE left <= 0
    <3> DEFINE new == [r EXCEPT !.pc = "end"]
    <3>1. Becomes(p, new) /\ UNCHANGED Chip
      BY <1>5, <2>2 DEF i2c_master_recv
    <3>2. /\ new \in Readings /\ new.pc = "end"
          /\ new.pieces = r.pieces /\ new.pos = r.pos
      BY <1>1 DEF Readings
    <3>3. TextLength(Text(register)) <= new.pos
      <4>1. r.pos \in Nat /\ TextLength(Text(register)) \in Int
        BY <1>1, <1>2 DEF Readings, Texts
      <4> QED BY <2>2, <3>2, <4>1
    <3>4. Good(new, quiet)
      BY <1>1, <2>1, <3>2, <3>3 DEF Good
    <3> QED BY <3>1, <3>2, <3>4
  <2>3. CASE ~(left <= 0)
    <3> DEFINE n == IF r.count > left THEN left ELSE r.count
               new == [r EXCEPT !.pc = "copy", !.text = text, !.count = n]
    <3>1. Becomes(p, new) /\ UNCHANGED Chip
      BY <1>5, <2>3 DEF i2c_master_recv
    <3>2. n \in Nat /\ n > 0 /\ n <= left
      BY <2>1, <2>3
    <3>3. /\ new \in Readings /\ new.pc = "copy" /\ new.text = Text(register) /\ new.count = n
          /\ new.pieces = r.pieces /\ new.pos = r.pos /\ r.pos \in Nat
      BY <1>1, <1>2, <3>2 DEF Readings
    <3> HIDE DEF n, new
    <3>4. new.pos + new.count <= TextLength(new.text)
      BY <1>2, <3>2, <3>3 DEF Texts
    <3>5. Good(new, quiet)
      BY <1>1, <2>1, <3>2, <3>3, <3>4 DEF Good
    <3> QED BY <3>1, <3>3, <3>5 DEF new
  <2> QED BY <2>2, <2>3
<1>6. CASE ReadReturn(p)
  <2> DEFINE piece == [text |-> r.text, from |-> r.pos, to |-> r.pos + r.count]
             new == [Closed EXCEPT !.pc = "call", !.errors = r.errors,
                                   !.pos = r.pos + r.count,
                                   !.pieces = Append(r.pieces, piece)]
  <2>1. Becomes(p, new) /\ UNCHANGED Chip /\ r.pc = "copy"
    BY <1>6 DEF ReadReturn, Piece, At
  <2>2. /\ r.pieces \in Seq(Pieces) /\ r.pos \in Nat /\ r.text \in Texts /\ r.count \in Nat \ {0}
        /\ Chain(r.pieces, r.pos) /\ r.pos + r.count <= TextLength(r.text) /\ r.errors \in Nat
    BY <1>1, <2>1 DEF Good, Readings
  <2>3. Append(r.pieces, piece) \in Seq(Pieces) /\ Chain(Append(r.pieces, piece), r.pos + r.count)
    BY <2>2, ChainGrows
  <2>4. Closed \in Readings
    BY ClosedGood DEF Good
  <2>5. /\ new \in Readings /\ new.pc = "call" /\ new.pieces = Append(r.pieces, piece)
        /\ new.pos = r.pos + r.count
    <3> DEFINE pos == r.pos + r.count
               pieces == Append(r.pieces, piece)
               errors == r.errors
    <3>1. pos \in Nat /\ errors \in Nat /\ pieces \in Seq(Pieces)
      BY <2>2, <2>3
    <3> HIDE DEF pos, pieces, errors
    <3>2. /\ [Closed EXCEPT !.pc = "call", !.errors = errors, !.pos = pos, !.pieces = pieces]
               \in Readings
      BY <2>4, <3>1 DEF Readings
    <3> QED BY <2>4, <3>2 DEF Readings, pos, pieces, errors
  <2>6. quiet => \A i \in 1 .. Len(new.pieces) : new.pieces[i].text = Text(register)
    <3> SUFFICES ASSUME quiet, NEW i \in 1 .. Len(new.pieces)
                 PROVE  new.pieces[i].text = Text(register)
      OBVIOUS
    <3>1. piece \in Pieces /\ piece.text = r.text
      BY <2>2 DEF Pieces
    <3>2. /\ r.text = Text(register)
          /\ \A k \in 1 .. Len(r.pieces) : r.pieces[k].text = Text(register)
      BY <1>1, <2>1 DEF Good
    <3> HIDE DEF piece
    <3>3. CASE i = Len(r.pieces) + 1
      BY <2>2, <2>5, <3>1, <3>2, <3>3
    <3>4. CASE i # Len(r.pieces) + 1
      BY <2>2, <2>5, <3>1, <3>2, <3>4
    <3> QED BY <3>3, <3>4
  <2> HIDE DEF new
  <2>7. Good(new, quiet)
    BY <2>3, <2>5, <2>6 DEF Good
  <2> QED BY <2>1, <2>5, <2>7
<1>7. CASE lm75a_read_temp(p) /\ ~Fails(p)
  <2> DEFINE new == [r EXCEPT !.pc = "end", !.val = temp_val(register)]
  <2>1. Becomes(p, new) /\ UNCHANGED Chip /\ driver = "hwmon"
    BY <1>7 DEF lm75a_read_temp
  <2>2. /\ new \in Readings /\ new.pc = "end" /\ new.val = temp_val(register)
        /\ new.pieces = r.pieces /\ new.pos = r.pos
    BY <1>1, <1>2 DEF Readings
  <2>3. Good(new, quiet)
    BY <1>1, <2>1, <2>2 DEF Good
  <2> QED BY <2>1, <2>2, <2>3
<1>8. CASE lm75a_release(p)
  <2>1. Closed \in Readings /\ Good(Closed, quiet)
    BY ClosedGood DEF Good
  <2> QED BY <1>8, <2>1 DEF lm75a_release
<1> QED
  BY <1>3, <1>4, <1>5, <1>6, <1>7, <1>8
  DEF Reading, lm75a_read, i2c_master_recv, CopyFault, lm75a_read_temp

(* The chip has measured: no reading is quiet any more.                     *)
LEMMA MeasureProgram == IInv /\ Measure => ProgramInv'
<1> SUFFICES ASSUME IInv, Measure
             PROVE  ProgramInv'
  OBVIOUS
<1>1. /\ register' \in Registers /\ driver' = driver /\ program' = program
      /\ steady' = [p \in Thermometers |-> FALSE]
  BY DEF Measure
<1>2. ASSUME NEW p \in Thermometers
      PROVE  Good(program[p], steady[p])'
  <2>1. Good(program[p], steady[p])
    BY DEF IInv, ProgramInv
  <2>2. steady'[p] = FALSE
    BY <1>1
  <2> QED BY <1>1, <2>1, <2>2 DEF Good
<1> QED BY <1>1, <1>2 DEF IInv, ProgramInv

(* A step of one program leaves the readings of the others.                 *)
LEMMA ProgramMoves ==
  ASSUME IInv, NEW p \in Thermometers, NEW new \in Readings, Becomes(p, new),
         UNCHANGED <<register, driver>>, DOMAIN steady' = Thermometers,
         \A t \in Thermometers \ {p} : steady'[t] = steady[t], Good(new, steady'[p])
  PROVE  ProgramInv'
<1>1. /\ program' = [program EXCEPT ![p] = new] /\ program \in [Thermometers -> Readings]
      /\ program' \in [Thermometers -> Readings] /\ program'[p] = new
      /\ \A t \in Thermometers \ {p} : program'[t] = program[t]
  BY DEF IInv, ProgramInv, Becomes
<1>2. ASSUME NEW t \in Thermometers
      PROVE  Good(program'[t], steady'[t])
  <2>1. CASE t = p
    BY <1>1, <2>1
  <2>2. CASE t # p
    BY <1>1, <2>2 DEF IInv, ProgramInv
  <2> QED BY <2>1, <2>2
<1>3. ASSUME NEW t \in Thermometers
      PROVE  Good(program[t], steady[t])'
  BY <1>2 DEF Good
<1> QED BY <1>1, <1>3 DEF IInv, ProgramInv

(* The step of a program preserves the invariant of the readings.           *)
LEMMA ProgramStep ==
  ASSUME IInv, NEW p \in Thermometers, Open(p) \/ Reading(p)
  PROVE  ProgramInv'
<1>1. CASE Open(p)
  <2> DEFINE new == [Closed EXCEPT !.pc = "call"]
  <2>1. /\ Becomes(p, new) /\ UNCHANGED <<register, driver>>
        /\ steady' = [steady EXCEPT ![p] = TRUE] /\ DOMAIN steady = Thermometers
    BY <1>1 DEF Open, IInv, ProgramInv
  <2>2. /\ DOMAIN steady' = Thermometers
        /\ \A t \in Thermometers \ {p} : steady'[t] = steady[t]
    BY <2>1
  <2>3. new \in Readings /\ Good(new, steady'[p])
    BY ClosedGood DEF Good
  <2> HIDE DEF new
  <2> QED BY <2>1, <2>2, <2>3, ProgramMoves
<1>2. CASE Reading(p)
  <2>1. PICK new \in Readings : Becomes(p, new) /\ Good(new, steady[p]) /\ UNCHANGED Chip
    BY <1>2, ReadingGood
  <2>2. UNCHANGED <<register, driver, steady>> /\ DOMAIN steady = Thermometers
    BY <2>1 DEF Chip, IInv, ProgramInv
  <2> QED BY <2>1, <2>2, ProgramMoves
<1> QED BY <1>1, <1>2

-----------------------------------------------------------------------------
(* A call on the clock leaves its own record right, and no other.           *)
LEMMA ClockMoves ==
  ASSUME ClockInv, NEW p \in Clocks, NEW op \in {"idle", "copy"}, NEW count \in Nat,
         NEW moved \in Nat, NEW ret \in {EIO, EFAULT} \cup Nat,
         clock' = [clock EXCEPT ![p] =
                     [op |-> op, count |-> count, moved |-> moved, ret |-> ret]],
         op = "copy" => moved = MsgLen(count),
         op = "idle" /\ ret \in 0 .. MsgRange - 1 => moved = ret
  PROVE  ClockInv'
<1> DEFINE new == [op |-> op, count |-> count, moved |-> moved, ret |-> ret]
<1>1. /\ new \in [op : {"idle", "copy"}, count : Nat, moved : Nat, ret : Int]
      /\ new.op = op /\ new.count = count /\ new.moved = moved /\ new.ret = ret
  BY DEF EIO, EFAULT
<1> HIDE DEF new
<1>2. clock' = [clock EXCEPT ![p] = new]
  BY DEF new
<1>3. clock' \in [Clocks -> [op : {"idle", "copy"}, count : Nat, moved : Nat, ret : Int]]
  BY <1>1, <1>2 DEF ClockInv
<1>4. clock'[p] = new /\ \A q \in Clocks \ {p} : clock'[q] = clock[q]
  BY <1>2 DEF ClockInv
<1>5. ASSUME NEW q \in Clocks
      PROVE  /\ clock'[q].ret \in {EIO, EFAULT} \cup Nat
             /\ clock'[q].op = "copy" => clock'[q].moved = MsgLen(clock'[q].count)
             /\ clock'[q].op = "idle" /\ clock'[q].ret \in 0 .. MsgRange - 1 =>
                  clock'[q].moved = clock'[q].ret
  <2>1. CASE q = p
    BY <1>1, <1>4, <2>1
  <2>2. CASE q # p
    BY <1>4, <2>2 DEF ClockInv
  <2> QED BY <2>1, <2>2
<1> QED BY <1>3, <1>5 DEF ClockInv

(* Below the range of msg.len nothing of a length is cut.                   *)
LEMMA ShortLengths ==
  ASSUME NEW count \in Nat
  PROVE  MsgLen(count) \in Nat /\ (count \in 0 .. MsgRange - 1 => MsgLen(count) = count)
BY ClientsAssumption DEF MsgLen

(* Every step of a program on the clock preserves its invariant.            *)
LEMMA ClockStep ==
  ASSUME ClockInv, NEW p \in Clocks, my_read(p) \/ my_readReturn(p) \/ my_write(p)
  PROVE  ClockInv'
<1>1. ASSUME NEW count \in ClockCounts,
             clock' = [clock EXCEPT ![p] =
                         [op |-> "idle", count |-> count, moved |-> 0, ret |-> EIO]]
      PROVE  ClockInv'
  <2>1. count \in Nat /\ ~(EIO \in 0 .. MsgRange - 1)
    BY ClientsAssumption DEF EIO
  <2> QED BY <1>1, <2>1, ClockMoves
<1>2. ASSUME NEW count \in ClockCounts,
             clock' = [clock EXCEPT ![p] =
                         [op |-> "copy", count |-> count, moved |-> MsgLen(count), ret |-> 0]]
      PROVE  ClockInv'
  <2>1. count \in Nat /\ MsgLen(count) \in Nat
    BY ClientsAssumption, ShortLengths
  <2> QED BY <1>2, <2>1, ClockMoves
<1>3. ASSUME NEW count \in ClockCounts,
             clock' = [clock EXCEPT ![p] =
                         [op |-> "idle", count |-> count, moved |-> MsgLen(count), ret |-> count]]
      PROVE  ClockInv'
  <2>1. /\ count \in Nat /\ MsgLen(count) \in Nat
        /\ count \in 0 .. MsgRange - 1 => MsgLen(count) = count
    BY ClientsAssumption, ShortLengths
  <2> QED BY <1>3, <2>1, ClockMoves
<1>4. ASSUME clock[p].op = "copy", NEW ret \in {clock[p].count, EFAULT}, Returns(p, ret)
      PROVE  ClockInv'
  <2> DEFINE call == clock[p]
  <2>1. /\ call \in [op : {"idle", "copy"}, count : Nat, moved : Nat, ret : Int]
        /\ call.moved = MsgLen(call.count)
    BY <1>4 DEF ClockInv
  <2>2. call.count \in Nat /\ call.moved \in Nat /\ ret \in {EIO, EFAULT} \cup Nat
    BY <1>4, <2>1
  <2>3. clock' = [clock EXCEPT ![p] =
                    [op |-> "idle", count |-> call.count, moved |-> call.moved, ret |-> ret]]
    <3>1. clock' = [clock EXCEPT ![p] = [call EXCEPT !.op = "idle", !.ret = ret]]
      BY <1>4 DEF Returns, ClockInv
    <3> HIDE DEF call
    <3>2. [call EXCEPT !.op = "idle", !.ret = ret]
            = [op |-> "idle", count |-> call.count, moved |-> call.moved, ret |-> ret]
      <4> DEFINE done == [call EXCEPT !.op = "idle", !.ret = ret]
      <4>1. ret \in Int
        BY <2>2 DEF EIO, EFAULT
      <4>2. /\ done \in [op : {"idle", "copy"}, count : Nat, moved : Nat, ret : Int]
            /\ done.op = "idle" /\ done.count = call.count /\ done.moved = call.moved
            /\ done.ret = ret
        BY <2>1, <4>1
      <4> HIDE DEF done
      <4>3. done = [op |-> done.op, count |-> done.count, moved |-> done.moved, ret |-> done.ret]
        BY <4>2
      <4> QED BY <4>2, <4>3 DEF done
    <3> QED BY <3>1, <3>2
  <2>4. ret \in 0 .. MsgRange - 1 => call.moved = ret
    <3>1. ~(EFAULT \in 0 .. MsgRange - 1)
      BY ClientsAssumption DEF EFAULT
    <3> QED BY <1>4, <2>1, <2>2, <3>1, ShortLengths
  <2> HIDE DEF call
  <2> QED BY <2>1, <2>2, <2>3, <2>4, ClockMoves
<1> QED BY <1>1, <1>2, <1>3, <1>4 DEF my_read, my_readReturn, my_write

-----------------------------------------------------------------------------
(* Every file is closed and no call was made: the invariant holds.          *)
LEMMA InitIInv == Init => IInv
<1> SUFFICES ASSUME Init
             PROVE  IInv
  OBVIOUS
<1>1. Closed \in Readings /\ \A quiet : Good(Closed, quiet)
  BY ClosedGood DEF Good
<1>2. ProgramInv
  BY <1>1 DEF Init, ProgramInv
<1>3. ClockInv
  BY DEF Init, NoCall, ClockInv
<1> QED BY <1>2, <1>3 DEF IInv

(* The invariant is inductive.                                              *)
LEMMA NextIInv == IInv /\ [Next]_vars => IInv'
<1> SUFFICES ASSUME IInv, [Next]_vars
             PROVE  IInv'
  OBVIOUS
<1>1. CASE UNCHANGED vars
  BY <1>1 DEF vars, IInv, ProgramInv, ClockInv, Good
<1>2. CASE Measure
  <2>1. ProgramInv'
    BY <1>2, MeasureProgram
  <2>2. ClockInv'
    BY <1>2 DEF Measure, IInv, ClockInv
  <2> QED BY <2>1, <2>2 DEF IInv
<1>3. ASSUME NEW p \in Thermometers, Open(p) \/ Reading(p)
      PROVE  IInv'
  <2>1. ProgramInv'
    BY <1>3, ProgramStep
  <2>2. clock' = clock
    BY <1>3 DEF Open, Reading, Chip, lm75a_read, i2c_master_recv, CopyFault, ReadReturn,
                lm75a_read_temp, lm75a_release
  <2> QED BY <2>1, <2>2 DEF IInv, ClockInv
<1>4. ASSUME NEW p \in Clocks, my_read(p) \/ my_readReturn(p) \/ my_write(p)
      PROVE  IInv'
  <2>1. ClockInv'
    BY <1>4, ClockStep DEF IInv
  <2>2. UNCHANGED Thermometer
    BY <1>4 DEF my_read, my_readReturn, my_write
  <2>3. ProgramInv'
    BY <2>2 DEF Thermometer, IInv, ProgramInv, Good
  <2> QED BY <2>1, <2>3 DEF IInv
<1> QED BY <1>1, <1>2, <1>3, <1>4 DEF Next

(* The inductive invariant holds in every behaviour.                        *)
THEOREM ClientsInvariant == Spec => []IInv
BY InitIInv, NextIInv, PTL DEF Spec

(* lm75a_read never copies a byte from behind kbuf, whichever temperatures  *)
(* its calls find and at whichever position of the file.                    *)
THEOREM TypeCorrect == Spec => []TypeOK
<1>1. IInv => TypeOK
  <2> SUFFICES ASSUME IInv
               PROVE  TypeOK
    OBVIOUS
  <2>1. ASSUME NEW p \in Thermometers, program[p].pc = "copy"
        PROVE  program[p].pos + program[p].count < KBUF
    <3>1. Good(program[p], steady[p]) /\ program[p] \in Readings
      BY DEF IInv, ProgramInv
    <3>2. program[p].pos + program[p].count <= TextLength(program[p].text)
      BY <2>1, <3>1 DEF Good
    <3>3. /\ program[p].pos \in Nat /\ program[p].count \in Nat
          /\ TextLength(program[p].text) \in 22 .. 25
      BY <3>1 DEF Readings, Texts
    <3> QED BY <3>2, <3>3 DEF KBUF
  <2>2. \A p \in Clocks : clock[p].ret \in {EIO, EFAULT} \cup Nat
    BY DEF IInv, ClockInv
  <2> QED BY <2>1, <2>2 DEF TypeOK, IInv, ProgramInv
<1> QED BY <1>1, ClientsInvariant, PTL

(* The pieces of a reading of lm75a_read follow one another from the first  *)
(* byte to the end of some temperature's text, each inside the text it was  *)
(* cut from: nothing is lost or read twice, for every sequence of           *)
(* temperatures, of lengths asked for and of failing calls.                 *)
THEOREM PiecesInOrder == Spec => []PiecesFollow
<1>1. IInv => PiecesFollow
  <2> SUFFICES ASSUME IInv, NEW p \in Thermometers
               PROVE  LET r == program[p]
                          Begin(i) == IF i = 1 THEN 0 ELSE r.pieces[i - 1].to
                      IN /\ \A i \in 1 .. Len(r.pieces) :
                              /\ r.pieces[i].from = Begin(i)
                              /\ r.pieces[i].to
                                   \in Begin(i) + 1 .. TextLength(r.pieces[i].text)
                         /\ r.pc = "end" /\ driver = "char" =>
                              \E buf \in Registers :
                                TextLength(Text(buf)) <= Begin(Len(r.pieces) + 1)
    BY DEF PiecesFollow
  <2>1. Good(program[p], steady[p])
    BY DEF IInv, ProgramInv
  <2> QED BY <2>1 DEF Good, Chain, Start
<1> QED BY <1>1, ClientsInvariant, PTL

(* While the temperature stands, a finished reading of either driver tells  *)
(* it, whatever the register holds: of the text only -0.5 degrees is        *)
(* excepted, of hwmon's number all that are negative.                       *)
THEOREM TemperatureRead == Spec => []ReadsTemperature
<1>1. IInv => ReadsTemperature
  <2> SUFFICES ASSUME IInv, NEW p \in Thermometers, At(p, "end"), steady[p]
               PROVE  IF driver = "char"
                      THEN \A i \in 1 .. Len(program[p].pieces) :
                             LET text == program[p].pieces[i].text
                             IN Millidegrees(register) # -500
                                  => Named(text) = Millidegrees(register)
                      ELSE Millidegrees(register) >= 0
                             => program[p].val = Millidegrees(register)
    BY DEF ReadsTemperature
  <2>1. /\ Good(program[p], steady[p]) /\ driver \in {"char", "hwmon"}
        /\ register \in Bytes \X Bytes
    BY ClientsAssumption DEF IInv, ProgramInv
  <2>2. /\ \A i \in 1 .. Len(program[p].pieces) :
             program[p].pieces[i].text = Text(register)
        /\ driver = "hwmon" => program[p].val = temp_val(register)
    BY <2>1 DEF Good, At
  <2> QED BY <2>1, <2>2, TextNames, HalfDegrees
<1> QED BY <1>1, ClientsInvariant, PTL

(* A call on the clock that returns a length below the range of msg.len has *)
(* moved that many bytes, for every width of msg.len.                       *)
THEOREM BytesMoved == Spec => []MovesWhatItReturns
<1>1. IInv => MovesWhatItReturns
  BY DEF IInv, ClockInv, MovesWhatItReturns
<1> QED BY <1>1, ClientsInvariant, PTL
=============================================================================
