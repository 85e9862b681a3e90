--------------------------- MODULE Lm75aRegister ---------------------------
(***************************************************************************)
(* What the two drivers of the LM75A make of its temperature register, the *)
(* two bytes buf[0] and buf[1]: lm75a_read of the character driver a text, *)
(* lm75a_read_temp of the hwmon driver a number.  A text is what its       *)
(* printed numbers are; the words around them only count by their length.  *)
(***************************************************************************)
EXTENDS Integers

Bytes == 0 .. 255
KBUF == 32   \* sizeof(kbuf)

(* The temperature in thousandths of a degree: two's complement of nine     *)
(* bits of half a degree each, left-justified.                              *)
Millidegrees(buf) ==
  LET halves == (256 * buf[1] + buf[2]) \div 128
  IN 500 * (IF halves < 256 THEN halves ELSE halves - 512)

Abs(x) == IF x < 0 THEN -x ELSE x

(* a / b and a % b of C. *)
Quotient(a, b) == IF a < 0 THEN -((-a) \div b) ELSE a \div b
Remainder(a, b) == a - b * Quotient(a, b)

Short(x) == IF x % 65536 < 32768 THEN x % 65536 ELSE (x % 65536) - 65536

(* Mutant: raw_temp is an int. *)
temp_cUnsigned(buf) == 500 * ((256 * buf[1] + buf[2]) \div 128)

(* raw_temp is a short, and >> keeps its sign. *)
temp_c(buf) == 500 * (Short(256 * buf[1] + buf[2]) \div 128)

(* "%d.%03d" *)
Text(buf) == [degrees |-> Quotient(temp_c(buf), 1000),
              thousandths |-> Abs(Remainder(temp_c(buf), 1000))]

(* "Temperature: ", the number, and the unit of two letters, one of   *)
(* them two bytes long, and a newline.                                      *)
TextLength(text) ==
  21 + (IF text.degrees < 0 THEN 1 ELSE 0)
     + (CASE Abs(text.degrees) < 10 -> 1
          [] Abs(text.degrees) \in 10 .. 99 -> 2
          [] OTHER -> 3)

(* What a reader of the text takes the temperature to be. *)
Named(text) ==
  IF text.degrees < 0 THEN 1000 * text.degrees - text.thousandths
                      ELSE 1000 * text.degrees + text.thousandths

(* Mutant: the bytes are not swapped. *)
temp_valSwapped(buf) == 500 * Short((256 * buf[2] + buf[1]) \div 128)

(* i2c_smbus_read_word_data has the first byte low, be16_to_cpu swaps them. *)
(* temp_raw is an int and not negative here: >> brings in no sign.          *)
temp_val(buf) == 500 * Short((256 * buf[1] + buf[2]) \div 128)
=============================================================================
