------------------------------ MODULE Function ------------------------------
(***************************************************************************)
(* The conversions of APP/Function.c that the host's frames go through:    *)
(* bytes are sent as two hexadecimal characters, and the length field      *)
(* carries the complement of its digits' sum.  Characters are their codes. *)
(***************************************************************************)
EXTENDS Integers

Byte == 0 .. 255
Digit == 0 .. 15
Word == 0 .. 65535
Length == 0 .. 4095

HEX_Table == [d \in Digit |-> IF d < 10 THEN 48 + d ELSE 55 + d]

(* Any other character, lower case included, counts as 0.                  *)
ASCII_Table == [c \in Byte |-> IF c \in 48 .. 57 THEN c - 48
                               ELSE IF c \in 65 .. 70 THEN c - 55
                               ELSE 0]

HEX2ASCII(b) == <<HEX_Table[(b \div 16) % 16], HEX_Table[b % 16]>>

ASCII2HEX(hi, lo) == ((ASCII_Table[hi] * 16) + ASCII_Table[lo]) % 256

-----------------------------------------------------------------------------
(* The complement of a sum modulo a power of two: ~sum + 1.                *)
Complement(sum, modulus) == (modulus - sum) % modulus

DigitAt(x, weight) == (x \div weight) % 16

Bit(x, weight) == (x \div weight) % 2
Either(x, y, weight) ==
  IF Bit(x, weight) = 1 \/ Bit(y, weight) = 1 THEN weight ELSE 0
OrDigits(x, y) ==
  Either(x, y, 1) + Either(x, y, 2) + Either(x, y, 4) + Either(x, y, 8)

(* The complement goes before the three digits of the length; a length of  *)
(* four digits keeps the bits of its first one.                            *)
LengthSum(x) == DigitAt(x, 1) + DigitAt(x, 16) + DigitAt(x, 256)
LCHKsum(x) ==
  (OrDigits(Complement(LengthSum(x) % 16, 16), DigitAt(x, 4096)) * 4096)
    + (x % 4096)

=============================================================================
