------------------------------- MODULE Bmp085 -------------------------------
(***************************************************************************)
(* The arithmetic that turns the raw readings of a BMP085 into tenths of a *)
(* degree and pascals, with the calibration c = [ac1, ..., md] read from   *)
(* the sensor at start-up, OSS being 0.  Numbers that need all 32 bits of a*)
(* long are kept in parts.                                                 *)
(***************************************************************************)
EXTENDS Integers

(* x >> n of a signed number *)
Shr(x, n) == x \div 2^n

(* C's division, for a positive divisor. *)
Quotient(a, b) == IF a < 0 THEN -((-a) \div b) ELSE a \div b

(* (x * f * g * h) / b in three steps of a long division: the product may  *)
(* not fit.                                                                *)
Scaled(x, f, g, h, b) ==
    LET first  == (x % b) * f
        second == (first % b) * g
        third  == (second % b) * h
    IN (((x \div b) * f + first \div b) * g + second \div b) * h + third \div b

-----------------------------------------------------------------------------
(* bmp085GetTemperature()                                                  *)

B5(c, ut) ==
    LET x1 == Shr((ut - c.ac6) * c.ac5, 15)
    IN x1 + Quotient(c.mc * 2048, x1 + c.md)

Tenths(b5) == Shr(b5 + 8, 4)

-----------------------------------------------------------------------------
(* bmp085GetPressure()                                                     *)

(* The upper 20 bits of b2 * (b6 * b6): the product is made before the     *)
(* shift and keeps 32 bits.                                                *)
Product(c, b6) ==
    LET square == b6 * b6
        exact  == c.b2 * Shr(square, 12) + Shr(c.b2 * (square % 4096), 12)
    IN ((exact + 2^19) % 2^20) - 2^19

(* Mutant of B3: the second term is shifted by 12 as well. *)
B3Shifted(c, b5) ==
    LET b6 == b5 - 4000
        x3 == Shr(Product(c, b6), 11) + Shr(c.ac2 * b6, 12)
    IN Shr(c.ac1 * 4 + x3 + 2, 2)

B3(c, b5) ==
    LET b6 == b5 - 4000
        x3 == Shr(Product(c, b6), 11) + Shr(c.ac2 * b6, 11)
    IN Shr(c.ac1 * 4 + x3 + 2, 2)

B4(c, b5) ==
    LET b6 == b5 - 4000
        x3 == Shr(Shr(c.ac3 * b6, 13) + Shr(c.b1 * Shr(b6 * b6, 12), 16) + 2, 2) + 32768
    IN c.ac4 * Shr(x3, 15) + Shr(c.ac4 * (x3 % 32768), 15)

(* Least d with 50000 * d >= 2^31: bit 31 of b7 is set. *)
Half == 42950

(* Mutant of Uncorrected: b7 is always doubled first, in 32 bits. *)
UncorrectedDoubled(d, b4) ==
    Scaled(IF d < Half THEN d ELSE d - Half, 100, 100, 10, b4)

(* p before its last correction; b7 = 50000 * d is doubled first where that*)
(* fits into 32 bits and after the division otherwise.                     *)
Uncorrected(d, b4) ==
    IF d < Half THEN Scaled(d, 100, 100, 10, b4) ELSE Scaled(d, 100, 100, 5, b4) * 2

Corrected(p) == p + Shr(Shr(Shr(p, 8) * Shr(p, 8) * 3038, 16) + Shr(-7357 * p, 16) + 3791, 4)

Pascals(c, b5, up) == Corrected(Uncorrected(up - B3(c, b5), B4(c, b5)))

-----------------------------------------------------------------------------
(* The formula of the sensor's data sheet, as the Adafruit library of the  *)
(* repository has it: the square is shifted before it is multiplied.       *)

ReferenceB3(c, b5) ==
    LET b6 == b5 - 4000
        x3 == Shr(c.b2 * Shr(b6 * b6, 12), 11) + Shr(c.ac2 * b6, 11)
    IN (c.ac1 * 4 + x3 + 2) \div 4

(* 2 * 50000 * d / b4 without a limit on the width. *)
ReferencePascals(c, b5, up) ==
    Corrected(Scaled(up - ReferenceB3(c, b5), 100, 100, 10, B4(c, b5)))

(* b2 * (b6 * b6) fits into a long. *)
Fits(c, b5) ==
    LET s == Shr((b5 - 4000) * (b5 - 4000), 12)
    IN c.b2 * (s + 1) < 2^19 /\ c.b2 * (s + 1) > -2^19
=============================================================================
