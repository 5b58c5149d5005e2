-------------------------------- MODULE Bits --------------------------------
(***************************************************************************)
(* The bits of a bitmap byte, for the NULL bitmaps of EXECUTE (params.rs)  *)
(* and of binary rows (resultset.rs).  Powers are a recursive function and *)
(* not ^, so that one can reason about them.                               *)
(***************************************************************************)
EXTENDS Integers

(* 1u8 << k                                                                *)
Bit[k \in Nat] == IF k = 0 THEN 1 ELSE 2 * Bit[k - 1]

(* byte & (1u8 << k) != 0                                                  *)
IsSet(byte, k) == (byte \div Bit[k]) % 2 = 1

(* The byte of n bits in which exactly those of a set are set.             *)
ByteOf(bits, n) ==
  LET Sum[k \in 0 .. n] ==
        IF k = 0 THEN 0 ELSE Sum[k - 1] + (IF k - 1 \in bits THEN Bit[k - 1] ELSE 0)
  IN  Sum[n]
=============================================================================
