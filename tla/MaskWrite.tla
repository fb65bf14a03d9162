------------------------------ MODULE MaskWrite ------------------------------
(***************************************************************************)
(* FC22, Mask Write Register: the value the server writes.  The model's   *)
(* own maskWriteRegister is the host's and follows the MODBUS formula;    *)
(* without it, handleFC22 (unnamed/part_000) reads the register and       *)
(* writes a value it computes with JavaScript's 32-bit ~ and an 8-bit     *)
(* mask.  Operators only; Slave and OperatorQueries use them.             *)
(***************************************************************************)
EXTENDS Integers, Bitwise

\* MODBUS mask write: (v AND andMask) OR (orMask AND NOT andMask), NOT over
\* the 16 bits of a register.
SpecMask(v, and, or) == (v & and) | (or & (65535 ^^ and))

\* Mutant: the 0xff truncation applied to the whole result.
MaskFallbackByteResult(v, and, or) == ((v & and) | (or & (65535 ^^ and))) % 256

\* The fallback's value: (value & andMask) | (orMask & (~andMask & 0xff)).
\* ~andMask & 0xff is the low byte of the complement of andMask.
MaskFallback(v, and, or) == (v & and) | (or & (255 ^^ (and % 256)))
=============================================================================
