---------------------------- MODULE MC_AsciiLine ----------------------------
(* Model-checking instance of AsciiLine: an exception answer, and an FC3   *)
(* answer whose zero bytes and 0x10 meet the hex parser's edge cases.      *)
EXTENDS AsciiLine

MCAdus ==
    { [unit |-> 1, fc |-> 134, data |-> << 2 >>],
      [unit |-> 1, fc |-> 3, data |-> << 2, 0, 16 >>] }

\* 'G', LF, ':' and CR
MCNoise == {71, 10, 58, 13}

\* 'G' alone: a non-hex character, which Number('0x..') reads as NaN
MCNoiseLetter == {71}
=============================================================================
