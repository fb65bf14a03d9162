---------------------------- MODULE MC_MasterRtu ----------------------------
(* Model-checking instance of MasterRtu: unit 1 answers FC3 reads of one   *)
(* register and FC6 writes of two different values; unit 0 is a broadcast. *)
EXTENDS MasterRtu

MCKinds ==
    { [unit |-> 1, fc |-> 3, arg |-> 1],
      [unit |-> 1, fc |-> 6, arg |-> 10],
      [unit |-> 1, fc |-> 6, arg |-> 11],
      [unit |-> 0, fc |-> 6, arg |-> 10] }

\* The read alone: the run about a partial FC3 answer
MCKindsRead ==
    { [unit |-> 1, fc |-> 3, arg |-> 1] }
=============================================================================
