---------------------------- MODULE MC_MasterTcp ----------------------------
(* Model-checking instance of MasterTcp: unit 1 answers FC3 reads of one   *)
(* register and FC6 writes of two different values; unit 0 is a broadcast. *)
EXTENDS MasterTcp

MCKinds ==
    { [unit |-> 1, fc |-> 3, arg |-> 1],
      [unit |-> 1, fc |-> 6, arg |-> 10],
      [unit |-> 1, fc |-> 6, arg |-> 11],
      [unit |-> 0, fc |-> 6, arg |-> 10] }

\* A read only: two requests of the same kind
MCKindsRead == { [unit |-> 1, fc |-> 3, arg |-> 1] }
=============================================================================
