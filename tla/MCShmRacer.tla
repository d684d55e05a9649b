----------------------------- MODULE MCShmRacer -----------------------------
(* Constants for the model checking of ShmRacer: one set of one thread and   *)
(* one of two, in the order of threadset_table, with a timeout of each kind. *)
EXTENDS ShmRacer

MCThreadSets == << [threads |-> 1, timeout |-> 1], [threads |-> 2, timeout |-> 2] >>
OneSet == << [threads |-> 2, timeout |-> 2] >>
=============================================================================
