----------------------------- MODULE MCContainers -----------------------------
(***************************************************************************)
(* Constants for the model checking of the containers of the ut headers.   *)
(***************************************************************************)
EXTENDS Containers

\* Elements 1 and 4 have the same key, a and b meet in every table, c leaves them
\* at 32 buckets: expansions help, and do not.  Ranks are tied.
Key == <<"a", "b", "c", "a">>
Hashed == [a |-> 0, b |-> 32, c |-> 16]
Ranks == <<2, 1, 2, 1>>
=============================================================================
