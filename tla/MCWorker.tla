------------------------------- MODULE MCWorker -------------------------------
(***************************************************************************)
(* Instances of Worker for TLC: the headers sy_map_get finds.              *)
(***************************************************************************)
EXTENDS Worker

\* sy_string_cmp compares up to a terminating zero; a name in the receive buffer has
\* none, and no header is found.
AsWritten == {}

\* What header_tb is for.
AsIntended == Header
===============================================================================
