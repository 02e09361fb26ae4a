---------------------------- MODULE MCResourceEdits ----------------------------
(* Quantities below, between and above the defaults of requests and limits. *)
EXTENDS ResourceEdits

MCQuantities == {10, 100, 1000}
===============================================================================
