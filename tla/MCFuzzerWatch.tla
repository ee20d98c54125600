--------------------------- MODULE MCFuzzerWatch ---------------------------
(* Three samples before the time is up, two before debug mode's: a fuzzer *)
(* can be flat at once, grow and then be flat, or grow all the time.      *)
EXTENDS FuzzerWatch
=============================================================================
