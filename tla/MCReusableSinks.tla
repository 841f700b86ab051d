----------------------------- MODULE MCReusableSinks -----------------------------
(* ReusableSinks for TLC: two streams share a factory, and every system call   *)
(* may fail.                                                                   *)
EXTENDS ReusableSinks, TLC

CONSTANTS u1, u2

MCStreams == {u1, u2}
StreamSymmetry == Permutations(MCStreams)

================================================================================
