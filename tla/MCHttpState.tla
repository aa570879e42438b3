---------------------------- MODULE MCHttpState ----------------------------
(* Instances of HttpState for TLC. *)
EXTENDS HttpState, TLC

CONSTANTS
    listener, w1, w2,   \* model values: the threads
    short, long         \* model values: what is put

AllThreads == {listener, w1, w2}
Nobody     == {}
Symmetric  == Permutations({w1, w2})

TwoContents == {short, long}
TwoLengths  == [c \in TwoContents |-> IF c = short THEN 1 ELSE 2]
=============================================================================
