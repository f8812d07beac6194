------------------------------ MODULE MCEngine ------------------------------
(* Model values for checking Engine with TLC.                              *)
EXTENDS Engine

\* Body lines of one and two size units, plain and dot-stuffed.
MCBodyLines == [len : {1, 2}, dot : BOOLEAN] \ {[len |-> 1, dot |-> TRUE]}

=============================================================================
