--------------------------- MODULE MCLegacyEngine ---------------------------
(* Model values for checking LegacyEngine with TLC.                        *)
EXTENDS LegacyEngine

\* Body lines of one and two size units, plain and dot-stuffed.
MCBodyLines == [len : {1, 2}, dot : BOOLEAN] \ {[len |-> 1, dot |-> TRUE]}

=============================================================================
