------------------------------ MODULE MCParser ------------------------------
(* Model values for checking Parser with TLC.                              *)
EXTENDS Parser

\* No enhanced code, a one-digit one and one with a two-digit detail.
MCEnhancedCodes ==
    {<<>>, <<[class |-> 2, subject |-> 1, detail |-> 0]>>,
     <<[class |-> 5, subject |-> 7, detail |-> 12]>>}

=============================================================================
