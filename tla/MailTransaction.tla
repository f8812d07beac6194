--------------------------- MODULE MailTransaction ---------------------------
(***************************************************************************)
(* What a session promises about mail, without the protocol: at most one  *)
(* transaction is open at a time; it gains recipients up to the limit;     *)
(* it is either abandoned or delivered whole, with at least one recipient *)
(* and a body within the size limit; no more than MaxTransactions are      *)
(* delivered; nothing is delivered after the session has ended.           *)
(* (Spec sections 3 and 4.6 of icesmtp.)                                   *)
(***************************************************************************)
EXTENDS Naturals, Sequences

CONSTANTS MaxRecipients, MaxTransactions, MaxMessageSize

VARIABLES
    txn,        \* <<>>, or <<n>>: an open transaction with n recipients
    delivered,  \* the delivered messages, [rcpts, size] each
    ended       \* the session is over

\* The step that ends the session may also be the step of a transaction.
MayEnd == ended' \in {ended, TRUE}

Init == txn = <<>> /\ delivered = <<>> /\ ended = FALSE

Begin ==
    /\ ~ended
    /\ txn = <<>>
    /\ MaxTransactions > 0 => Len(delivered) < MaxTransactions
    /\ txn' = <<0>>
    /\ UNCHANGED <<delivered, ended>>

AddRecipient ==
    /\ ~ended
    /\ txn /= <<>>
    /\ MaxRecipients > 0 => txn[1] < MaxRecipients
    /\ txn' = <<txn[1] + 1>>
    /\ UNCHANGED <<delivered, ended>>

Deliver ==
    \E size \in 0..MaxMessageSize :
        /\ ~ended
        /\ txn /= <<>>
        /\ txn[1] >= 1
        /\ delivered' = Append(delivered, [rcpts |-> txn[1], size |-> size])
        /\ txn' = <<>>
        /\ MayEnd

Abandon ==
    /\ txn /= <<>>
    /\ txn' = <<>>
    /\ MayEnd
    /\ UNCHANGED delivered

End ==
    /\ ~ended
    /\ ended' = TRUE
    /\ UNCHANGED <<txn, delivered>>

Next == Begin \/ AddRecipient \/ Deliver \/ Abandon \/ End

Spec == Init /\ [][Next]_<<txn, delivered, ended>>

=============================================================================
