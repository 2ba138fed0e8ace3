---------------------------- MODULE MCLeadIntake ----------------------------
(***************************************************************************)
(* Finite instances of LeadIntake: forms of one phone, the first with the  *)
(* email address e1 and a normal dwell time, the others without an email   *)
(* address and with a short one; the first page and the last may be one.     *)
(***************************************************************************)
EXTENDS LeadIntake, TLC

CONSTANTS FirstWebhook, FirstPage, LastPage, ThePhone, TheEmail

FormsOfOnePhone ==
    [w \in Webhooks |->
        IF w = FirstWebhook
        THEN [phone |-> ThePhone, email |-> TheEmail, page |-> FirstPage,
              short_dwell |-> FALSE]
        ELSE [phone |-> ThePhone, email |-> NoEmail, page |-> LastPage,
              short_dwell |-> TRUE]]

Symmetry == Permutations(Handlers)

=============================================================================
