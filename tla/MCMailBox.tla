----------------------------- MODULE MCMailBox -----------------------------
(***************************************************************************)
(* MailBox on small sets of senders, workers and messages, given in the    *)
(* configurations as model values.                                         *)
(***************************************************************************)
EXTENDS MailBox

=============================================================================
