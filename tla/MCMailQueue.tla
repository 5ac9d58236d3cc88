---------------------------- MODULE MCMailQueue ----------------------------
(***************************************************************************)
(* MailQueue on small sets of producers and messages, given in the         *)
(* configuration as model values.                                          *)
(***************************************************************************)
EXTENDS MailQueue

=============================================================================
