------------------------- MODULE MCNotificationOutbox -------------------------
(***************************************************************************)
(* Instances of NotificationOutbox: the slots for requests are alike.      *)
(***************************************************************************)
EXTENDS NotificationOutbox, TLC

Symmetry == Permutations(Calls)
=============================================================================
