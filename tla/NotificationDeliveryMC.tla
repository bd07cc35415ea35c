------------------------- MODULE NotificationDeliveryMC ---------------------
(***************************************************************************)
(* NotificationDelivery for model checking: every notification is for all  *)
(* recipients.                                                             *)
(***************************************************************************)
EXTENDS NotificationDelivery

ToEverybody == {Recipients}
=============================================================================
