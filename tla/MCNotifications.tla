--------------------------- MODULE MCNotifications ---------------------------
(* Instances of Notifications for TLC.                                     *)
EXTENDS Notifications

CONSTANTS k1, k2, ann, ben
=============================================================================
