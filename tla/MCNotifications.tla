--------------------------- MODULE MCNotifications ---------------------------
(* Notifications on instances small enough for TLC.                        *)
EXTENDS Notifications
CONSTANT ann
OneUsersTabs == [s \in Socket |-> ann]
=============================================================================
