------------------------ MODULE MCNotificationQueue ------------------------
(* Two readers, a queue of two entries, one coalesce key. *)
EXTENDS NotificationQueue

CONSTANTS r1, r2, k1

Readers == {r1, r2}
=============================================================================
