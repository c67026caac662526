--------------------------- MODULE MCShmLifecycle ---------------------------
(* Three processes: the first one, its command or child, and a grandchild. *)
EXTENDS ShmLifecycle
=============================================================================
