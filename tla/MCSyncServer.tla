---------------------------- MODULE MCSyncServer ----------------------------
(* Small instances of SyncServer for TLC. *)
EXTENDS SyncServer, TLC

CONSTANTS c1, c2, c3

\* One core runs at double the frequency of the others.
OneFast == [c \in Cores |-> IF c = c1 THEN 2 * Unit ELSE Unit]

=============================================================================
