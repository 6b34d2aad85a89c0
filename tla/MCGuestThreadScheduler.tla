----------------------- MODULE MCGuestThreadScheduler -----------------------
(***************************************************************************)
(* Guest threads that start in the same function.                          *)
(***************************************************************************)
EXTENDS GuestThreadScheduler

CONSTANTS f, g

KeysOf == Threads \cup {Nested}
Entries == [t \in Threads |-> f]
=============================================================================
