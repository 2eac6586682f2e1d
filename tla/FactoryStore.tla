---------------------------- MODULE FactoryStore ----------------------------
(***************************************************************************)
(* What the factory area promises to its callers as long as every flush is *)
(* synced and the flash takes every write: it is one atomic register.  The *)
(* stored tar changes only to the tar of the flush in flight, in one step, *)
(* and a flush that returned 0 has taken that step; a power cut at any     *)
(* moment leaves the stored tar alone.                                     *)
(***************************************************************************)
CONSTANTS
  Values,  (* What can be stored. *)
  Empty    (* Nothing is stored; no member of Values. *)

VARIABLES
  stored,   (* What a start of the program finds.                          *)
  pending,  (* What the flush in flight has yet to store, Empty when none. *)
  result    (* "busy" while a flush is in flight, "ok" as it returns 0.    *)

vars == <<stored, pending, result>>

Init ==
  /\ stored \in Values \cup {Empty}
  /\ pending = Empty
  /\ result = "none"

Begin ==
  /\ result # "busy" /\ result' = "busy"
  /\ pending' \in Values
  /\ UNCHANGED stored

Store ==
  /\ pending # Empty
  /\ stored' = pending /\ pending' = Empty
  /\ UNCHANGED result

Finish ==
  /\ result = "busy" /\ pending = Empty
  /\ result' = "ok"
  /\ UNCHANGED <<stored, pending>>

\* The caller takes note, and goes on to other things.
Settle ==
  /\ result = "ok" /\ result' = "none"
  /\ UNCHANGED <<stored, pending>>

Crash ==
  /\ pending' = Empty /\ result' = "none"
  /\ UNCHANGED stored

Next == Begin \/ Store \/ Finish \/ Settle \/ Crash

Spec == Init /\ [][Next]_vars
=============================================================================
