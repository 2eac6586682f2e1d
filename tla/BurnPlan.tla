------------------------------ MODULE BurnPlan -----------------------------
(***************************************************************************)
(* What the burn order promises the installer, without the order: every    *)
(* image is burned at most once, one at a time; an image is listed when it *)
(* is whole and never before; a needed image that fails ends the burn; the *)
(* burn is complete only when every needed image is listed.                *)
(***************************************************************************)
CONSTANTS
  Images,   (* Everything that has a place in the flash. *)
  NoImage   (* No image is being burned; not one of them. *)

VARIABLES
  needed,   (* The images the package cannot do without. *)
  stored,   (* What each image's place holds.            *)
  listed,   (* The images in the table.                  *)
  current,  (* The image being burned.                   *)
  outcome

vars == <<needed, stored, listed, current, outcome>>

Init ==
  /\ needed \in SUBSET Images
  /\ stored = [i \in Images |-> "old"]
  /\ listed = {}
  /\ current = NoImage
  /\ outcome = "running"

Burning == outcome = "running" /\ current # NoImage
Between == outcome = "running" /\ current = NoImage

Start(i) ==
  /\ Between /\ stored[i] = "old"
  /\ stored' = [stored EXCEPT ![i] = "torn"]
  /\ current' = i
  /\ UNCHANGED <<needed, listed, outcome>>

Finish ==
  /\ Burning
  /\ stored' = [stored EXCEPT ![current] = "new"]
  /\ listed' = listed \cup {current}
  /\ current' = NoImage
  /\ UNCHANGED <<needed, outcome>>

\* An image whose place is as it should be without any writing.
Put(i) ==
  /\ Between /\ stored[i] = "old"
  /\ stored' = [stored EXCEPT ![i] = "new"]
  /\ listed' = listed \cup {i}
  /\ UNCHANGED <<needed, current, outcome>>

GiveUp ==
  /\ Burning /\ current \notin needed
  /\ current' = NoImage
  /\ UNCHANGED <<needed, stored, listed, outcome>>

Fail ==
  /\ outcome = "running"
  /\ outcome' = "failed" /\ current' = NoImage
  /\ UNCHANGED <<needed, stored, listed>>

Conclude ==
  /\ Between /\ needed \subseteq listed
  /\ outcome' = "complete"
  /\ UNCHANGED <<needed, stored, listed, current>>

Next == (\E i \in Images : Start(i) \/ Put(i)) \/ Finish \/ GiveUp \/ Fail \/ Conclude

Spec == Init /\ [][Next]_vars
=============================================================================
