------------------------- MODULE FactoryImplements -------------------------
(***************************************************************************)
(* The factory area implements the atomic register of FactoryStore when    *)
(* every request asks for a synced flush, dd does not fail and the kernel  *)
(* writes a slot back in ascending order.  The register's value is what a  *)
(* fresh start of the program would load from the flash.                   *)
(***************************************************************************)
EXTENDS Factory

InFlight == pc \in {"dd", "dd_body", "dd_tail", "fsync"}

stored  == Recover(disk)
pending == IF InFlight /\ Recover(disk) # tar THEN tar ELSE Junk
result  == IF InFlight THEN "busy" ELSE IF pc = "flushed" THEN "ok" ELSE "none"

Register == INSTANCE FactoryStore WITH Values <- Tar, Empty <- Junk

\* Every behaviour of the factory area, seen through its recoverable tar, is
\* a behaviour of the register: flushes take effect atomically and a flush
\* that returned 0 survives every later power cut.
ImplementsRegister == Register!Spec
=============================================================================
