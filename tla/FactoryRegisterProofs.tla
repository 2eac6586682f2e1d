------------------------ MODULE FactoryRegisterProofs ------------------------
(***************************************************************************)
(* The factory area implements the atomic register of FactoryStore: the    *)
(* inductive invariant of FactoryProofs, the fact that a synced flush      *)
(* which cannot fail is the only attempt, and one step of the register     *)
(* (or none) for every step of the program, the kernel and the power.      *)
(***************************************************************************)
EXTENDS FactoryProofs

\* Every flush in flight is synced and the only one since the last that was
\* acknowledged.
OnlySynced ==
  /\ attempts # 0 => InFlight
  /\ InFlight => attempts = 1
  /\ pc # "idle" => req.sync

\* The requirements of the theorem: every caller asks for a synced flush and
\* the flash takes every write.
Reliable == ~DdMayFail /\ \A r \in Requests : r.sync

USE DEF PP, NoPP

LEMMA SyncedInit == Init => OnlySynced
  BY DEF Init, OnlySynced, InFlight

LEMMA SyncedNext ==
  ASSUME Reliable, IInv, OnlySynced, [Next]_vars
  PROVE  OnlySynced'
<1> USE DEF device, statics, history, call
<1>1. CASE Call
  <2>1. req' \in Requests /\ pc' = "load" /\ attempts' = attempts /\ ~InFlight
    BY <1>1 DEF Call, InFlight
  <2> QED
    BY <2>1 DEF OnlySynced, Reliable, InFlight
<1>2. CASE UntarFails \/ InitFails \/ TarFails \/ TarTooBig \/ Edit
  <2>1. /\ ~InFlight /\ ~InFlight' /\ attempts' = attempts /\ pc # "idle"
        /\ pc' = "idle" \/ req' = req
    BY <1>2 DEF UntarFails, InitFails, TarFails, TarTooBig, Edit, Return, InFlight
  <2> QED
    BY <2>1 DEF OnlySynced
<1>3. CASE factory_load
  <2>1. PICK o \in LoadOutcome(current_pp') :
          IF ~o[1] /\ ~GoesOnWithoutLoad THEN Return("fail")
          ELSE IF req.op = "check_update_bootcode" THEN CheckMarker(o[2])
          ELSE pc' = "edit" /\ loaded' = o[1] /\ UNCHANGED <<req, flushes, ret>>
    BY <1>3 DEF factory_load
  <2>2. pc = "load" /\ attempts' = attempts
    BY <1>3 DEF factory_load
  <2>3. \/ pc' = "idle"
        \/ pc' = "edit" /\ req' = req
        \/ pc' = pc /\ req'.sync
    BY <2>1 DEF CheckMarker, Return
  <2> QED
    BY <2>2, <2>3 DEF OnlySynced, InFlight
<1>4. CASE Toggle
  <2>1. pc = "flush" /\ pc' = "dd" /\ req' = req
    BY <1>4 DEF Toggle
  <2>2. attempts = 0
    BY <2>1 DEF OnlySynced, InFlight
  <2>3. attempts' = 1
    BY <1>4, <2>2 DEF Toggle
  <2> QED
    BY <2>1, <2>3 DEF OnlySynced, InFlight
<1>5. CASE DdHead \/ DdBody \/ DdTail
  <2>1. InFlight /\ attempts' = attempts /\ req' = req /\ pc # "idle"
    BY <1>5 DEF DdHead, DdBody, DdTail, InFlight
  <2>2. InFlight' /\ pc' # "idle"
    BY <1>5, <2>1 DEF OnlySynced, DdHead, DdBody, DdTail, InFlight
  <2> QED
    BY <2>1, <2>2 DEF OnlySynced
<1>6. CASE DdFails
  BY <1>6 DEF DdFails, Reliable
<1>7. CASE Fsync
  BY <1>7 DEF Fsync, OnlySynced, InFlight
<1>8. CASE Flushed
  <2>1. /\ ~InFlight /\ ~InFlight' /\ attempts' = attempts /\ pc # "idle"
        /\ pc' = "idle" \/ req' = req
    BY <1>8 DEF Flushed, Return, InFlight
  <2> QED
    BY <2>1 DEF OnlySynced
<1>9. CASE Kernel
  <2>1. UNCHANGED <<pc, attempts, req>>
    BY <1>9 DEF Kernel, WriteHead, WriteBody, WriteTail
  <2> QED
    BY <2>1 DEF OnlySynced, InFlight
<1>10. CASE Crash
  BY <1>10 DEF Crash, Restarted, OnlySynced, InFlight
<1>11. CASE RunAgain
  BY <1>11 DEF RunAgain, Restarted, OnlySynced, InFlight
<1>12. CASE UNCHANGED vars
  BY <1>12 DEF vars, OnlySynced, InFlight
<1> QED
  BY <1>1, <1>2, <1>3, <1>4, <1>5, <1>6, <1>7, <1>8, <1>9, <1>10, <1>11, <1>12
     DEF Next, Step, factory_flush

\* While a flush is in flight a start finds the tar of before or the new one,
\* and once it finds the new one there is nothing left to write back.
LEMMA InFlightFinds ==
  ASSUME Ordered, IInv, OnlySynced, InFlight
  PROVE  /\ Recover(disk) \in {acked, tar}
         /\ acked # tar
         /\ Recover(disk) = tar => disk = cache
<1>1. PICK o \in PP : OneAttempt(o)
  BY DEF IInv, OnlySynced, Pending
<1>2. /\ current_pp = Other(o) /\ tried = tar /\ disk[o] = cache[o] /\ tar # Junk
      /\ Other(o) \in PP /\ Other(Other(o)) = o
  BY <1>1, TarIsPast DEF OneAttempt, Other
<1>3. disk \in [PP -> Slot] /\ cache \in [PP -> Slot] /\ Bounded(disk)
  BY BothBounded DEF IInv, TypeOK
<1>4. acked # tar
  <2>1. CASE Valid(disk[o])
    <3>1. disk[o].body = disk[o].head /\ disk[o].head.seq \in Nat /\ tar.seq \in Nat
      BY <1>3, <2>1, TarIsPast DEF IInv, NoHybrid, Valid, Slot, Part, Tar
    <3>2. acked = disk[o].head /\ disk[o].head.seq < tar.seq
      BY <1>1, <1>2, <2>1, <3>1 DEF OneAttempt
    <3> QED
      BY <3>1, <3>2
  <2>2. CASE ~Valid(disk[o])
    BY <1>1, <1>2, <2>2 DEF OneAttempt
  <2> QED
    BY <2>1, <2>2
<1>5. CASE Valid(disk[Other(o)]) /\ disk[Other(o)].head = tar
  <2>1. Pick(disk) = Other(o) /\ Recover(disk) = disk[Other(o)].body
    BY <1>1, <1>2, <1>3, <1>5, PickLatest DEF OneAttempt
  <2>2. disk[Other(o)].body = tar
    BY <1>2, <1>5 DEF IInv, NoHybrid
  <2>3. cache[Other(o)].head = tar
    <3>1. pc \in {"dd", "dd_body", "dd_tail"} => NoTail
      BY DEF IInv, Progress
    <3>2. pc = "fsync"
      BY <1>2, <1>5, <3>1 DEF NoTail, Valid, InFlight
    <3> QED
      BY <1>2, <3>2 DEF IInv, Progress
  <2>4. disk[Other(o)] = cache[Other(o)]
    BY <1>2, <1>5, <2>3 DEF IInv, NoHybrid, Valid
  <2>5. disk = cache
    BY <1>2, <1>3, <2>4 DEF Other
  <2> QED
    BY <1>4, <2>1, <2>2, <2>5
<1>6. CASE Valid(disk[Other(o)]) /\ disk[Other(o)].head # tar
  BY <1>1, <1>2, <1>4, <1>6, PickType DEF OneAttempt, Recover
<1>7. CASE ~Valid(disk[Other(o)])
  <2>1. CASE Valid(disk[o])
    <3>1. Recover(disk) = disk[o].body
      BY <1>3, <1>7, <2>1, PickLatest
    <3> QED
      BY <1>1, <1>4, <2>1, <3>1 DEF OneAttempt
  <2>2. CASE ~Valid(disk[o])
    <3>1. Pick(disk) = NoPP
      BY <1>7, <2>2 DEF Pick, Other
    <3> QED
      BY <1>1, <1>4, <2>2, <3>1 DEF OneAttempt, Recover
  <2> QED
    BY <2>1, <2>2
<1> QED
  BY <1>5, <1>6, <1>7

\* The first part of that, of the state after a step.
LEMMA InFlightFindsNext ==
  ASSUME Ordered
  PROVE  (IInv /\ OnlySynced /\ InFlight => Recover(disk) \in {acked, tar})'
<1>1. IInv /\ OnlySynced /\ InFlight => Recover(disk) \in {acked, tar}
  BY InFlightFinds
<1> QED
  BY <1>1, PTL

LEMMA RecoverIsPast ==
  ASSUME IInv
  PROVE  Recover(disk) \in Part /\ Past(Recover(disk))
<1>1. CASE Pick(disk) = NoPP
  BY <1>1 DEF Recover, Past, Part
<1>2. CASE Pick(disk) # NoPP
  <2>1. Pick(disk) \in PP /\ Recover(disk) = disk[Pick(disk)].body
    BY <1>2, PickType DEF Recover
  <2> QED
    BY <2>1 DEF IInv, TypeOK, AllPast, Slot
<1> QED
  BY <1>1, <1>2

\* The refinement mapping, one step at a time.
LEMMA RegisterInit == Init => Register!Init
<1> SUFFICES ASSUME Init PROVE Register!Init
  OBVIOUS
<1>1. stored \in Tar \cup {Junk}
  BY TypeInit, RecoverType DEF TypeOK, stored, Part
<1>2. pending = Junk /\ result = "none"
  BY DEF Init, pending, result, InFlight
<1> QED
  BY <1>1, <1>2 DEF Register!Init

LEMMA RegisterNext ==
  ASSUME Ordered, Reliable, IInv, IInv', OnlySynced, OnlySynced', [Next]_vars
  PROVE  [Register!Next]_<<stored, pending, result>>
<1> USE DEF device, statics, history, call
<1> DEFINE Stutters == stored' = stored /\ pending' = pending /\ result' = result
<1>1. ASSUME ~InFlight, ~InFlight', disk' = disk, pc # "flushed", pc' # "flushed"
      PROVE  Stutters
  BY <1>1 DEF stored, pending, result
<1>2. CASE Call \/ UntarFails \/ InitFails \/ TarFails \/ TarTooBig \/ Edit
  BY <1>1, <1>2 DEF Call, UntarFails, InitFails, TarFails, TarTooBig, Edit, Return, InFlight
<1>3. CASE factory_load
  <2>1. PICK o \in LoadOutcome(current_pp') :
          IF ~o[1] /\ ~GoesOnWithoutLoad THEN Return("fail")
          ELSE IF req.op = "check_update_bootcode" THEN CheckMarker(o[2])
          ELSE pc' = "edit" /\ loaded' = o[1] /\ UNCHANGED <<req, flushes, ret>>
    BY <1>3 DEF factory_load
  <2>2. pc = "load" /\ disk' = disk
    BY <1>3 DEF factory_load
  <2>3. pc' \in {"idle", "edit", "load"}
    BY <2>1, <2>2 DEF CheckMarker, Return
  <2> QED
    BY <1>1, <2>2, <2>3 DEF InFlight
<1>4. CASE Toggle
  <2>1. pc = "flush" /\ pc' = "dd" /\ disk' = disk /\ InFlight' /\ ~InFlight
    BY <1>4 DEF Toggle, InFlight
  <2>2. stored' = stored /\ result = "none" /\ result' = "busy"
    BY <2>1 DEF stored, result
  <2>3. tar' \in Tar /\ tar'.seq = seq_num + 1 /\ tar'.time = clock
    <3>1. tar' = [seq |-> seq_num + 1, time |-> clock, dir |-> dir]
      BY <1>4 DEF Toggle, tar
    <3> QED
      BY <3>1 DEF IInv, TypeOK, Tar
  <2>4. Recover(disk) # tar'
    <3>1. seq_num \in Nat
      BY DEF IInv, TypeOK
    <3> QED
      BY <2>3, <3>1, RecoverIsPast, FactoryAssumption DEF Past
  <2>5. pending' = tar'
    BY <2>1, <2>4 DEF pending
  <2>6. Register!Begin
    BY <2>2, <2>3, <2>5 DEF Register!Begin
  <2> QED
    BY <2>6 DEF Register!Next
<1>5. CASE DdHead \/ DdBody \/ DdTail
  <2>1. InFlight /\ disk' = disk /\ tar' = tar /\ pc # "flushed"
    BY <1>5 DEF DdHead, DdBody, DdTail, InFlight, tar
  <2>2. InFlight' /\ pc' # "flushed"
    BY <1>5, <2>1 DEF DdHead, DdBody, DdTail, InFlight, OnlySynced
  <2> QED
    BY <2>1, <2>2 DEF stored, pending, result
<1>6. CASE DdFails
  BY <1>6 DEF DdFails, Reliable
<1>7. CASE Fsync
  <2>1. InFlight /\ ~InFlight' /\ disk' = disk /\ pc = "fsync" /\ pc' = "flushed" /\ tar' = tar
    BY <1>7 DEF Fsync, InFlight, tar
  <2>2. acked' = tar /\ attempts' = 0
    BY <1>7 DEF Fsync
  <2>3. Recover(disk) = tar
    BY <2>1, <2>2 DEF IInv, Quiet
  <2>4. pending = Junk /\ pending' = Junk /\ result = "busy" /\ result' = "ok" /\ stored' = stored
    BY <2>1, <2>3 DEF pending, result, stored
  <2>5. Register!Finish
    BY <2>4 DEF Register!Finish
  <2> QED
    BY <2>5 DEF Register!Next
<1>8. CASE Flushed
  <2>1. ~InFlight /\ ~InFlight' /\ disk' = disk /\ pc = "flushed" /\ pc' # "flushed"
    BY <1>8 DEF Flushed, Return, InFlight
  <2>2. pending = Junk /\ pending' = Junk /\ result = "ok" /\ result' = "none" /\ stored' = stored
    BY <2>1 DEF pending, result, stored
  <2>3. Register!Settle
    BY <2>2 DEF Register!Settle
  <2> QED
    BY <2>3 DEF Register!Next
<1>9. CASE Kernel
  <2>1. UNCHANGED <<cache, dir, seq_num, clock, pc, acked, attempts>> /\ disk # cache
    BY <1>9 DEF Kernel, WriteHead, WriteBody, WriteTail
  <2>2. InFlight /\ InFlight' /\ tar' = tar /\ result' = result
    BY <2>1 DEF IInv, Quiet, OnlySynced, InFlight, tar, result
  <2>3. Recover(disk) = acked /\ acked # tar
    BY <2>1, <2>2, InFlightFinds
  <2>4. Recover(disk)' \in {acked, tar}
    BY <2>1, <2>2, InFlightFindsNext
  <2>5. CASE Recover(disk)' = acked
    BY <2>2, <2>3, <2>5 DEF stored, pending
  <2>6. CASE Recover(disk)' = tar
    <3>1. pending = tar /\ pending' = Junk /\ stored' = tar /\ tar # Junk
      BY <2>2, <2>3, <2>6, TarIsPast DEF pending, stored
    <3>2. Register!Store
      BY <2>2, <3>1 DEF Register!Store
    <3> QED
      BY <3>2 DEF Register!Next
  <2> QED
    BY <2>4, <2>5, <2>6
<1>10. CASE Crash
  <2>1. disk' = disk /\ pc' = "idle"
    BY <1>10 DEF Crash, Restarted
  <2>2. Register!Crash
    BY <2>1 DEF Register!Crash, stored, pending, result, InFlight
  <2> QED
    BY <2>2 DEF Register!Next
<1>11. CASE RunAgain
  BY <1>1, <1>11 DEF RunAgain, Restarted, InFlight
<1>12. CASE UNCHANGED vars
  BY <1>12 DEF vars, stored, pending, result, InFlight, tar
<1> QED
  BY <1>2, <1>3, <1>4, <1>5, <1>6, <1>7, <1>8, <1>9, <1>10, <1>11, <1>12
     DEF Next, Step, factory_flush

\* Seen through what a fresh start would load, a program whose flushes are all
\* synced and do not fail is an atomic register that survives power cuts.
THEOREM RegisterImplemented ==
  ASSUME Ordered, Reliable
  PROVE  Spec => ImplementsRegister
<1>1. Init => Register!Init
  BY RegisterInit
<1>2. IInv /\ OnlySynced /\ [Next]_vars => OnlySynced'
  BY SyncedNext
<1>3. IInv /\ IInv' /\ OnlySynced /\ OnlySynced' /\ [Next]_vars
        => [Register!Next]_<<stored, pending, result>>
  BY RegisterNext
<1>4. Spec => Register!Init /\ [][Register!Next]_<<stored, pending, result>>
  BY <1>1, <1>2, <1>3, SyncedInit, Invariant, PTL DEF Spec
<1> QED
  BY <1>4 DEF ImplementsRegister, Register!Spec, Register!vars
==============================================================================
