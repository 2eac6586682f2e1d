--------------------------- MODULE FactoryProofs ---------------------------
(***************************************************************************)
(* Proofs about the factory area.  The inductive invariant says what ties  *)
(* the page cache to the flash: a header in the cache that has met its own *)
(* copy on the flash has nothing left to write.                            *)
(***************************************************************************)
EXTENDS FactoryImplements, TLAPS

Other(s) == 1 - s

\* A part of a slot was written by an earlier start of the program, or by an
\* earlier flush of this one.
Past(p) ==
  p # Junk => /\ p.seq <= MaxSeq /\ p.time <= clock
              /\ p.time = clock => is_init /\ p.seq <= seq_num

AllPast ==
  \A s \in PP : /\ Past(disk[s].head) /\ Past(disk[s].body) /\ Past(disk[s].tail)
                /\ Past(cache[s].head) /\ Past(cache[s].body) /\ Past(cache[s].tail)

\* No slot ends in the tar being written, on the flash or in the cache.
NoTail == \A s \in PP : disk[s].tail # tar /\ cache[s].tail # tar
NoHead == \A s \in PP : disk[s].head # tar /\ cache[s].head # tar

\* A flush has just succeeded, or the call has returned 0 after one.
Written == \/ pc = "flushed"
           \/ pc = "idle" /\ ret.code = "ok" /\ ret.op # "check_update_bootcode"

\* How far dd has come.
Progress ==
  /\ is_init \/ current_pp = NoPP
  /\ InFlight \/ Written => is_init /\ current_pp \in PP
  /\ pc = "dd" => NoHead /\ NoTail
  /\ pc \in {"dd_body", "dd_tail"} => cache[current_pp].head = tar /\ NoTail
  /\ pc = "dd_tail" => cache[current_pp].body = tar
  /\ pc = "fsync" \/ Written =>
       cache[current_pp] = [head |-> tar, body |-> tar, tail |-> tar]
  /\ InFlight => attempts # 0
  /\ seq_num <= MaxSeq

\* A start header that is its own end header has its own body between.
NoHybrid ==
  \A s \in PP :
    /\ Valid(cache[s]) => cache[s].body = cache[s].head
    /\ Valid(disk[s])  => disk[s].body = disk[s].head
    /\ cache[s].head # Junk /\ cache[s].head = disk[s].tail => disk[s] = cache[s]

\* The counter is ahead of every valid slot, strictly so while it numbers a
\* new tar for the other one.
Ahead ==
  is_init => \A s \in PP : Valid(cache[s]) =>
    /\ cache[s].head.seq <= seq_num
    /\ (InFlight \/ Written) /\ s # current_pp => cache[s].head.seq < seq_num

\* Nothing is pending.
Quiet ==
  attempts = 0 => /\ disk = cache
                  /\ Recover(disk) = acked
                  /\ is_init => current_pp = Pick(disk)

\* Slot o has kept what was in force, and the one attempt went to the other.
OneAttempt(o) ==
  /\ disk[o] = cache[o]
  /\ acked = IF Valid(disk[o]) THEN disk[o].body ELSE Junk
  /\ tried # Junk
  /\ Valid(disk[o]) => disk[o].head.seq < tried.seq
  /\ cache[Other(o)].head # tried => cache[Other(o)] = disk[Other(o)]
  /\ Valid(disk[Other(o)]) /\ disk[Other(o)].head # tried => Pick(disk) = o
  /\ InFlight => current_pp = Other(o) /\ tried = tar

Pending == attempts = 1 => \E o \in PP : OneAttempt(o)

IInv == /\ TypeOK /\ AllPast /\ Progress /\ Ahead /\ Quiet
        /\ Ordered => NoHybrid /\ Pending

-----------------------------------------------------------------------------
(* Types, and what Pick does.                                                *)

USE DEF PP, NoPP

\* The conjuncts of TypeOK about the running call.
CallTypes == /\ pc \in {"idle", "load", "edit", "flush", "dd", "dd_body", "dd_tail", "fsync", "flushed"}
        /\ req \in AllRequests \cup {NoCall} /\ loaded \in BOOLEAN /\ flushes \in 0..2
        /\ ret.code \in {"none", "ok", "fail"}

LEMMA TarType == TypeOK => tar \in Tar
  BY DEF TypeOK, tar, Tar

LEMMA PickType ==
  ASSUME NEW d
  PROVE  /\ Pick(d) \in PP \cup {NoPP}
         /\ Pick(d) # NoPP => Pick(d) \in PP /\ Valid(d[Pick(d)])
  BY DEF Pick, Newest

\* A fresh start of the program finds a tar, or nothing.
LEMMA RecoverType ==
  ASSUME NEW d \in [PP -> Slot]
  PROVE  Recover(d) \in Part
  BY PickType DEF Recover, Slot, Part

LEMMA ExtractType ==
  ASSUME NEW s \in Slot, NEW o \in Extract(s)
  PROVE  o[1] \in BOOLEAN /\ o[2] \in Dir
<1>1. EmptyDir \in Dir
  BY DEF EmptyDir, Dir
<1>2. s.body # Junk => s.body.dir \in Dir
  BY DEF Slot, Part, Tar
<1>3. CASE s.head # Junk /\ s.body = s.head
  <2>1. o = <<TRUE, s.body.dir>> \/ o = <<FALSE, EmptyDir>>
    BY <1>3 DEF Extract
  <2>2. s.body # Junk
    BY <1>3
  <2> QED
    <3>1. <<TRUE, s.body.dir>> \in BOOLEAN \X Dir /\ <<FALSE, EmptyDir>> \in BOOLEAN \X Dir
      BY <2>2, <1>1, <1>2
    <3>2. o \in BOOLEAN \X Dir
      BY <3>1, <2>1
    <3> QED
      BY <3>2
<1>4. CASE ~(s.head # Junk /\ s.body = s.head)
  <2>1. o \in BOOLEAN \X ({EmptyDir} \cup (IF s.body = Junk THEN {} ELSE {s.body.dir}))
    BY <1>4 DEF Extract
  <2> QED
    BY <2>1, <1>1, <1>2
<1> QED
  BY <1>3, <1>4

LEMMA EditedType ==
  ASSUME NEW r \in AllRequests, NEW d \in Dir, NEW e \in Edited(r, d)
  PROVE  e \in Dir
<1>1. CASE r.op = "write_boottable"
  BY <1>1 DEF Edited, AllRequests, Dir
<1>2. CASE r.op = "install_factory"
  <2>1. e \in Installed(r, d)
    BY <1>2 DEF Edited
  <2>2. PICK c \in SUBSET Files, b \in SUBSET Files :
          e = [d EXCEPT !.files =
                 (((d.files \ (IF r.kill_000 /\ ~r.only_bootcode THEN {BOOTPARAM} ELSE {}))
                     \cup c) \ (IF r.bootcode THEN {ENVSETTINGS} ELSE {})) \cup b]
    BY <2>1, FactoryAssumption DEF Installed
  <2> QED
    BY <2>2 DEF Dir
<1>3. CASE r.op = "create_file"
  <2>1. r.file \in Files /\ e = [d EXCEPT !.files = @ \cup {r.file}]
    BY <1>3 DEF Edited, AllRequests
  <2> QED
    BY <2>1 DEF Dir
<1>4. CASE r.op = "remove_file"
  BY <1>4 DEF Edited, AllRequests, Dir
<1>5. CASE r.op \notin {"write_boottable", "install_factory", "create_file", "remove_file"}
  BY <1>5 DEF Edited
<1> QED
  BY <1>1, <1>2, <1>3, <1>4, <1>5

LEMMA LoadOutcomeType ==
  ASSUME TypeOK, NEW pp \in PP \cup {NoPP}, NEW o \in LoadOutcome(pp)
  PROVE  o[1] \in BOOLEAN /\ o[2] \in Dir
<1>1. CASE pp # NoPP
  <2>1. cache[pp] \in Slot /\ o \in Extract(cache[pp])
    BY <1>1 DEF TypeOK, LoadOutcome
  <2> QED
    BY <2>1, ExtractType
<1>2. CASE pp = NoPP
  <2>1. dir \in Dir /\ EmptyDir \in Dir
    BY DEF TypeOK, EmptyDir, Dir
  <2>2. <<FALSE, dir>> \in BOOLEAN \X Dir
    BY <2>1
  <2>3. o \in BOOLEAN \X Dir
    <3>1. CASE CharIsSigned
      BY <1>2, <3>1, <2>2 DEF LoadOutcome
    <3>2. CASE ~CharIsSigned
      BY <1>2, <3>2, <2>1 DEF LoadOutcome
    <3> QED
      BY <3>1, <3>2
  <2> QED
    BY <2>3
<1> QED
  BY <1>1, <1>2

LEMMA InitStaticsType ==
  ASSUME TypeOK, InitStatics
  PROVE  is_init' \in BOOLEAN /\ current_pp' \in PP \cup {NoPP} /\ seq_num' \in Nat
<1>1. CASE is_init
  BY <1>1 DEF TypeOK, InitStatics, statics
<1>2. CASE ~is_init
  <2>1. Pick(cache) # NoPP => cache[Pick(cache)].head.seq \in Nat
    BY PickType DEF TypeOK, Slot, Part, Tar, Valid
  <2> QED
    BY <1>2, <2>1, PickType DEF TypeOK, InitStatics
<1> QED
  BY <1>1, <1>2

LEMMA ReturnType ==
  ASSUME NEW r \in {"ok", "fail"}, Return(r)
  PROVE  CallTypes'
<1>1. pc' = "idle" /\ ret'.code = r /\ req' = NoCall /\ flushes' = 0
  BY DEF Return
<1>2. loaded' \in BOOLEAN
  BY DEF Return
<1>3. pc' \in {"idle", "load", "edit", "flush", "dd", "dd_body", "dd_tail", "fsync", "flushed"}
      /\ req' \in AllRequests \cup {NoCall} /\ flushes' \in 0..2 /\ ret'.code \in {"none", "ok", "fail"}
  BY <1>1
<1> QED
  BY <1>2, <1>3 DEF CallTypes

LEMMA TypeInit == Init => TypeOK
<1> SUFFICES ASSUME Init PROVE TypeOK
  OBVIOUS
<1>1. Blank \in Slot /\ EmptyDir \in Dir
  BY DEF Blank, Slot, Part, EmptyDir, Dir
<1>2. \A d \in FirstDirs : Shipped(d) \in Slot
  BY FactoryAssumption DEF Shipped, FirstTar, Slot, Part, Tar
<1>3. disk \in [PP -> Slot]
  BY <1>1, <1>2 DEF Init
<1>4. acked \in Part /\ Junk \in Part
  BY <1>3, RecoverType DEF Init, Part
<1>5. CallTypes /\ is_init \in BOOLEAN
  <2>1. loaded \in BOOLEAN /\ is_init \in BOOLEAN
    BY DEF Init
  <2>2. flushes \in 0..2 /\ req \in AllRequests \cup {NoCall} /\ ret.code = "none" /\ pc = "idle"
    BY DEF Init, NoResult
  <2> QED
    BY <2>1, <2>2 DEF CallTypes
<1>6. current_pp \in PP \cup {NoPP} /\ seq_num \in Nat /\ clock \in Nat /\ attempts \in 0..2
  BY DEF Init
<1> QED
  BY <1>1, <1>3, <1>4, <1>5, <1>6 DEF Init, TypeOK, CallTypes

LEMMA TypeNext ==
  ASSUME TypeOK, [Next]_vars
  PROVE  TypeOK'
<1> USE DEF device, statics, history, call
<1>0. ASSUME Restarted
        PROVE  CallTypes' /\ is_init' \in BOOLEAN /\ current_pp' = NoPP /\ seq_num' \in Nat /\ clock' \in Nat
  <2>1. loaded' \in BOOLEAN /\ is_init' \in BOOLEAN
    BY <1>0 DEF Restarted
  <2>2. /\ pc' = "idle" /\ req' = NoCall /\ ret'.code = "none" /\ flushes' \in 0..2
        /\ current_pp' = NoPP /\ seq_num' \in Nat /\ clock' \in Nat
    BY <1>0 DEF TypeOK, Restarted, NoResult
  <2> QED
    BY <2>1, <2>2 DEF CallTypes
<1>1. CASE Call
  <2>1. loaded' \in BOOLEAN
    BY <1>1 DEF Call
  <2>2. /\ pc' = "load" /\ req' \in AllRequests /\ ret'.code = "none" /\ flushes' \in 0..2
    BY <1>1, FactoryAssumption DEF Call, NoResult
  <2> QED
    BY <1>1, <2>1, <2>2 DEF TypeOK, Call
<1>2. CASE UntarFails \/ InitFails \/ TarFails \/ DdFails
  <2>1. CallTypes'
    <3>1. CASE Return("fail")
      BY <3>1, ReturnType
    <3>2. CASE pc' = "flush" /\ UNCHANGED <<call, ret>>
      BY <3>2 DEF TypeOK, CallTypes
    <3> QED
      BY <1>2, <3>1, <3>2 DEF UntarFails, InitFails, TarFails, DdFails
  <2>2. UNCHANGED <<device, dir, statics, clock, history>>
    BY <1>2 DEF UntarFails, InitFails, TarFails, DdFails
  <2> QED
    BY <2>1, <2>2 DEF TypeOK, CallTypes
<1>3. CASE factory_load
  <2>1. is_init' \in BOOLEAN /\ current_pp' \in PP \cup {NoPP} /\ seq_num' \in Nat
    BY <1>3, InitStaticsType DEF factory_load
  <2>2. PICK o \in LoadOutcome(current_pp') :
          /\ dir' = o[2]
          /\ IF ~o[1] /\ ~GoesOnWithoutLoad THEN Return("fail")
             ELSE IF req.op = "check_update_bootcode" THEN CheckMarker(o[2])
             ELSE pc' = "edit" /\ loaded' = o[1] /\ UNCHANGED <<req, flushes, ret>>
    BY <1>3 DEF factory_load
  <2>3. o[1] \in BOOLEAN /\ dir' \in Dir
    BY <2>1, <2>2, LoadOutcomeType
  <2>4. CallTypes'
    <3>1. CASE Return("fail") \/ Return("ok")
      BY <3>1, ReturnType
    <3>2. CASE pc' = "edit" /\ loaded' = o[1] /\ UNCHANGED <<req, flushes, ret>>
      BY <3>2, <2>3 DEF TypeOK, CallTypes
    <3>3. CASE /\ req' = [op |-> "remove_file", sync |-> TRUE, file |-> UPDATE_BOOTCODE]
               /\ UNCHANGED <<pc, loaded, flushes, ret>>
      <4>1. req' \in AllRequests
        BY <3>3, FactoryAssumption DEF AllRequests
      <4> QED
        BY <1>3, <3>3, <4>1 DEF TypeOK, factory_load, CallTypes
    <3> QED
      BY <2>2, <3>1, <3>2, <3>3 DEF CheckMarker
  <2> QED
    BY <1>3, <2>1, <2>3, <2>4 DEF TypeOK, factory_load, CallTypes
<1>4. CASE Edit
  <2>1. req \in AllRequests => dir' \in Dir
    BY <1>4, EditedType DEF TypeOK, Edit
  <2>2. req = NoCall => dir' = dir
    BY <1>4 DEF Edit, Edited, NoCall
  <2> QED
    BY <1>4, <2>1, <2>2 DEF TypeOK, Edit
<1>5. CASE TarTooBig
  <2>1. CallTypes'
    BY <1>5, ReturnType DEF TarTooBig
  <2>2. seq_num' \in Nat
    BY <1>5 DEF TypeOK, TarTooBig
  <2> QED
    BY <1>5, <2>1, <2>2 DEF TypeOK, TarTooBig, CallTypes
<1>6. CASE Toggle
  <2>1. seq_num' \in Nat /\ current_pp' \in PP
    BY <1>6 DEF TypeOK, Toggle, NextPP
  <2>2. tar' \in Tar
    BY <1>6, <2>1 DEF TypeOK, Toggle, tar, Tar
  <2> QED
    BY <1>6, <2>1, <2>2 DEF TypeOK, Toggle, Part
<1>7. CASE DdHead \/ DdBody \/ DdTail
  <2>1. cache' \in [PP -> Slot]
    BY <1>7, TarType DEF TypeOK, DdHead, DdBody, DdTail, Slot, Part
  <2> QED
    BY <1>7, <2>1 DEF TypeOK, DdHead, DdBody, DdTail
<1>8. CASE Fsync
  BY <1>8, TarType DEF TypeOK, Fsync, Part
<1>9. CASE Flushed
  <2>1. CallTypes'
    <3>1. CASE Return("ok")
      BY <3>1, ReturnType
    <3>2. CASE pc' = "flush" /\ flushes' = flushes + 1 /\ UNCHANGED <<req, loaded, ret>>
               /\ (flushes = 0 \/ flushes = 1)
      <4>1. flushes' \in 0..2
        BY <3>2
      <4> QED
        BY <3>2, <4>1 DEF TypeOK, CallTypes
    <3> QED
      BY <1>9, <3>1, <3>2 DEF Flushed, FlushAgain
  <2>2. UNCHANGED <<device, dir, statics, clock, history>>
    BY <1>9 DEF Flushed
  <2> QED
    BY <2>1, <2>2 DEF TypeOK, CallTypes
<1>10. CASE Kernel
  <2> PICK s \in PP : WriteHead(s) \/ WriteBody(s) \/ WriteTail(s)
    BY <1>10 DEF Kernel
  <2>1. disk' \in [PP -> Slot]
    BY DEF TypeOK, WriteHead, WriteBody, WriteTail, Slot, Part
  <2> QED
    BY <2>1 DEF TypeOK, WriteHead, WriteBody, WriteTail
<1>11. CASE Crash
  <2>1. acked' \in Part /\ tried' \in Part
    BY <1>11, RecoverType DEF TypeOK, Crash, Part
  <2>2. dir' \in Dir
    BY <1>11 DEF Crash, EmptyDir, Dir
  <2> QED
    BY <1>11, <1>0, <2>1, <2>2 DEF TypeOK, Crash, CallTypes
<1>12. CASE RunAgain
  BY <1>12, <1>0 DEF TypeOK, RunAgain, CallTypes
<1>13. CASE UNCHANGED vars
  BY <1>13 DEF TypeOK, vars
<1> QED
  BY <1>1, <1>2, <1>3, <1>4, <1>5, <1>6, <1>7, <1>8, <1>9, <1>10, <1>11, <1>12, <1>13
     DEF Next, Step, factory_flush

\* In every behaviour the variables keep their types.
THEOREM TypeCorrect == Spec => []TypeOK
<1> QED
  BY TypeInit, TypeNext, PTL DEF Spec

-----------------------------------------------------------------------------
(* Which slot is in force.                                                   *)

\* The sequence numbers on the device d stay below the wrap.
Bounded(d) == \A s \in PP : d[s].head # Junk => d[s].head.seq <= MaxSeq

\* The valid slot with the larger sequence number is in force.
LEMMA PickLatest ==
  ASSUME NEW d \in [PP -> Slot], Bounded(d), NEW o \in PP, Valid(d[o]),
         Valid(d[Other(o)]) => d[Other(o)].head.seq < d[o].head.seq
  PROVE  Pick(d) = o /\ Recover(d) = d[o].body
<1>1. \A s \in PP : Valid(d[s]) => d[s].head.seq \in Nat /\ d[s].head.seq <= MaxSeq
  BY DEF Bounded, Valid, Slot, Part, Tar
<1>2. MaxSeq \in Nat /\ WrapGap \in Nat /\ MaxSeq <= WrapGap
  BY FactoryAssumption
<1>3. Pick(d) = o
  <2>1. CASE Valid(d[Other(o)])
    BY <1>1, <1>2, <2>1 DEF Pick, Newest, Other
  <2>2. CASE ~Valid(d[Other(o)])
    BY <2>2 DEF Pick, Other
  <2> QED
    BY <2>1, <2>2
<1> QED
  BY <1>3 DEF Recover

\* No slot is in force only when none is valid.
LEMMA PickNone ==
  ASSUME NEW d, Pick(d) = NoPP
  PROVE  \A s \in PP : ~Valid(d[s])
  BY DEF Pick, Newest

\* No valid slot has a larger sequence number than the one in force.
LEMMA PickIsMax ==
  ASSUME NEW d \in [PP -> Slot], Bounded(d), Pick(d) # NoPP, NEW s \in PP, Valid(d[s])
  PROVE  d[s].head.seq <= d[Pick(d)].head.seq
<1>1. \A t \in PP : Valid(d[t]) => d[t].head.seq \in Nat /\ d[t].head.seq <= MaxSeq
  BY DEF Bounded, Valid, Slot, Part, Tar
<1>2. MaxSeq \in Nat /\ WrapGap \in Nat /\ MaxSeq <= WrapGap
  BY FactoryAssumption
<1>3. CASE Valid(d[0]) /\ Valid(d[1])
  BY <1>1, <1>2, <1>3 DEF Pick, Newest
<1>4. CASE ~(Valid(d[0]) /\ Valid(d[1]))
  <2>1. Pick(d) = s
    BY <1>4 DEF Pick
  <2> QED
    BY <1>1, <2>1
<1> QED
  BY <1>3, <1>4

\* The 32-bit counter wraps at Modulus.  The comparison still finds the later
\* of two numbers that are k apart across the wrap as long as k is less than
\* Modulus - WrapGap (16 in the code), and as long as it is at most WrapGap
\* away from it.
THEOREM NewestAcrossTheWrap ==
  ASSUME NEW Modulus \in Nat, WrapGap < Modulus,
         NEW p \in 0..(Modulus - 1), NEW k \in 1..WrapGap,
         p + k >= Modulus => k < Modulus - WrapGap
  PROVE  /\ Newest(p, IF p + k < Modulus THEN p + k ELSE p + k - Modulus) = 1
         /\ Newest(IF p + k < Modulus THEN p + k ELSE p + k - Modulus, p) = 0
<1>1. WrapGap \in Nat
  BY FactoryAssumption
<1>2. CASE p + k < Modulus
  BY <1>1, <1>2 DEF Newest
<1>3. CASE p + k >= Modulus
  BY <1>1, <1>3 DEF Newest
<1> QED
  BY <1>2, <1>3

-----------------------------------------------------------------------------
(* The inductive invariant.                                                  *)

LEMMA BothBounded == AllPast => Bounded(disk) /\ Bounded(cache)
  BY DEF AllPast, Past, Bounded

LEMMA InvInit == Init => IInv
<1> SUFFICES ASSUME Init PROVE IInv
  OBVIOUS
<1>1. TypeOK
  BY TypeInit
<1>2. \A s \in PP : \/ disk[s] = Blank
                    \/ \E d \in FirstDirs : disk[s] = Shipped(d)
  BY DEF Init
<1>3. disk = cache /\ pc = "idle" /\ ret.code = "none" /\ seq_num = 0 /\ is_init = FALSE
      /\ current_pp = NoPP /\ clock = 1 /\ attempts = 0 /\ acked = Recover(disk)
  BY DEF Init, NoResult
<1>4. AllPast
  <2>1. \A s \in PP : Past(disk[s].head) /\ Past(disk[s].body) /\ Past(disk[s].tail)
    <3> SUFFICES ASSUME NEW s \in PP
                 PROVE  Past(disk[s].head) /\ Past(disk[s].body) /\ Past(disk[s].tail)
      OBVIOUS
    <3>1. CASE disk[s] = Blank
      BY <3>1 DEF Past, Blank
    <3>2. ASSUME NEW d \in FirstDirs, disk[s] = Shipped(d)
          PROVE  disk[s].head = FirstTar(d) /\ disk[s].body = FirstTar(d) /\ disk[s].tail = FirstTar(d)
      BY <3>2 DEF Shipped
    <3>3. \A d \in FirstDirs : Past(FirstTar(d))
      BY <1>3, FactoryAssumption DEF Past, FirstTar
    <3> QED
      BY <1>2, <3>1, <3>2, <3>3
  <2> QED
    BY <2>1, <1>3 DEF AllPast
<1>5. Progress
  BY <1>3, FactoryAssumption DEF Progress, InFlight, Written
<1>6. NoHybrid
  <2>1. \A s \in PP : Valid(disk[s]) => disk[s].body = disk[s].head
    <3>1. ~Valid(Blank) /\ \A d \in FirstDirs : Shipped(d).body = Shipped(d).head
      BY DEF Valid, Blank, Shipped
    <3> QED
      BY <1>2, <3>1
  <2> QED
    BY <2>1, <1>3 DEF NoHybrid
<1>7. Ahead /\ Quiet /\ Pending
  BY <1>3 DEF Ahead, Quiet, Pending
<1> QED
  BY <1>1, <1>4, <1>5, <1>6, <1>7 DEF IInv

\* Steps of the program that write no slot and move no counter.
LEMMA InvNoWrite ==
  ASSUME IInv, TypeOK', UNCHANGED <<device, statics, clock, history>>,
         ~InFlight', Written' => Written /\ UNCHANGED dir
  PROVE  IInv'
<1> USE DEF device, statics, history
<1>1. AllPast' /\ (Ordered => NoHybrid')
  BY DEF IInv, AllPast, Past, NoHybrid, Valid
<1>2. Progress'
  BY DEF IInv, Progress, InFlight, tar
<1>3. Ahead'
  BY DEF IInv, Ahead, Valid
<1>4. Quiet'
  BY DEF IInv, Quiet
<1>5. Ordered => Pending'
  BY DEF IInv, Pending, OneAttempt
<1> QED
  BY <1>1, <1>2, <1>3, <1>4, <1>5 DEF IInv

\* The program starts again, with or without the page cache.
LEMMA InvRestart ==
  ASSUME IInv, TypeOK', Crash \/ RunAgain
  PROVE  IInv'
<1> USE DEF device, statics, history
<1>1. /\ clock' = clock + 1 /\ is_init' = FALSE /\ current_pp' = NoPP /\ seq_num' = 0
      /\ pc' = "idle" /\ ret'.code = "none" /\ disk' = disk
  BY DEF Crash, RunAgain, Restarted, NoResult
<1>2. cache' = cache \/ cache' = disk
  BY DEF Crash, RunAgain
<1>3. AllPast'
  <2>1. ASSUME NEW p \in Part, Past(p)
        PROVE  Past(p)'
    BY <1>1, <2>1 DEF IInv, TypeOK, Past, Part, Tar
  <2>2. \A s \in PP : disk[s] \in Slot /\ cache[s] \in Slot
    BY DEF IInv, TypeOK
  <2> QED
    BY <1>1, <1>2, <2>1, <2>2 DEF IInv, AllPast, Slot
<1>4. Progress'
  BY <1>1, FactoryAssumption DEF Progress, InFlight, Written
<1>5. Ordered => NoHybrid'
  BY <1>1, <1>2 DEF IInv, NoHybrid, Valid
<1>6. Ahead'
  BY <1>1 DEF Ahead
<1>7. Quiet' /\ (Ordered => Pending')
  <2>1. CASE Crash
    BY <1>1, <2>1 DEF Crash, Quiet, Pending
  <2>2. CASE RunAgain
    BY <1>1, <2>2 DEF RunAgain, IInv, Quiet, Pending, OneAttempt, InFlight
  <2> QED
    BY <2>1, <2>2
<1> QED
  BY <1>3, <1>4, <1>5, <1>6, <1>7 DEF IInv

\* factory_load reads the statics from the slot in force.
LEMMA InvLoad ==
  ASSUME IInv, TypeOK', factory_load
  PROVE  IInv'
<1> USE DEF device, history
<1>1. UNCHANGED <<disk, cache, clock, attempts, acked, tried>> /\ pc = "load" /\ InitStatics
  BY DEF factory_load
<1>2. ~InFlight' /\ ~Written'
  <2>1. PICK o \in LoadOutcome(current_pp') :
          IF ~o[1] /\ ~GoesOnWithoutLoad THEN Return("fail")
          ELSE IF req.op = "check_update_bootcode" THEN CheckMarker(o[2])
          ELSE pc' = "edit" /\ loaded' = o[1] /\ UNCHANGED <<req, flushes, ret>>
    BY DEF factory_load
  <2>2. \/ Return("fail")
        \/ req.op = "check_update_bootcode" /\ Return("ok")
        \/ pc' = pc
        \/ pc' = "edit"
    BY <2>1 DEF CheckMarker
  <2> QED
    BY <1>1, <2>2 DEF Return, InFlight, Written
<1>3. CASE is_init
  BY <1>1, <1>2, <1>3, InvNoWrite DEF InitStatics, statics
<1>4. CASE ~is_init
  <2>1. /\ is_init' = TRUE /\ current_pp' = Pick(cache)
        /\ seq_num' = IF Pick(cache) = NoPP THEN seq_num ELSE cache[Pick(cache)].head.seq
    BY <1>1, <1>4 DEF InitStatics
  <2>2. \A s \in PP : Valid(cache[s]) => cache[s].head.seq <= seq_num'
    BY <2>1, PickNone, PickIsMax, BothBounded DEF IInv, TypeOK
  <2>3. seq_num' <= MaxSeq
    BY <2>1, PickType, BothBounded DEF IInv, TypeOK, Bounded, Valid, Progress
  <2>4. AllPast'
    BY <1>1, <1>4, <2>1 DEF IInv, AllPast, Past
  <2>5. Progress'
    BY <1>2, <2>1, <2>3 DEF Progress, InFlight, Written
  <2>6. Ordered => NoHybrid'
    BY <1>1 DEF IInv, NoHybrid, Valid
  <2>7. Ahead'
    BY <1>1, <1>2, <2>1, <2>2 DEF Ahead, Valid
  <2>8. Quiet'
    BY <1>1, <2>1 DEF IInv, Quiet
  <2>9. Ordered => Pending'
    BY <1>1, <1>2 DEF IInv, Pending, OneAttempt
  <2> QED
    BY <2>4, <2>5, <2>6, <2>7, <2>8, <2>9 DEF IInv
<1> QED
  BY <1>3, <1>4

\* The counter moves on although no slot will be written.
LEMMA InvTarTooBig ==
  ASSUME IInv, TypeOK', TarTooBig
  PROVE  IInv'
<1> USE DEF device, history
<1>1. /\ UNCHANGED <<disk, cache, is_init, current_pp, clock, attempts, acked, tried>>
      /\ is_init /\ seq_num' = seq_num + 1 /\ seq_num < MaxSeq /\ pc' = "idle" /\ ret'.code = "fail"
  BY DEF TarTooBig, Return
<1>2. ~InFlight' /\ ~Written' /\ seq_num \in Nat /\ MaxSeq \in Nat
  BY <1>1, FactoryAssumption DEF InFlight, Written, IInv, TypeOK
<1>3. AllPast'
  <2>1. ASSUME NEW p \in Part, Past(p)
        PROVE  Past(p)'
    BY <1>1, <1>2, <2>1 DEF Past, Part, Tar
  <2>2. \A s \in PP : disk[s] \in Slot /\ cache[s] \in Slot
    BY DEF IInv, TypeOK
  <2> QED
    BY <1>1, <2>1, <2>2 DEF IInv, AllPast, Slot
<1>4. Progress'
  BY <1>1, <1>2 DEF Progress, InFlight, Written
<1>5. Quiet' /\ (Ordered => NoHybrid')
  BY <1>1 DEF IInv, NoHybrid, Quiet, Valid
<1>6. Ahead'
  <2>1. \A s \in PP : Valid(cache[s]) => cache[s].head.seq \in Nat
    BY DEF IInv, TypeOK, Valid, Slot, Part, Tar
  <2> QED
    BY <1>1, <1>2, <2>1 DEF IInv, Ahead, Valid
<1>7. Ordered => Pending'
  BY <1>1, <1>2 DEF IInv, Pending, OneAttempt
<1> QED
  BY <1>3, <1>4, <1>5, <1>6, <1>7 DEF IInv

\* The tar about to be written is new to both slots, and goes to the slot that
\* is not in force.
LEMMA InvToggle ==
  ASSUME IInv, TypeOK', Toggle
  PROVE  IInv'
<1> USE DEF device
<1>1. /\ UNCHANGED <<disk, cache, is_init, clock, dir>>
      /\ is_init /\ seq_num' = seq_num + 1 /\ seq_num < MaxSeq /\ pc' = "dd"
      /\ current_pp' = IF current_pp = NoPP THEN 0 ELSE (current_pp + 1) % 2
  BY DEF Toggle, NextPP
<1>2. seq_num \in Nat /\ MaxSeq \in Nat /\ current_pp' \in PP
  BY <1>1, FactoryAssumption DEF IInv, TypeOK
<1>3. \A s \in PP : disk[s] \in Slot /\ cache[s] \in Slot
  BY DEF IInv, TypeOK
<1>4. AllPast'
  <2>1. ASSUME NEW p \in Part, Past(p)
        PROVE  Past(p)'
    BY <1>1, <1>2, <2>1 DEF Past, Part, Tar
  <2> QED
    BY <1>1, <1>3, <2>1 DEF IInv, AllPast, Slot
<1>5. tar' \in Tar /\ tar'.seq = seq_num + 1 /\ tar'.time = clock
  <2>1. tar' = [seq |-> seq_num', time |-> clock', dir |-> dir']
    BY DEF tar
  <2> QED
    BY <1>1, <2>1 DEF TypeOK, Tar
<1>6. ASSUME NEW p \in Part, Past(p)
      PROVE  p # tar'
  BY <1>2, <1>5, <1>6, FactoryAssumption DEF Past
<1>7. NoHead' /\ NoTail'
  BY <1>1, <1>3, <1>6 DEF IInv, AllPast, NoHead, NoTail, Slot
<1>8. attempts' # 0
  BY DEF Toggle
<1>9. Progress'
  BY <1>1, <1>2, <1>7, <1>8 DEF Progress, InFlight, Written
<1>10. Ordered => NoHybrid'
  BY <1>1 DEF IInv, NoHybrid, Valid
<1>11. \A s \in PP : Valid(cache[s]) => cache[s].head.seq \in Nat /\ cache[s].head.seq <= seq_num
  BY <1>1, <1>3 DEF IInv, Ahead, Valid, Slot, Part, Tar
<1>12. Ahead'
  BY <1>1, <1>2, <1>11 DEF Ahead, Valid
<1>13. Quiet'
  BY <1>8 DEF Quiet
<1>14. Ordered => Pending'
  <2> SUFFICES ASSUME Ordered, attempts' = 1
               PROVE  \E o \in PP : OneAttempt(o)'
    BY DEF Pending
  <2>1. attempts = 0 /\ tried' = tar' /\ acked' = acked
    BY DEF Toggle, IInv, TypeOK
  <2>2. disk = cache /\ acked = Recover(disk) /\ current_pp = Pick(disk)
    BY <1>1, <2>1 DEF IInv, Quiet
  <2>3. tried' # Junk
    BY <1>5, <2>1, FactoryAssumption
  <2>4. CASE Pick(disk) = NoPP
    <3>1. /\ current_pp' = 0 /\ acked' = Junk
      BY <1>1, <2>1, <2>2, <2>4 DEF Recover
    <3>2. \A s \in PP : ~Valid(disk[s])
      BY <2>4, PickNone
    <3>3. OneAttempt(1)'
      BY <1>1, <2>1, <2>2, <2>3, <3>1, <3>2 DEF OneAttempt, Other
    <3> QED
      BY <3>3
  <2>5. CASE Pick(disk) # NoPP
    <3> PICK o \in PP : o = Pick(disk)
      BY <2>5, PickType
    <3>1. Valid(disk[o]) /\ acked' = disk[o].body
      BY <2>1, <2>2, <2>5, PickType DEF Recover
    <3>2. current_pp' = Other(o)
      BY <1>1, <2>2, <2>5, <3>1 DEF Other
    <3>3. disk[o].head.seq < tried'.seq
      BY <1>2, <1>5, <1>11, <2>1, <2>2, <3>1
    <3>4. OneAttempt(o)'
      BY <1>1, <2>1, <2>2, <2>3, <3>1, <3>2, <3>3 DEF OneAttempt, Other
    <3> QED
      BY <3>4
  <2> QED
    BY <2>4, <2>5
<1> QED
  BY <1>4, <1>9, <1>10, <1>12, <1>13, <1>14 DEF IInv

\* The parts dd and the kernel can write are Past parts, or the tar itself.
LEMMA TarIsPast ==
  ASSUME IInv, InFlight
  PROVE  /\ tar \in Tar /\ tar # Junk /\ Past(tar) /\ Past(Junk)
         /\ tar.seq = seq_num /\ is_init /\ current_pp \in PP /\ attempts # 0
<1>1. tar \in Tar /\ tar.seq = seq_num /\ tar.time = clock
  BY TarType DEF IInv, tar
<1>2. seq_num <= MaxSeq /\ is_init /\ current_pp \in PP /\ attempts # 0
  BY DEF IInv, Progress
<1>3. clock \in Nat /\ seq_num \in Nat
  BY DEF IInv, TypeOK
<1> QED
  BY <1>1, <1>2, <1>3, FactoryAssumption DEF Past

\* dd puts the new header over the old one, which ends the slot's validity.
LEMMA InvDdHead ==
  ASSUME IInv, TypeOK', DdHead
  PROVE  IInv'
<1> USE DEF device, statics, history
<1>1. /\ UNCHANGED <<disk, dir, is_init, current_pp, seq_num, clock, attempts, acked, tried>>
      /\ pc = "dd" /\ pc' = "dd_body" /\ InFlight /\ InFlight' /\ tar' = tar
      /\ cache' = [cache EXCEPT ![current_pp].head = tar, ![current_pp].body = Junk]
  BY DEF DdHead, InFlight, tar
<1>2. /\ tar # Junk /\ Past(tar) /\ Past(Junk) /\ is_init /\ current_pp \in PP /\ attempts # 0
  BY <1>1, TarIsPast
<1>3. /\ cache'[current_pp].head = tar /\ cache'[current_pp].body = Junk
      /\ cache'[current_pp].tail = cache[current_pp].tail
      /\ \A s \in PP : s # current_pp => cache'[s] = cache[s]
  BY <1>1, <1>2 DEF IInv, TypeOK, Slot
<1>4. NoHead /\ NoTail
  BY <1>1 DEF IInv, Progress
<1>5. ~Valid(cache'[current_pp])
  BY <1>2, <1>3, <1>4 DEF Valid, NoTail
<1>6. AllPast'
  BY <1>1, <1>2, <1>3, ZenonT(40) DEF IInv, AllPast, Past
<1>7. Progress'
  <2>1. NoTail'
    BY <1>1, <1>2, <1>3, <1>4 DEF NoTail
  <2> QED
    BY <1>1, <1>2, <1>3, <2>1 DEF IInv, Progress, Written
<1>8. Ordered => NoHybrid'
  <2> SUFFICES ASSUME Ordered PROVE NoHybrid'
    OBVIOUS
  <2>1. ASSUME NEW s \in PP, s # current_pp
        PROVE  /\ Valid(cache'[s]) => cache'[s].body = cache'[s].head
               /\ cache'[s].head # Junk /\ cache'[s].head = disk[s].tail => disk[s] = cache'[s]
    BY <1>3, <2>1 DEF IInv, NoHybrid
  <2>2. cache'[current_pp].head # disk[current_pp].tail
    BY <1>2, <1>3, <1>4 DEF NoTail
  <2>3. \A s \in PP : Valid(disk[s]) => disk[s].body = disk[s].head
    BY DEF IInv, NoHybrid
  <2> QED
    BY <1>1, <1>5, <2>1, <2>2, <2>3 DEF NoHybrid, Valid
<1>9. Ahead'
  BY <1>1, <1>3, <1>5 DEF IInv, Ahead, Valid
<1>10. Quiet'
  BY <1>1, <1>2 DEF Quiet
<1>11. Ordered => Pending'
  <2> SUFFICES ASSUME Ordered, attempts' = 1
               PROVE  \E o \in PP : OneAttempt(o)'
    BY DEF Pending
  <2>1. PICK o \in PP : OneAttempt(o)
    BY <1>1 DEF IInv, Pending
  <2>2. current_pp = Other(o) /\ tried = tar /\ o # current_pp
    BY <1>1, <2>1 DEF OneAttempt, Other
  <2>3. cache'[o] = cache[o] /\ cache'[Other(o)].head = tried'
    BY <1>1, <1>3, <2>2
  <2>4. OneAttempt(o)'
    BY <1>1, <2>1, <2>2, <2>3 DEF OneAttempt
  <2> QED
    BY <2>4
<1> QED
  BY <1>6, <1>7, <1>8, <1>9, <1>10, <1>11 DEF IInv

LEMMA InvDdBody ==
  ASSUME IInv, TypeOK', DdBody
  PROVE  IInv'
<1> USE DEF device, statics, history
<1>1. /\ UNCHANGED <<disk, dir, is_init, current_pp, seq_num, clock, attempts, acked, tried>>
      /\ pc = "dd_body" /\ pc' = "dd_tail" /\ InFlight /\ InFlight' /\ tar' = tar
      /\ cache' = [cache EXCEPT ![current_pp].body = tar]
  BY DEF DdBody, InFlight, tar
<1>2. /\ tar # Junk /\ Past(tar) /\ is_init /\ current_pp \in PP /\ attempts # 0
  BY <1>1, TarIsPast
<1>3. cache[current_pp].head = tar /\ NoTail
  BY <1>1 DEF IInv, Progress
<1>4. /\ cache'[current_pp].head = tar /\ cache'[current_pp].body = tar
      /\ cache'[current_pp].tail = cache[current_pp].tail
      /\ \A s \in PP : s # current_pp => cache'[s] = cache[s]
  BY <1>1, <1>2, <1>3 DEF IInv, TypeOK, Slot
<1>5. ~Valid(cache'[current_pp])
  BY <1>2, <1>3, <1>4 DEF Valid, NoTail
<1>6. AllPast'
  BY <1>1, <1>2, <1>4 DEF IInv, AllPast, Past
<1>7. Progress'
  <2>1. NoTail'
    BY <1>1, <1>2, <1>3, <1>4 DEF NoTail
  <2> QED
    BY <1>1, <1>2, <1>4, <2>1 DEF IInv, Progress, Written
<1>8. Ordered => NoHybrid'
  BY <1>1, <1>2, <1>3, <1>4, <1>5 DEF IInv, NoHybrid, NoTail, Valid
<1>9. Ahead'
  BY <1>1, <1>4, <1>5 DEF IInv, Ahead, Valid
<1>10. Quiet'
  BY <1>1, <1>2 DEF Quiet
<1>11. Ordered => Pending'
  BY <1>1, <1>2, <1>3, <1>4 DEF IInv, Pending, OneAttempt, Other
<1> QED
  BY <1>6, <1>7, <1>8, <1>9, <1>10, <1>11 DEF IInv

LEMMA InvDdTail ==
  ASSUME IInv, TypeOK', DdTail
  PROVE  IInv'
<1> USE DEF device, statics, history
<1>1. /\ UNCHANGED <<disk, dir, is_init, current_pp, seq_num, clock, attempts, acked, tried>>
      /\ pc = "dd_tail" /\ pc' \in {"fsync", "flushed"} /\ InFlight /\ tar' = tar
      /\ cache' = [cache EXCEPT ![current_pp].tail = tar]
  BY DEF DdTail, InFlight, tar
<1>2. /\ tar # Junk /\ Past(tar) /\ is_init /\ current_pp \in PP /\ attempts # 0 /\ tar.seq = seq_num
  BY <1>1, TarIsPast
<1>3. cache[current_pp].head = tar /\ cache[current_pp].body = tar /\ NoTail
  BY <1>1 DEF IInv, Progress
<1>4. /\ cache'[current_pp] = [head |-> tar, body |-> tar, tail |-> tar]
      /\ \A s \in PP : s # current_pp => cache'[s] = cache[s]
  BY <1>1, <1>2, <1>3 DEF IInv, TypeOK, Slot
<1>5. AllPast'
  BY <1>1, <1>2, <1>4 DEF IInv, AllPast, Past
<1>6. Progress'
  BY <1>1, <1>2, <1>4 DEF IInv, Progress, Written
<1>7. Ordered => NoHybrid'
  BY <1>1, <1>2, <1>3, <1>4 DEF IInv, NoHybrid, NoTail, Valid
<1>8. Ahead'
  <2>1. seq_num \in Nat
    BY DEF IInv, TypeOK
  <2> QED
    BY <1>1, <1>2, <1>4, <2>1 DEF IInv, Ahead, Valid
<1>9. Quiet'
  BY <1>1, <1>2 DEF Quiet
<1>10. Ordered => Pending'
  BY <1>1, <1>2, <1>3, <1>4 DEF IInv, Pending, OneAttempt, Other
<1> QED
  BY <1>5, <1>6, <1>7, <1>8, <1>9, <1>10 DEF IInv

\* fsync leaves nothing pending, and what it made durable is in force.
LEMMA InvFsync ==
  ASSUME IInv, TypeOK', Fsync
  PROVE  IInv'
<1> USE DEF device, statics
<1>1. /\ UNCHANGED <<disk, cache, dir, is_init, current_pp, seq_num, clock>>
      /\ pc = "fsync" /\ pc' = "flushed" /\ disk = cache /\ InFlight /\ tar' = tar
      /\ acked' = tar /\ attempts' = 0
  BY DEF Fsync, Synced, InFlight, tar
<1>2. /\ tar # Junk /\ tar.seq = seq_num /\ is_init /\ current_pp \in PP
  BY <1>1, TarIsPast
<1>3. cache[current_pp] = [head |-> tar, body |-> tar, tail |-> tar]
  BY <1>1 DEF IInv, Progress
<1>4. AllPast' /\ (Ordered => NoHybrid')
  BY <1>1 DEF IInv, AllPast, Past, NoHybrid, Valid
<1>5. Progress'
  BY <1>1, <1>2, <1>3 DEF IInv, Progress, InFlight
<1>6. Ahead'
  BY <1>1 DEF IInv, Ahead, Valid
<1>7. Quiet'
  <2>1. Valid(cache[current_pp]) /\ cache[current_pp].body = tar
    BY <1>2, <1>3 DEF Valid
  <2>2. Valid(cache[Other(current_pp)]) =>
          cache[Other(current_pp)].head.seq < cache[current_pp].head.seq
    BY <1>1, <1>2, <1>3 DEF IInv, Ahead, Other
  <2>3. Pick(cache) = current_pp /\ Recover(cache) = tar
    BY <1>2, <2>1, <2>2, BothBounded, PickLatest DEF IInv, TypeOK
  <2> QED
    BY <1>1, <2>3 DEF Quiet
<1>8. Ordered => Pending'
  BY <1>1 DEF Pending
<1> QED
  BY <1>4, <1>5, <1>6, <1>7, <1>8 DEF IInv

\* The kernel writes back only to the slot that was tried, and never makes it
\* valid before all of it is there.
LEMMA InvKernel ==
  ASSUME IInv, TypeOK', Kernel
  PROVE  IInv'
<1> USE DEF device, statics, history, call
<1> PICK s \in PP : WriteHead(s) \/ WriteBody(s) \/ WriteTail(s)
  BY DEF Kernel
<1>1. /\ UNCHANGED <<cache, dir, is_init, current_pp, seq_num, clock, pc, ret, attempts, acked, tried>>
      /\ disk[s] # cache[s] /\ InFlight' = InFlight /\ Written' = Written /\ tar' = tar
  BY DEF WriteHead, WriteBody, WriteTail, InFlight, Written, tar
<1>2. \A t \in PP : disk[t] \in Slot /\ cache[t] \in Slot
  BY DEF IInv, TypeOK
<1>3. \A t \in PP : t # s => disk'[t] = disk[t]
  BY DEF WriteHead, WriteBody, WriteTail, IInv, TypeOK
<1>4. disk'[s].head \in {disk[s].head, cache[s].head}
      /\ disk'[s].body \in {disk[s].body, cache[s].body, Junk}
      /\ disk'[s].tail \in {disk[s].tail, cache[s].tail}
  BY <1>2 DEF WriteHead, WriteBody, WriteTail, IInv, TypeOK, Slot
<1>5. ASSUME Ordered
      PROVE  disk'[s] = cache[s] \/ (disk'[s].tail = disk[s].tail /\ ~Valid(disk'[s]))
  <2>1. ~(cache[s].head # Junk /\ cache[s].head = disk[s].tail)
    BY <1>1, <1>5 DEF IInv, NoHybrid
  <2>2. CASE WriteHead(s)
    BY <1>2, <2>1, <2>2 DEF WriteHead, Valid, IInv, TypeOK, Slot
  <2>3. CASE WriteBody(s)
    <3>1. PICK b \in {Junk, cache[s].body} : disk' = [disk EXCEPT ![s].body = b]
      BY <2>3 DEF WriteBody
    <3>2. disk'[s].head = disk[s].head /\ disk'[s].tail = disk[s].tail
      BY <1>2, <3>1 DEF IInv, TypeOK, Slot
    <3>3. disk[s].head = cache[s].head
      BY <1>5, <2>3 DEF WriteBody
    <3> QED
      BY <2>1, <3>2, <3>3 DEF Valid
  <2>4. CASE WriteTail(s)
    BY <1>2, <1>5, <2>4 DEF WriteTail, IInv, TypeOK, Slot
  <2> QED
    BY <2>2, <2>3, <2>4
<1>6. AllPast'
  <2>1. \A p : Past(p)' = Past(p)
    BY <1>1 DEF Past
  <2>2. Past(Junk)
    BY DEF Past
  <2> QED
    BY <1>1, <1>3, <1>4, <2>1, <2>2 DEF IInv, AllPast
<1>7. Progress'
  <2>1. NoHead => NoHead'
    BY <1>1, <1>3, <1>4 DEF NoHead
  <2>2. NoTail => NoTail'
    BY <1>1, <1>3, <1>4 DEF NoTail
  <2> QED
    BY <1>1, <2>1, <2>2 DEF IInv, Progress
<1>8. Ordered => NoHybrid'
  <2> SUFFICES ASSUME Ordered, NEW t \in PP
               PROVE  /\ Valid(cache[t]) => cache[t].body = cache[t].head
                      /\ Valid(disk'[t]) => disk'[t].body = disk'[t].head
                      /\ cache[t].head # Junk /\ cache[t].head = disk'[t].tail => disk'[t] = cache[t]
    BY <1>1 DEF NoHybrid, Valid
  <2>1. CASE t = s
    <3>1. ~(cache[s].head # Junk /\ cache[s].head = disk[s].tail)
      BY <1>1 DEF IInv, NoHybrid
    <3> QED
      BY <1>5, <2>1, <3>1 DEF IInv, NoHybrid
  <2>2. CASE t # s
    BY <1>3, <2>2 DEF IInv, NoHybrid
  <2> QED
    BY <2>1, <2>2
<1>9. Ahead'
  BY <1>1 DEF IInv, Ahead, Valid
<1>10. Quiet'
  BY <1>1 DEF IInv, Quiet
<1>11. Ordered => Pending'
  <2> SUFFICES ASSUME Ordered, attempts' = 1
               PROVE  \E o \in PP : OneAttempt(o)'
    BY DEF Pending
  <2>1. PICK o \in PP : OneAttempt(o)
    BY <1>1 DEF IInv, Pending
  <2>2. s = Other(o) /\ o # s /\ Other(o) \in PP
    BY <1>1, <2>1 DEF OneAttempt, Other
  <2>3. cache[s].head = tried
    BY <1>1, <2>1, <2>2 DEF OneAttempt
  <2>4. disk'[o] = disk[o] /\ (Valid(disk'[s]) => disk'[s].head = tried)
    BY <1>3, <1>5, <2>2, <2>3
  <2>5. OneAttempt(o)'
    BY <1>1, <2>1, <2>2, <2>3, <2>4 DEF OneAttempt, Valid, Other
  <2> QED
    BY <2>5
<1> QED
  BY <1>6, <1>7, <1>8, <1>9, <1>10, <1>11 DEF IInv

LEMMA InvNext ==
  ASSUME IInv, [Next]_vars
  PROVE  IInv'
<1>1. TypeOK'
  BY TypeNext DEF IInv
<1>2. CASE Call
  BY <1>1, <1>2, InvNoWrite DEF Call, InFlight, Written
<1>3. CASE UntarFails \/ InitFails \/ TarFails \/ DdFails
  <2>1. ~InFlight' /\ ~Written' /\ UNCHANGED <<device, statics, clock, history>>
    BY <1>3 DEF UntarFails, InitFails, TarFails, DdFails, Return, InFlight, Written
  <2> QED
    BY <1>1, <2>1, InvNoWrite
<1>4. CASE factory_load
  BY <1>1, <1>4, InvLoad
<1>5. CASE Edit
  BY <1>1, <1>5, InvNoWrite DEF Edit, InFlight, Written
<1>6. CASE TarTooBig
  BY <1>1, <1>6, InvTarTooBig
<1>7. CASE Toggle
  BY <1>1, <1>7, InvToggle
<1>8. CASE DdHead \/ DdBody \/ DdTail
  BY <1>1, <1>8, InvDdHead, InvDdBody, InvDdTail
<1>9. CASE Fsync
  BY <1>1, <1>9, InvFsync
<1>10. CASE Flushed
  <2>1. ~InFlight' /\ Written /\ UNCHANGED <<device, dir, statics, clock, history>>
    BY <1>10 DEF Flushed, Return, InFlight, Written
  <2> QED
    BY <1>1, <2>1, InvNoWrite
<1>11. CASE Kernel
  BY <1>1, <1>11, InvKernel
<1>12. CASE Crash \/ RunAgain
  BY <1>1, <1>12, InvRestart
<1>13. CASE UNCHANGED vars
  <2>1. UNCHANGED <<device, dir, statics, clock, history, pc, ret>>
    BY <1>13 DEF vars, device, statics, history
  <2>2. CASE InFlight
    <3> USE DEF device, statics, history
    <3>1. tar' = tar /\ InFlight' = InFlight /\ Written' = Written
      BY <2>1 DEF tar, InFlight, Written
    <3>2. AllPast' /\ (Ordered => NoHybrid')
      BY <2>1 DEF IInv, AllPast, Past, NoHybrid, Valid
    <3>3. Progress'
      BY <2>1, <3>1 DEF IInv, Progress, NoHead, NoTail
    <3>4. Ahead' /\ Quiet'
      BY <2>1, <3>1 DEF IInv, Ahead, Quiet, Valid
    <3>5. Ordered => Pending'
      BY <2>1, <3>1 DEF IInv, Pending, OneAttempt, Valid
    <3> QED
      BY <1>1, <3>2, <3>3, <3>4, <3>5 DEF IInv
  <2>3. CASE ~InFlight
    BY <1>1, <2>1, <2>3, InvNoWrite DEF InFlight, Written
  <2> QED
    BY <2>2, <2>3
<1> QED
  BY <1>2, <1>3, <1>4, <1>5, <1>6, <1>7, <1>8, <1>9, <1>10, <1>11, <1>12, <1>13
     DEF Next, Step, factory_flush

LEMMA Invariant == Spec => []IInv
<1> QED
  BY InvInit, InvNext, PTL DEF Spec

-----------------------------------------------------------------------------
(* What follows from it.                                                     *)

\* Whatever failed before, with nothing pending a restart finds the tar of the
\* last flush acknowledged as durable, in whatever order pages are written.
THEOREM AckedSurvivesAlways == Spec => []AckedSurvives
<1>1. IInv => AckedSurvives
  BY DEF IInv, Quiet, AckedSurvives
<1> QED
  BY <1>1, Invariant, PTL

\* A flush that reported success is what the program, and every later start of
\* it in the same boot, reads back.
THEOREM ReadYourWritesAlways == Spec => []ReadYourWrites
<1>1. ASSUME IInv
      PROVE  ReadYourWrites
  <2> SUFFICES ASSUME pc = "idle", ret.code = "ok", ret.op # "check_update_bootcode"
               PROVE  Pick(cache) = current_pp /\ Recover(cache) = tar
    BY DEF ReadYourWrites
  <2>1. Written /\ is_init /\ current_pp \in PP
    BY <1>1 DEF IInv, Progress, Written
  <2>2. cache[current_pp] = [head |-> tar, body |-> tar, tail |-> tar]
    BY <1>1, <2>1 DEF IInv, Progress
  <2>3. tar # Junk /\ tar.seq = seq_num
    BY <1>1, TarType, FactoryAssumption DEF IInv, tar
  <2>4. Valid(cache[current_pp]) /\ cache[current_pp].body = tar
    BY <2>2, <2>3 DEF Valid
  <2>5. Valid(cache[Other(current_pp)]) =>
          cache[Other(current_pp)].head.seq < cache[current_pp].head.seq
    BY <1>1, <2>1, <2>2, <2>3 DEF IInv, Ahead, Other
  <2> QED
    BY <1>1, <2>1, <2>4, <2>5, BothBounded, PickLatest DEF IInv, TypeOK
<1> QED
  BY <1>1, Invariant, PTL

\* When the kernel writes a slot back in ascending order, comparing the two
\* headers is enough to know that the body between them is whole.
THEOREM ValidIsWholeAlways ==
  ASSUME Ordered
  PROVE  Spec => []ValidIsWhole
<1>1. IInv => ValidIsWhole
  BY DEF IInv, NoHybrid, ValidIsWhole, Whole
<1> QED
  BY <1>1, Invariant, PTL

\* When the kernel writes a slot back in ascending order, one flush that was
\* cut short, failed or was never synced leaves the old tar or the new one.
THEOREM OneAttemptIsAtomicAlways ==
  ASSUME Ordered
  PROVE  Spec => []OneAttemptIsAtomic
<1>1. ASSUME IInv
      PROVE  OneAttemptIsAtomic
  <2> SUFFICES ASSUME attempts = 1
               PROVE  Recover(disk) \in {acked, tried}
    BY DEF OneAttemptIsAtomic
  <2>1. PICK o \in PP : OneAttempt(o)
    BY <1>1 DEF IInv, Pending
  <2>2. disk \in [PP -> Slot] /\ Bounded(disk) /\ Other(o) \in PP /\ Other(Other(o)) = o
    BY <1>1, BothBounded DEF IInv, TypeOK, Other
  <2>3. CASE Valid(disk[Other(o)]) /\ disk[Other(o)].head = tried
    <3>1. Pick(disk) = Other(o) /\ Recover(disk) = disk[Other(o)].body
      BY <2>1, <2>2, <2>3, PickLatest DEF OneAttempt
    <3>2. disk[Other(o)].body = tried
      BY <1>1, <2>2, <2>3 DEF IInv, NoHybrid
    <3> QED
      BY <3>1, <3>2
  <2>4. CASE Valid(disk[Other(o)]) /\ disk[Other(o)].head # tried
    BY <2>1, <2>4, PickType DEF OneAttempt, Recover
  <2>5. CASE ~Valid(disk[Other(o)])
    <3>1. CASE Valid(disk[o])
      BY <2>1, <2>2, <2>5, <3>1, PickLatest DEF OneAttempt
    <3>2. CASE ~Valid(disk[o])
      <4>1. Pick(disk) = NoPP
        BY <2>5, <3>2 DEF Pick, Other
      <4> QED
        BY <2>1, <3>2, <4>1 DEF OneAttempt, Recover
    <3> QED
      BY <3>1, <3>2
  <2> QED
    BY <2>3, <2>4, <2>5
<1> QED
  BY <1>1, Invariant, PTL

-----------------------------------------------------------------------------
(* The flushes of a ping-pong.                                               *)

\* A slot holds a whole tar of the directory as it is.
HoldsDir(s) == \E t \in Tar : t.dir = dir /\ cache[s] = [head |-> t, body |-> t, tail |-> t]

PingPonged == pc = "idle" /\ ret.op = "flush_pingpong" /\ ret.code = "ok"

\* Between two flushes of a ping-pong the slot in force holds the directory, and
\* during all but the first of them the other slot does.
Between ==
  req.op = "flush_pingpong" /\ flushes # 0 /\ pc = "flush" =>
    is_init /\ current_pp \in PP /\ HoldsDir(current_pp) /\ (flushes = 2 => current_pp = 1)

During ==
  req.op = "flush_pingpong" /\ flushes # 0 /\ (InFlight \/ pc = "flushed") =>
    HoldsDir(Other(current_pp)) /\ (flushes = 2 => current_pp = 0)

\* Every flush of a ping-pong has been waited for, and the last one is the one of
\* slot 0, with slot 1 before it.
Twins ==
  /\ pc \in {"load", "edit"} => flushes = 0
  /\ Between /\ During
  /\ (req.op = "flush_pingpong" /\ pc = "flushed") \/ PingPonged => attempts = 0
  /\ PingPonged => current_pp = 0 /\ HoldsDir(1)

LEMMA TwinsInit == Init => Twins
  BY DEF Init, NoResult, Twins, Between, During, PingPonged, InFlight

\* A call that returns a failure, or that is no ping-pong, has nothing to show.
LEMMA TwinsReturn ==
  ASSUME NEW r, Return(r), r = "ok" => req.op # "flush_pingpong"
  PROVE  Twins'
<1>1. pc' = "idle" /\ ret'.op = req.op /\ ret'.code = r
  BY DEF Return
<1>2. ~PingPonged'
  BY <1>1 DEF PingPonged
<1> QED
  BY <1>1, <1>2 DEF Twins, Between, During, InFlight

\* A ping-pong waits for the flash.
LEMMA PingPongSyncs ==
  ASSUME TypeOK, req.op = "flush_pingpong"
  PROVE  req.sync
<1>1. req \in AllRequests
  BY DEF TypeOK, NoCall
<1> QED
  BY <1>1 DEF AllRequests

\* The slot that has been flushed becomes the other one.
LEMMA TwinsToggle ==
  ASSUME TypeOK, Twins, Toggle
  PROVE  Twins'
<1>1. /\ pc = "flush" /\ pc' = "dd" /\ UNCHANGED <<cache, dir, req, flushes>>
      /\ current_pp' = NextPP(current_pp)
  BY DEF Toggle, device, call
<1>2. During'
  <2> SUFFICES ASSUME req.op = "flush_pingpong", flushes # 0
               PROVE  HoldsDir(Other(current_pp))' /\ (flushes' = 2 => current_pp' = 0)
    BY <1>1 DEF During
  <2>1. current_pp \in PP /\ HoldsDir(current_pp) /\ (flushes = 2 => current_pp = 1)
    BY <1>1 DEF Twins, Between
  <2>2. current_pp' = Other(current_pp) /\ Other(current_pp') = current_pp
    BY <1>1, <2>1 DEF NextPP, Other
  <2>3. HoldsDir(Other(current_pp))'
    BY <1>1, <2>1, <2>2 DEF HoldsDir, Other
  <2>4. flushes' = 2 => current_pp' = 0
    BY <1>1, <2>1, <2>2 DEF Other
  <2> QED
    BY <2>3, <2>4
<1> QED
  BY <1>1, <1>2 DEF Twins, Between, PingPonged

\* dd writes to the slot that is current, never to the other.
LEMMA TwinsDd ==
  ASSUME IInv, Twins, DdHead \/ DdBody \/ DdTail
  PROVE  Twins'
<1>1. /\ InFlight /\ UNCHANGED <<dir, current_pp, req, flushes>>
      /\ pc' \in {"dd_body", "dd_tail", "fsync", "flushed"}
      /\ pc' = "flushed" => ~req.sync
  BY DEF DdHead, DdBody, DdTail, InFlight, statics, call
<1>2. current_pp \in PP /\ cache'[Other(current_pp)] = cache[Other(current_pp)]
  <2>1. current_pp \in PP /\ cache \in [PP -> Slot]
    BY <1>1 DEF IInv, TypeOK, Progress
  <2> QED
    BY <2>1 DEF DdHead, DdBody, DdTail, Other
<1>3. During'
  <2> SUFFICES ASSUME req.op = "flush_pingpong", flushes # 0
               PROVE  HoldsDir(Other(current_pp))' /\ (flushes' = 2 => current_pp' = 0)
    BY <1>1 DEF During
  <2>1. HoldsDir(Other(current_pp)) /\ (flushes = 2 => current_pp = 0)
    BY <1>1 DEF Twins, During
  <2>2. Other(current_pp)' = Other(current_pp)
    BY <1>1 DEF Other
  <2>3. HoldsDir(Other(current_pp))'
    BY <1>1, <1>2, <2>1, <2>2 DEF HoldsDir
  <2> QED
    BY <1>1, <2>1, <2>3
<1>4. req.op = "flush_pingpong" => pc' # "flushed"
  BY <1>1, PingPongSyncs DEF IInv
<1> QED
  BY <1>1, <1>3, <1>4 DEF Twins, Between, PingPonged

LEMMA TwinsFsync ==
  ASSUME Twins, Fsync
  PROVE  Twins'
<1>1. /\ pc = "fsync" /\ pc' = "flushed" /\ InFlight /\ attempts' = 0
      /\ UNCHANGED <<cache, dir, current_pp, req, flushes>>
  BY DEF Fsync, InFlight, device, statics, call
<1>2. During'
  BY <1>1 DEF Twins, During, HoldsDir, Other
<1> QED
  BY <1>1, <1>2 DEF Twins, Between, PingPonged

\* The next flush, or the end of the ping-pong: with the second in slot 0, or else
\* the third.
LEMMA TwinsFlushed ==
  ASSUME IInv, Twins, Flushed
  PROVE  Twins'
<1>1. pc = "flushed" /\ UNCHANGED <<cache, dir, statics, attempts>>
  BY DEF Flushed, device, history
<1>2. current_pp \in PP /\ HoldsDir(current_pp) /\ is_init /\ flushes \in 0..2
  <2>1. /\ current_pp \in PP /\ is_init /\ flushes \in 0..2
        /\ cache[current_pp] = [head |-> tar, body |-> tar, tail |-> tar]
    BY <1>1 DEF IInv, TypeOK, Progress, Written
  <2>2. tar \in Tar /\ tar.dir = dir
    BY TarType DEF IInv, tar
  <2> QED
    BY <2>1, <2>2 DEF HoldsDir
<1>3. CASE FlushAgain
  <2>1. /\ pc' = "flush" /\ flushes' = flushes + 1 /\ req' = req
    BY <1>3 DEF Flushed
  <2>2. flushes' = 2 => current_pp' = 1
    <3>1. flushes = 0 \/ (flushes = 1 /\ current_pp = 1)
      BY <1>3 DEF FlushAgain
    <3> QED
      BY <1>1, <2>1, <3>1 DEF statics
  <2>3. HoldsDir(current_pp)' /\ is_init' /\ current_pp' \in PP
    BY <1>1, <1>2 DEF HoldsDir, statics
  <2> QED
    BY <2>1, <2>2, <2>3 DEF Twins, Between, During, InFlight, PingPonged
<1>4. CASE ~FlushAgain /\ req.op = "flush_pingpong"
  <2>1. Return("ok")
    BY <1>4 DEF Flushed
  <2>2. pc' = "idle"
    BY <2>1 DEF Return
  <2>3. attempts' = 0
    BY <1>1, <1>4 DEF Twins
  <2>4. flushes # 0 /\ (flushes = 1 => current_pp # 1)
    BY <1>4 DEF FlushAgain
  <2>5. HoldsDir(Other(current_pp)) /\ (flushes = 2 => current_pp = 0)
    BY <1>1, <1>4, <2>4 DEF Twins, During
  <2>6. current_pp = 0
    BY <1>2, <2>4, <2>5
  <2>7. current_pp' = 0 /\ HoldsDir(1)'
    BY <1>1, <2>5, <2>6 DEF HoldsDir, Other, statics
  <2> QED
    BY <2>2, <2>3, <2>7 DEF Twins, Between, During, InFlight
<1>5. CASE req.op # "flush_pingpong"
  <2>1. Return("ok")
    BY <1>5 DEF Flushed, FlushAgain
  <2> QED
    BY <1>5, <2>1, TwinsReturn
<1> QED
  BY <1>3, <1>4, <1>5

LEMMA TwinsNext ==
  ASSUME IInv, Twins, [Next]_vars
  PROVE  Twins'
<1>1. CASE Call \/ Crash \/ RunAgain
  <2>1. /\ pc' = "idle" \/ (pc' = "load" /\ flushes' = 0)
        /\ ret'.code = "none"
    BY <1>1 DEF Call, Crash, RunAgain, Restarted, NoResult
  <2> QED
    BY <2>1 DEF Twins, Between, During, InFlight, PingPonged
<1>2. CASE UntarFails \/ TarFails \/ TarTooBig \/ DdFails
  BY <1>2, TwinsReturn DEF UntarFails, TarFails, TarTooBig, DdFails
<1>3. CASE InitFails
  <2>1. CASE GoesOnWithoutLoad
    BY <1>3, <2>1 DEF InitFails, GoesOnWithoutLoad, Twins, Between, During, InFlight, PingPonged, call
  <2>2. CASE ~GoesOnWithoutLoad
    BY <1>3, <2>2, TwinsReturn DEF InitFails
  <2> QED
    BY <2>1, <2>2
<1>4. CASE factory_load
  <2>1. PICK o \in LoadOutcome(current_pp') :
          IF ~o[1] /\ ~GoesOnWithoutLoad THEN Return("fail")
          ELSE IF req.op = "check_update_bootcode" THEN CheckMarker(o[2])
          ELSE pc' = "edit" /\ loaded' = o[1] /\ UNCHANGED <<req, flushes, ret>>
    BY <1>4 DEF factory_load
  <2>2. \/ Return("fail")
        \/ req.op = "check_update_bootcode" /\ Return("ok")
        \/ pc' \in {"load", "edit"} /\ flushes' = flushes
    BY <1>4, <2>1 DEF CheckMarker, factory_load
  <2>3. CASE pc' \in {"load", "edit"} /\ flushes' = flushes
    BY <1>4, <2>3 DEF factory_load, Twins, Between, During, InFlight, PingPonged
  <2> QED
    BY <2>2, <2>3, TwinsReturn
<1>5. CASE Edit
  BY <1>5 DEF Edit, Twins, Between, During, InFlight, PingPonged, call
<1>6. CASE Toggle
  BY <1>6, TwinsToggle DEF IInv
<1>7. CASE Kernel \/ UNCHANGED vars
  <2>1. UNCHANGED <<cache, dir, statics, pc, call, ret, attempts>>
    BY <1>7 DEF Kernel, WriteHead, WriteBody, WriteTail, vars, statics, call, history
  <2>2. HoldsDir(0)' = HoldsDir(0) /\ HoldsDir(1)' = HoldsDir(1)
    BY <2>1 DEF HoldsDir
  <2>3. PingPonged' = PingPonged /\ InFlight' = InFlight
    BY <2>1 DEF PingPonged, InFlight
  <2>4. Between'
    BY <2>1 DEF Twins, Between, HoldsDir, statics, call
  <2>5. During'
    BY <2>1, <2>3 DEF Twins, During, HoldsDir, Other, statics, call
  <2> QED
    BY <2>1, <2>2, <2>3, <2>4, <2>5 DEF Twins, statics, call
<1> QED
  BY <1>1, <1>2, <1>3, <1>4, <1>5, <1>6, <1>7, TwinsDd, TwinsFsync, TwinsFlushed
     DEF Next, Step, factory_flush

\* Whatever failed before it, a ping-pong that returned 0 has left the same files in
\* both slots of the flash, and the newest in slot 0, for every number of calls,
\* power cuts and restarts, in whatever order pages are written.
THEOREM PingPongLeavesBothAlways == Spec => []PingPongLeavesBoth
<1>1. ASSUME IInv, Twins
      PROVE  PingPongLeavesBoth
  <2> SUFFICES ASSUME pc = "idle", ret = [op |-> "flush_pingpong", code |-> "ok"]
               PROVE  /\ current_pp = 0
                      /\ \A s \in PP : Whole(disk[s])
                      /\ disk[0].head.dir = disk[1].head.dir
                      /\ Pick(disk) = 0
    BY DEF PingPongLeavesBoth
  <2>1. current_pp = 0 /\ HoldsDir(1) /\ attempts = 0
    BY <1>1 DEF Twins, PingPonged
  <2>2. Written
    BY DEF Written
  <2>3. is_init /\ cache[0] = [head |-> tar, body |-> tar, tail |-> tar]
    BY <1>1, <2>1, <2>2 DEF IInv, Progress
  <2>4. disk = cache /\ current_pp = Pick(disk)
    BY <1>1, <2>1, <2>3 DEF IInv, Quiet
  <2>5. HoldsDir(0)
    <3>1. tar \in Tar /\ tar.dir = dir
      BY <1>1, TarType DEF IInv, tar
    <3> QED
      BY <2>3, <3>1 DEF HoldsDir
  <2>6. ASSUME NEW s \in PP, HoldsDir(s)
        PROVE  Whole(disk[s]) /\ disk[s].head.dir = dir
    BY <2>4, <2>6, FactoryAssumption DEF HoldsDir, Whole, Valid
  <2> QED
    BY <2>1, <2>4, <2>5, <2>6
<1>2. Spec => []Twins
  BY TwinsInit, TwinsNext, Invariant, PTL DEF Spec
<1> QED
  BY <1>1, <1>2, Invariant, PTL

-----------------------------------------------------------------------------
(* The files of the factory.                                                 *)

\* A load that succeeded with nothing pending has brought the directory of the last
\* durable tar, and the edit takes out no more than it means to.
FilesSafe ==
  /\ pc = "load" => ~loaded
  /\ attempts = 0 /\ loaded /\ acked # Junk =>
       /\ pc = "edit" => dir = acked.dir
       /\ pc \in {"flush", "flushed"} => acked.dir.files \ Removed(req) \subseteq dir.files
  /\ FactoryFilesKept

LEMMA SafeInit == Init => FilesSafe
  BY DEF Init, FilesSafe, FactoryFilesKept

\* The edit of a call removes what the call is for and nothing else.
LEMMA EditKeeps ==
  ASSUME NEW r \in AllRequests \cup {NoCall}, NEW d \in Dir, NEW e \in Edited(r, d)
  PROVE  d.files \ Removed(r) \subseteq e.files
<1>1. CASE r.op = "write_boottable"
  BY <1>1 DEF Edited, Dir
<1>2. CASE r.op = "install_factory"
  <2>1. e \in Installed(r, d)
    BY <1>2 DEF Edited
  <2>2. PICK c, b :
          e = [d EXCEPT !.files =
                 (((d.files \ (IF r.kill_000 /\ ~r.only_bootcode THEN {BOOTPARAM} ELSE {}))
                     \cup c) \ (IF r.bootcode THEN {ENVSETTINGS} ELSE {})) \cup b]
    BY <2>1 DEF Installed
  <2>3. Removed(r) = (IF r.kill_000 THEN {BOOTPARAM} ELSE {}) \cup (IF r.bootcode THEN {ENVSETTINGS} ELSE {})
    BY <1>2 DEF Removed
  <2>4. e.files = (((d.files \ (IF r.kill_000 /\ ~r.only_bootcode THEN {BOOTPARAM} ELSE {}))
                     \cup c) \ (IF r.bootcode THEN {ENVSETTINGS} ELSE {})) \cup b
    BY <2>2 DEF Dir
  <2> QED
    BY <2>3, <2>4
<1>3. CASE r.op = "create_file"
  BY <1>3 DEF Edited, Dir
<1>4. CASE r.op = "remove_file"
  BY <1>4 DEF Edited, Dir, Removed
<1>5. CASE r.op \notin {"write_boottable", "install_factory", "create_file", "remove_file"}
  BY <1>5 DEF Edited
<1> QED
  BY <1>1, <1>2, <1>3, <1>4, <1>5

\* What a good load brings with nothing pending.
LEMMA GoodLoad ==
  ASSUME IInv, Ordered, factory_load, pc' = "edit", attempts = 0, loaded', acked # Junk
  PROVE  dir' = acked.dir
<1>1. PICK o \in LoadOutcome(current_pp') :
        /\ dir' = o[2]
        /\ IF ~o[1] /\ ~GoesOnWithoutLoad THEN Return("fail")
           ELSE IF req.op = "check_update_bootcode" THEN CheckMarker(o[2])
           ELSE pc' = "edit" /\ loaded' = o[1] /\ UNCHANGED <<req, flushes, ret>>
  BY DEF factory_load
<1>2. pc = "load"
  BY DEF factory_load
<1>3. loaded' = o[1]
  BY <1>1, <1>2 DEF Return, CheckMarker
<1>4. disk = cache /\ Recover(cache) = acked /\ NoHybrid
  BY DEF IInv, Quiet
<1>5. current_pp' = Pick(cache)
  BY <1>4 DEF IInv, Quiet, factory_load, InitStatics, statics
<1>6. Pick(cache) # NoPP /\ acked = cache[Pick(cache)].body
  BY <1>4 DEF Recover
<1>7. Pick(cache) \in PP /\ Valid(cache[Pick(cache)])
  BY <1>6, PickType
<1>8. cache[Pick(cache)].body = cache[Pick(cache)].head /\ cache[Pick(cache)].head # Junk
  BY <1>4, <1>7 DEF NoHybrid, Valid
<1>9. o \in Extract(cache[Pick(cache)])
  BY <1>5, <1>6 DEF LoadOutcome
<1>10. o = <<TRUE, acked.dir>> \/ o = <<FALSE, EmptyDir>>
  BY <1>6, <1>8, <1>9 DEF Extract
<1>11. ASSUME NEW t, NEW d, o = <<t, d>>
       PROVE  o[1] = t /\ o[2] = d
  BY <1>11
<1>12. CASE o = <<TRUE, acked.dir>>
  BY <1>1, <1>11, <1>12
<1>13. CASE o = <<FALSE, EmptyDir>>
  <2>1. o[1] = FALSE
    BY <1>11, <1>13
  <2> QED
    BY <1>3, <2>1
<1> QED
  BY <1>10, <1>12, <1>13

LEMMA SafeNext ==
  ASSUME IInv, Ordered, FilesSafe, [Next]_vars
  PROVE  FilesSafe'
<1> USE DEF history, call
<1>1. CASE Call \/ Crash \/ RunAgain
  <2>1. pc' \in {"idle", "load"} /\ ~loaded'
    BY <1>1 DEF Call, Crash, RunAgain, Restarted
  <2> QED
    BY <2>1 DEF FilesSafe, FactoryFilesKept
<1>2. ASSUME NEW r, Return(r)
      PROVE  FilesSafe'
  <2>1. pc' = "idle" /\ ~loaded'
    BY <1>2 DEF Return
  <2> QED
    BY <2>1 DEF FilesSafe, FactoryFilesKept
<1>3. CASE UntarFails \/ TarFails \/ TarTooBig \/ DdFails
  BY <1>2, <1>3 DEF UntarFails, TarFails, TarTooBig, DdFails
<1>4. CASE InitFails
  <2>1. CASE GoesOnWithoutLoad
    <3>1. pc' = "flush" /\ ~loaded'
      BY <1>4, <2>1 DEF InitFails, FilesSafe
    <3> QED
      BY <3>1 DEF FilesSafe, FactoryFilesKept
  <2> QED
    BY <1>2, <1>4, <2>1 DEF InitFails
<1>5. CASE factory_load
  <2>1. PICK o \in LoadOutcome(current_pp') :
          IF ~o[1] /\ ~GoesOnWithoutLoad THEN Return("fail")
          ELSE IF req.op = "check_update_bootcode" THEN CheckMarker(o[2])
          ELSE pc' = "edit" /\ loaded' = o[1] /\ UNCHANGED <<req, flushes, ret>>
    BY <1>5 DEF factory_load
  <2>2. pc = "load" /\ ~loaded /\ acked' = acked /\ attempts' = attempts
    BY <1>5 DEF factory_load, FilesSafe
  <2>3. \/ Return("fail")
        \/ Return("ok")
        \/ pc' = "load" /\ ~loaded'
        \/ pc' = "edit"
    BY <2>1, <2>2 DEF CheckMarker
  <2>4. CASE pc' = "load" /\ ~loaded'
    BY <2>4 DEF FilesSafe, FactoryFilesKept
  <2>5. CASE pc' = "edit"
    <3>1. attempts' = 0 /\ loaded' /\ acked' # Junk => dir' = acked'.dir
      BY <1>5, <2>2, <2>5, GoodLoad
    <3> QED
      BY <2>5, <3>1 DEF FilesSafe, FactoryFilesKept
  <2> QED
    BY <1>2, <2>3, <2>4, <2>5
<1>6. CASE Edit
  <2>1. /\ pc = "edit" /\ pc' = "flush" /\ UNCHANGED <<acked, attempts, loaded, req>>
        /\ dir' \in Edited(req, dir)
    BY <1>6 DEF Edit
  <2>2. dir.files \ Removed(req) \subseteq dir'.files
    BY <2>1, EditKeeps DEF IInv, TypeOK
  <2>3. Removed(req)' = Removed(req)
    BY <2>1 DEF Removed
  <2> QED
    BY <2>1, <2>2, <2>3 DEF FilesSafe, FactoryFilesKept
<1>7. CASE Toggle
  <2>1. /\ pc = "flush" /\ pc' = "dd" /\ UNCHANGED <<dir, loaded, req>>
        /\ attempts' = 1 => attempts = 0 /\ tried' = tar' /\ acked' = acked
    BY <1>7 DEF Toggle, IInv, TypeOK
  <2>2. Removed(req)' = Removed(req) /\ tar'.dir = dir
    BY <2>1 DEF Removed, tar
  <2>3. FactoryFilesKept'
    BY <2>1, <2>2 DEF FilesSafe, FactoryFilesKept
  <2> QED
    BY <2>1, <2>3 DEF FilesSafe
<1>8. CASE DdHead \/ DdBody \/ DdTail
  <2>1. /\ pc \in {"dd", "dd_body", "dd_tail"} /\ pc' \in {"dd_body", "dd_tail", "fsync", "flushed"}
        /\ UNCHANGED <<dir, loaded, req, attempts, tried, acked>> /\ InFlight
    BY <1>8 DEF DdHead, DdBody, DdTail, InFlight
  <2>2. attempts # 0
    BY <2>1 DEF IInv, Progress
  <2>3. FactoryFilesKept'
    BY <2>1 DEF FilesSafe, FactoryFilesKept, Removed
  <2> QED
    BY <2>1, <2>2, <2>3 DEF FilesSafe
<1>9. CASE Fsync
  <2>1. pc' = "flushed" /\ acked' = tar /\ dir' = dir
    BY <1>9 DEF Fsync
  <2>2. acked'.dir = dir'
    BY <2>1 DEF tar
  <2> QED
    BY <2>1, <2>2 DEF FilesSafe, FactoryFilesKept
<1>10. CASE Flushed
  <2>1. CASE FlushAgain
    <3>1. pc = "flushed" /\ pc' = "flush" /\ UNCHANGED <<dir, loaded, req, attempts, acked>>
      BY <1>10, <2>1 DEF Flushed
    <3> QED
      BY <3>1 DEF FilesSafe, FactoryFilesKept, Removed
  <2> QED
    BY <1>2, <1>10, <2>1 DEF Flushed
<1>11. CASE Kernel \/ UNCHANGED vars
  <2>1. UNCHANGED <<dir, pc, req, loaded, attempts, acked, tried>>
    BY <1>11 DEF Kernel, WriteHead, WriteBody, WriteTail, vars
  <2> QED
    BY <2>1 DEF FilesSafe, FactoryFilesKept, Removed
<1> QED
  BY <1>1, <1>3, <1>4, <1>5, <1>6, <1>7, <1>8, <1>9, <1>10, <1>11
     DEF Next, Step, factory_flush

\* When the kernel writes a slot back in ascending order, a call whose load succeeded
\* with nothing pending writes back every file of the last durable tar, but those it
\* is to remove, for all requests, files and outcomes of the copies.
THEOREM FactoryFilesKeptAlways ==
  ASSUME Ordered
  PROVE  Spec => []FactoryFilesKept
<1>1. Spec => []FilesSafe
  BY SafeInit, SafeNext, Invariant, PTL DEF Spec
<1>2. FilesSafe => FactoryFilesKept
  BY DEF FilesSafe
<1> QED
  BY <1>1, <1>2, PTL

=============================================================================
