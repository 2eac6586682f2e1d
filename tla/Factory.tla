------------------------------ MODULE Factory ------------------------------
(***************************************************************************)
(* The factory area of the Realtek 1195 installer (src/rtk_factory.cpp and *)
(* its callers in rtk_boottable.cpp and rtk_burn.cpp).                     *)
(*                                                                         *)
(* The area is two equal slots of the boot flash, the "ping" and the       *)
(* "pong".  A slot holds a tar of the directory /tmp/factory whose first   *)
(* 512-byte header also carries a sequence number and the tar's size; a    *)
(* copy of that header follows the tar.  A slot counts as valid when the   *)
(* two headers are the same, and the valid slot with the later sequence    *)
(* number is the one in force.  Every caller reads the slot in force into  *)
(* the directory, edits the directory, and flushes it to the other slot.   *)
(*                                                                         *)
(* dd writes through the page cache of the block device.  Only a flush     *)
(* with bFlush waits for the data to reach the flash; a crash or a reboot  *)
(* drops what has not been written back.                                   *)
(***************************************************************************)
EXTENDS Integers, FiniteSets

CONSTANTS
  Files,        (* Names of the files of /tmp/factory other than layout.txt. *)
  BOOTPARAM,    (* 000BootParam.h, removed by kill_000.                       *)
  ENVSETTINGS,  (* env.txt, removed when the boot code is replaced.           *)
  UPDATE_BOOTCODE, (* The marker file rtk_check_update_bootcode looks for.    *)
  LAYOUT_BAK,   (* layout.txt_bak, copied in after a safe upgrade.            *)
  PkgFiles,     (* Files the package's ifcmd0/ifcmd1 copy in.                 *)
  Layouts,      (* What layout.txt can say.                                   *)
  NoLayout,     (* layout.txt is absent.                                      *)
  Capacity,     (* How many files a slot has room for.                        *)
  Requests,     (* The calls the installer makes.                             *)
  FirstDirs,    (* What the board's factory may have written to a slot.       *)
  Junk,         (* A part of a slot that is no part of any complete tar.      *)
  WrapGap,      (* 0xFFFFFFF0: a larger difference means the counter wrapped. *)
  MaxSeq,       (* Bound: no sequence number passes this one.                 *)
  MaxClock,     (* Bound: how often the program starts.                       *)
  Ordered,      (* The kernel writes a slot's pages back in ascending order.  *)
  DdMayFail,    (* dd can fail.                                               *)
  LoadMayFail,  (* Reading an intact slot can fail.                           *)
  CharIsSigned  (* Plain char is signed (x86), or unsigned (the ARM build).   *)

Dir  == [files : SUBSET Files, layout : Layouts \cup {NoLayout}]
Tar  == [seq : Nat, time : Nat, dir : Dir]
Part == Tar \cup {Junk}
Slot == [head : Part, body : Part, tail : Part]
PP   == {0, 1}
NoPP == -1

AllRequests ==
  [op : {"write_boottable"}, sync : BOOLEAN, layout : Layouts]
    \cup
  [op : {"install_factory"}, sync : BOOLEAN, only_bootcode : BOOLEAN,
   kill_000 : BOOLEAN, install : BOOLEAN, bootcode : BOOLEAN, safe_upgrade : BOOLEAN]
    \cup
  [op : {"create_file", "remove_file"}, sync : {TRUE}, file : Files]
    \cup
  [op : {"check_update_bootcode", "flush_pingpong"}, sync : {TRUE}]

NoCall   == [op |-> "none"]
NoResult == [op |-> "none", code |-> "none"]

ASSUME FactoryAssumption ==
  /\ BOOTPARAM \in Files /\ ENVSETTINGS \in Files /\ UPDATE_BOOTCODE \in Files
  /\ LAYOUT_BAK \in Files
  /\ PkgFiles \subseteq Files
  /\ Requests \subseteq AllRequests /\ Requests # {}
  /\ FirstDirs \subseteq Dir
  /\ Capacity \in Nat /\ MaxSeq \in Nat \ {0} /\ MaxClock \in Nat
  /\ WrapGap \in Nat /\ MaxSeq <= WrapGap
  /\ Junk \notin Tar
  /\ {Ordered, DdMayFail, LoadMayFail, CharIsSigned} \subseteq BOOLEAN

VARIABLES
  disk,        (* What the flash holds.                                       *)
  cache,       (* What a read of the block device returns.                    *)
  dir,         (* /tmp/factory.                                               *)
  is_init,     (* The static is_init of rtk_factory.cpp.                      *)
  current_pp,  (* The static current_pp.                                      *)
  seq_num,     (* The static seq_num.                                         *)
  clock,       (* Wall clock: dates the header, advances with every start.    *)
  pc,          (* Where the running call is.                                  *)
  req,         (* The running (or the last) call.                             *)
  loaded,      (* Whether its factory_load succeeded.                         *)
  flushes,     (* How many of its factory_flush calls have succeeded.         *)
  ret,         (* What it returned, or "none".                                *)
  attempts,    (* History: flushes begun since one was acknowledged as        *)
               (* durable or the power came back; 2 stands for more.          *)
  acked,       (* History: the tar in force then; Junk if none.               *)
  tried        (* History: the tar of the one attempt since; Junk if none.    *)

device  == <<disk, cache>>
statics == <<is_init, current_pp, seq_num>>
history == <<attempts, acked, tried>>
call    == <<req, loaded, flushes>>
vars    == <<disk, cache, dir, is_init, current_pp, seq_num, clock, pc,
             req, loaded, flushes, ret, attempts, acked, tried>>

-----------------------------------------------------------------------------
(* Reading the two slots.                                                    *)

\* Mutant of Valid: the end header is not compared.
ValidByHead(s) == s.head # Junk

\* The start header begins with "tmp/factory/" and equals the end header.
Valid(s) == s.head # Junk /\ s.tail = s.head

\* Every part of the slot is from the same tar: more than the code checks.
Whole(s) == Valid(s) /\ s.body = s.head

\* Mutant of Newest: the older slot.
Oldest(p0_seqnum, p1_seqnum) == IF p0_seqnum < p1_seqnum THEN 0 ELSE 1

\* The slot of the later of two sequence numbers.
Newest(p0_seqnum, p1_seqnum) ==
  IF p0_seqnum < p1_seqnum
    THEN IF p1_seqnum - p0_seqnum > WrapGap THEN 0 ELSE 1
    ELSE IF p0_seqnum - p1_seqnum > WrapGap THEN 1 ELSE 0

\* factory_find_latest_update: the slot in force on device d.
Pick(d) ==
  IF Valid(d[0]) /\ Valid(d[1]) THEN Newest(d[0].head.seq, d[1].head.seq)
  ELSE IF Valid(d[0]) THEN 0
  ELSE IF Valid(d[1]) THEN 1
  ELSE NoPP

\* What a load by a freshly started program finds on device d.
Recover(d) == IF Pick(d) = NoPP THEN Junk ELSE d[Pick(d)].body

-----------------------------------------------------------------------------
EmptyDir == [files |-> {}, layout |-> NoLayout]
Blank    == [head |-> Junk, body |-> Junk, tail |-> Junk]
Size(d)  == Cardinality(d.files) + (IF d.layout = NoLayout THEN 0 ELSE 1)

FirstTar(d) == [seq |-> 1, time |-> 0, dir |-> d]
Shipped(d)  == [head |-> FirstTar(d), body |-> FirstTar(d), tail |-> FirstTar(d)]

\* The flash is blank, or one slot was written when the board was made.
Init ==
  /\ \/ disk = [s \in PP |-> Blank]
     \/ \E d \in FirstDirs, p \in PP :
             disk = [s \in PP |-> IF s = p THEN Shipped(d) ELSE Blank]
  /\ cache = disk
  /\ dir = EmptyDir
  /\ is_init = FALSE /\ current_pp = NoPP /\ seq_num = 0
  /\ clock = 1
  /\ pc = "idle" /\ req = NoCall /\ loaded = FALSE /\ flushes = 0
  /\ ret = NoResult
  /\ acked = Recover(disk) /\ tried = Junk /\ attempts = 0

\* The running call returns r.
Return(r) ==
  /\ pc' = "idle" /\ ret' = [op |-> req.op, code |-> r]
  /\ req' = NoCall /\ loaded' = FALSE /\ flushes' = 0

\* /tmp/factory.tar once factory_build_header has counted seq_num up.
tar == [seq |-> seq_num, time |-> clock, dir |-> dir]

Call ==
  /\ pc = "idle"
  /\ req' \in Requests
  /\ pc' = "load" /\ loaded' = FALSE /\ flushes' = 0 /\ ret' = NoResult
  /\ UNCHANGED <<device, dir, statics, clock, history>>

\* rtk_install_factory gives up when the package's factory.tar does not untar.
UntarFails ==
  /\ pc = "load"
  /\ req.op = "install_factory" /\ ~req.only_bootcode
  /\ Return("fail")
  /\ UNCHANGED <<device, dir, statics, clock, history>>

-----------------------------------------------------------------------------
(* factory_load, with the factory_init it makes the first time.              *)

\* Mutant of InitStatics: the sequence number in force is not taken over.
InitStaticsNoSeq ==
  IF is_init THEN UNCHANGED statics
  ELSE is_init' = TRUE /\ current_pp' = Pick(cache) /\ UNCHANGED seq_num

\* The statics once the load has made sure of factory_init.
InitStatics ==
  IF is_init THEN UNCHANGED statics
  ELSE /\ is_init' = TRUE
       /\ current_pp' = Pick(cache)
       /\ seq_num' = IF Pick(cache) = NoPP THEN seq_num ELSE cache[Pick(cache)].head.seq

\* What `dd | tar x` may leave in the emptied directory, and tar's exit status.
Extract(s) ==
  IF s.head # Junk /\ s.body = s.head
    THEN {<<TRUE, s.body.dir>>}
           \cup (IF LoadMayFail THEN {<<FALSE, EmptyDir>>} ELSE {})
    ELSE BOOLEAN \X ({EmptyDir} \cup (IF s.body = Junk THEN {} ELSE {s.body.dir}))

\* The outcome of reading the slot pp.  With an unsigned char the -1 of
\* current_pp is 255, the guard "current_pp < 0" is never taken, and dd reads
\* whatever lies 255 slots on, which holds no factory tar.
LoadOutcome(pp) ==
  IF pp # NoPP THEN Extract(cache[pp])
  ELSE IF CharIsSigned THEN {<<FALSE, dir>>}
  ELSE BOOLEAN \X {EmptyDir}

\* write_boottable and rtk_install_factory go on after a failed load; the
\* others return.
GoesOnWithoutLoad == req.op \in {"write_boottable", "install_factory"}

\* rtk_check_update_bootcode returns when there is no marker, and otherwise
\* removes it with rtk_create_remove_file_factory_mac, which loads again.
CheckMarker(d) ==
  IF UPDATE_BOOTCODE \in d.files
    THEN /\ req' = [op |-> "remove_file", sync |-> TRUE, file |-> UPDATE_BOOTCODE]
         /\ UNCHANGED <<pc, loaded, flushes, ret>>
    ELSE Return("ok")

\* factory_init fails (a parameter is missing, or mkdir fails).  A caller that
\* goes on finds no directory to tar.
InitFails ==
  /\ pc = "load" /\ ~is_init
  /\ IF GoesOnWithoutLoad THEN pc' = "flush" /\ UNCHANGED <<call, ret>> ELSE Return("fail")
  /\ UNCHANGED <<device, dir, statics, clock, history>>

factory_load ==
  /\ pc = "load"
  /\ InitStatics
  /\ \E o \in LoadOutcome(current_pp') :
       /\ dir' = o[2]
       /\ IF ~o[1] /\ ~GoesOnWithoutLoad THEN Return("fail")
          ELSE IF req.op = "check_update_bootcode" THEN CheckMarker(o[2])
          ELSE pc' = "edit" /\ loaded' = o[1] /\ UNCHANGED <<req, flushes, ret>>
  /\ UNCHANGED <<device, clock, history>>

-----------------------------------------------------------------------------
(* What each caller does to the directory between load and flush.            *)

\* Mutant of Installed: the package's files replace the directory.
InstalledAfresh(r, d) == {[files |-> PkgFiles, layout |-> d.layout]}

\* The directories rtk_install_factory can arrive at: any of the copies of
\* ifcmd0 and ifcmd1 can fail, and so can the copy of layout.txt_bak.
Installed(r, d) ==
  LET kept   == d.files \ (IF r.kill_000 /\ ~r.only_bootcode THEN {BOOTPARAM} ELSE {})
      copied == IF r.install /\ ~r.only_bootcode THEN SUBSET PkgFiles ELSE {{}}
      killed == IF r.bootcode THEN {ENVSETTINGS} ELSE {}
      baks   == {{}} \cup (IF r.safe_upgrade THEN {{LAYOUT_BAK}} ELSE {})
  IN {[d EXCEPT !.files = ((kept \cup c) \ killed) \cup b] : c \in copied, b \in baks}

Edited(r, d) ==
  CASE r.op = "write_boottable" -> {[d EXCEPT !.layout = r.layout]}
    [] r.op = "install_factory" -> Installed(r, d)
    [] r.op = "create_file"     -> {[d EXCEPT !.files = @ \cup {r.file}]}
    [] r.op = "remove_file"     -> {[d EXCEPT !.files = @ \ {r.file}]}
    [] OTHER                    -> {d}

Edit ==
  /\ pc = "edit"
  /\ dir' \in Edited(req, dir)
  /\ pc' = "flush"
  /\ UNCHANGED <<device, statics, clock, call, ret, history>>

-----------------------------------------------------------------------------
(* factory_flush.                                                            *)

\* tar cf fails (no space in /tmp) before the header is built.
TarFails ==
  /\ pc = "flush"
  /\ Return("fail")
  /\ UNCHANGED <<device, dir, statics, clock, history>>

\* factory_build_header counts seq_num up even when the tar turns out too big.
TarTooBig ==
  /\ pc = "flush" /\ is_init
  /\ seq_num < MaxSeq
  /\ Size(dir) > Capacity
  /\ seq_num' = seq_num + 1
  /\ Return("fail")
  /\ UNCHANGED <<device, dir, is_init, current_pp, clock, history>>

\* Mutants of NextPP: the result of the increment is not reduced, or the slot
\* in force is written.
NextPPUnreduced(pp) == pp + 1
NextPPSame(pp) == IF pp = NoPP THEN 0 ELSE pp

\* The slot the next tar goes to.
NextPP(pp) == IF pp = NoPP THEN 0 ELSE (pp + 1) % 2

\* The other slot becomes current before anything is written to it.
Toggle ==
  /\ pc = "flush" /\ is_init
  /\ seq_num < MaxSeq
  /\ Size(dir) <= Capacity
  /\ seq_num' = seq_num + 1
  /\ current_pp' = NextPP(current_pp)
  /\ pc' = "dd"
  /\ UNCHANGED <<device, dir, is_init, clock, call, ret>>
  /\ IF attempts = 0
       THEN attempts' = 1 /\ tried' = tar' /\ UNCHANGED acked
       ELSE attempts' = 2 /\ tried' = Junk /\ acked' = Junk

\* dd writes the header and the first of the body, then the rest, then the
\* copy of the header.
DdHead ==
  /\ pc = "dd"
  /\ cache' = [cache EXCEPT ![current_pp].head = tar, ![current_pp].body = Junk]
  /\ pc' = "dd_body"
  /\ UNCHANGED <<disk, dir, statics, clock, call, ret, history>>

DdBody ==
  /\ pc = "dd_body"
  /\ cache' = [cache EXCEPT ![current_pp].body = tar]
  /\ pc' = "dd_tail"
  /\ UNCHANGED <<disk, dir, statics, clock, call, ret, history>>

DdTail ==
  /\ pc = "dd_tail"
  /\ cache' = [cache EXCEPT ![current_pp].tail = tar]
  /\ pc' = IF req.sync THEN "fsync" ELSE "flushed"
  /\ UNCHANGED <<disk, dir, statics, clock, call, ret, history>>

\* current_pp stays on the slot that was not (completely) written.
DdFails ==
  /\ DdMayFail
  /\ pc \in {"dd", "dd_body", "dd_tail", "fsync"}
  /\ Return("fail")
  /\ UNCHANGED <<device, dir, statics, clock, history>>

\* Mutant of Synced: dd waits until the flash holds two valid slots.
SyncedTwice == disk = cache /\ \A s \in PP : Valid(disk[s])

\* conv=fsync waits for every dirty page of the block device.
Synced == disk = cache

Fsync ==
  /\ pc = "fsync"
  /\ Synced
  /\ pc' = "flushed"
  /\ acked' = tar /\ tried' = Junk /\ attempts' = 0
  /\ UNCHANGED <<device, dir, statics, clock, call, ret>>

\* Mutant of FlushAgain: two flushes, whichever slot comes last.
FlushTwice == req.op = "flush_pingpong" /\ flushes = 0

\* rtk_flush_pingpong_factory_mac flushes twice, and once more if that left
\* the newest tar in slot 1.
FlushAgain ==
  req.op = "flush_pingpong" /\ (flushes = 0 \/ (flushes = 1 /\ current_pp = 1))

Flushed ==
  /\ pc = "flushed"
  /\ IF FlushAgain
       THEN pc' = "flush" /\ flushes' = flushes + 1 /\ UNCHANGED <<req, loaded, ret>>
       ELSE Return("ok")
  /\ UNCHANGED <<device, dir, statics, clock, history>>

-----------------------------------------------------------------------------
(* The kernel and the power supply.                                          *)

\* A dirty page of slot s reaches the flash; of the body, perhaps a part.
WriteHead(s) ==
  /\ disk[s].head # cache[s].head
  /\ disk' = [disk EXCEPT ![s].head = cache[s].head]
  /\ UNCHANGED <<cache, dir, statics, clock, pc, call, ret, history>>

WriteBody(s) ==
  /\ disk[s].body # cache[s].body
  /\ Ordered => disk[s].head = cache[s].head
  /\ \E b \in {Junk, cache[s].body} : disk' = [disk EXCEPT ![s].body = b]
  /\ UNCHANGED <<cache, dir, statics, clock, pc, call, ret, history>>

WriteTail(s) ==
  /\ disk[s].tail # cache[s].tail
  /\ Ordered => disk[s].head = cache[s].head /\ disk[s].body = cache[s].body
  /\ disk' = [disk EXCEPT ![s].tail = cache[s].tail]
  /\ UNCHANGED <<cache, dir, statics, clock, pc, call, ret, history>>

Restarted ==
  /\ clock < MaxClock
  /\ clock' = clock + 1
  /\ is_init' = FALSE /\ current_pp' = NoPP /\ seq_num' = 0
  /\ pc' = "idle" /\ ret' = NoResult
  /\ req' = NoCall /\ loaded' = FALSE /\ flushes' = 0

\* A power cut, or the reboot at the end of main, which does not sync.
Crash ==
  /\ Restarted
  /\ cache' = disk
  /\ dir' = EmptyDir
  /\ acked' = Recover(disk) /\ tried' = Junk /\ attempts' = 0
  /\ UNCHANGED disk

\* The installer ends and is run again in the same boot.
RunAgain ==
  /\ pc = "idle" /\ is_init
  /\ Restarted
  /\ UNCHANGED <<device, dir, history>>

factory_flush == TarFails \/ TarTooBig \/ Toggle \/ DdHead \/ DdBody \/ DdTail
                   \/ DdFails \/ Fsync \/ Flushed

Step == Call \/ UntarFails \/ InitFails \/ factory_load \/ Edit \/ factory_flush
Kernel == \E s \in PP : WriteHead(s) \/ WriteBody(s) \/ WriteTail(s)

Next == Step \/ Kernel \/ Crash \/ RunAgain

Spec == Init /\ [][Next]_vars

\* The program runs on, and the kernel writes every dirty page back in time.
Fairness ==
  /\ WF_vars(Step /\ pc # "idle")
  /\ \A s \in PP : /\ WF_vars(WriteHead(s))
                  /\ WF_vars(WriteBody(s) /\ disk'[s] = [disk[s] EXCEPT !.body = cache[s].body])
                  /\ WF_vars(WriteTail(s))

FairSpec == Spec /\ Fairness

-----------------------------------------------------------------------------
TypeOK ==
  /\ disk \in [PP -> Slot] /\ cache \in [PP -> Slot]
  /\ dir \in Dir
  /\ is_init \in BOOLEAN /\ current_pp \in PP \cup {NoPP} /\ seq_num \in Nat
  /\ clock \in Nat
  /\ pc \in {"idle", "load", "edit", "flush", "dd", "dd_body", "dd_tail", "fsync", "flushed"}
  /\ req \in AllRequests \cup {NoCall} /\ loaded \in BOOLEAN /\ flushes \in 0..2
  /\ ret.code \in {"none", "ok", "fail"}
  /\ acked \in Part /\ tried \in Part /\ attempts \in 0..2

\* With no attempt pending, a restart finds the tar of the last flush that
\* was acknowledged as durable, whatever failed before it.
AckedSurvives == attempts = 0 => Recover(disk) = acked

\* While one attempt is in flight, or has failed, or has been acknowledged
\* without fsync, a power cut leaves the old tar or the new one: nothing in
\* between, and never an older one.
OneAttemptIsAtomic == attempts = 1 => Recover(disk) \in {acked, tried}

\* The header comparison of factory_find_latest_update accepts no slot, on
\* the flash or through the page cache, whose body is not its header's.
ValidIsWhole == \A s \in PP : /\ Valid(disk[s]) => Whole(disk[s])
                              /\ Valid(cache[s]) => Whole(cache[s])

\* Once a flush has returned 0, the slot the statics point at is the one a
\* new start of the program would choose, and it holds the directory, though
\* earlier flushes may have failed half way.
ReadYourWrites ==
  pc = "idle" /\ ret.code = "ok" /\ ret.op # "check_update_bootcode" =>
    /\ Pick(cache) = current_pp
    /\ Recover(cache) = tar

\* After rtk_flush_pingpong_factory_mac returns 0, "both ping pong" hold the
\* same files on the flash and the newest is in slot 0.
PingPongLeavesBoth ==
  pc = "idle" /\ ret = [op |-> "flush_pingpong", code |-> "ok"] =>
    /\ current_pp = 0
    /\ \A s \in PP : Whole(disk[s])
    /\ disk[0].head.dir = disk[1].head.dir
    /\ Pick(disk) = 0

\* The files a request takes out of the directory.
Removed(r) ==
  CASE r.op = "install_factory" -> (IF r.kill_000 THEN {BOOTPARAM} ELSE {})
                                     \cup (IF r.bootcode THEN {ENVSETTINGS} ELSE {})
    [] r.op = "remove_file"     -> {r.file}
    [] OTHER                    -> {}

\* The flush that follows a good load writes back every file of the last
\* durable tar that the call does not mean to remove.
FactoryFilesKept ==
  (pc \in {"dd", "dd_body", "dd_tail"} /\ attempts = 1 /\ loaded /\ acked # Junk) =>
    acked.dir.files \ Removed(req) \subseteq tried.dir.files

\* Every call comes back, the ones that wait for the flash included.
CallsReturn == pc # "idle" ~> pc = "idle"
=============================================================================
