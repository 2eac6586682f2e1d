--------------------------- MODULE InstallProofs ---------------------------
(***************************************************************************)
(* Install, for every set of packages and any number of runs: what main    *)
(* reports, what the descriptor and the boot tables tell of the images,    *)
(* and what is burned into the fuses.                                      *)
(***************************************************************************)
EXTENDS Install, TLAPS

\* The steps of a whole installation, before and after the images are burned.
Before == {"table", "sign", "marker", "repart", "boot", "flow"}
Behind == {"keys", "bits", "desc", "post", "close"}
\* Those that follow the last flush of the boot table, and those that end the run.
Ending == {"wtable", "lock", "pingpong", "report", "exit"}

\* TypeOK in parts.
StoreType ==
  /\ table \in Table /\ tables \subseteq Table /\ table \in tables
  /\ desc \in Descs /\ descs \subseteq Descs /\ desc \in descs
MemType ==
  pkg \in Packages /\ bootcode \in BOOLEAN /\ mtable \in Table /\ bak \in Table
BoardType ==
  /\ old \in {"whole", "damaged"} /\ new \in {"absent", "part", "whole"}
  /\ boot \in {"old", "torn", "new"} /\ rom \in {"whole", "signed"}
  /\ fuses \in [key : BOOLEAN, secure : BOOLEAN]
RunType ==
  /\ pc \in Pcs /\ ret \in {0, -1} /\ ui \in {"none", "running", "success", "fail"}
  /\ passed \in BOOLEAN /\ runs \in 0..MaxRuns
Lapses == {"table", "sign", "desc", "fuse", "lock", "pingpong", "restored", "lost"}

\* Which packages come to which steps.
Modes ==
  /\ pc = "layout" => pkg.mode \in {"full", "fake"}
  /\ pc \in (Before \ {"boot"}) \cup Behind => pkg.mode = "full"
  /\ pc = "boot" => pkg.mode \in {"full", "bootcode"}
  /\ pc = "factory" => pkg.mode \in {"full", "factory", "bootcode"}
  /\ pc = "repart" => pkg.flash = "emmc"
  /\ pc \in {"keys", "bits", "desc"} => pkg.flash # "nor"

\* A whole installation has burned its images, and will succeed if nothing fails.
Done ==
  \/ pc \in Behind
  \/ pkg.mode = "full" /\ (pc = "factory" \/ (pc \in Ending /\ ret = 0))

\* The progress screen shows no result before the report.
Screen ==
  /\ pc \notin {"exit", "off"} => ui \in {"none", "running"}
  /\ UiToldTheResult

\* The gate has let the package pass, the keys have been burned.
Fused ==
  /\ pc \in Before \cup {"layout", "keys"} => ~Refused(pkg)
  /\ pc = "bits" => pkg.secure
  /\ Done /\ pkg.flash # "nor" /\ pc \notin {"keys", "bits"} =>
       /\ fuses.secure => pkg.secure
       /\ pkg.secure => fuses.secure \/ "fuse" \in lapses

\* The parts of a whole installation that has come this far are in the flash.
Burned ==
  /\ Done => new = "whole"
  /\ pkg.flash # "nor" => rom = "whole"
  /\ (Done \/ pc = "flow") /\ bootcode => boot = "new" /\ (rom = "whole" \/ pkg.big)
  /\ Done /\ pkg.flash # "nor" /\ pc \notin {"keys", "bits", "desc"} =>
       desc = "new" \/ "desc" \in lapses
  /\ Done /\ pc = "wtable" => mtable.says = "new"
  /\ Done /\ pc \in Ending \ {"wtable"} => table.says = "new" \/ "table" \in lapses

\* Only a part of a NOR is recorded, and only whole new images are named new.
Named ==
  /\ pkg.flash # "nor" => ~mtable.part /\ ~bak.part /\ \A t \in tables : ~t.part
  /\ mtable.says # "old"
  /\ mtable.says = "new" \/ bak.says = "new" => new = "whole"
  /\ \A t \in tables : t.says = "new" => new = "whole"
  /\ "new" \in descs => new = "whole"

\* Nothing names the earlier images any more when they are damaged.
Disowned ==
  /\ pc \in Before \ {"table"} /\ pkg.mode = "full" /\ table.says = "old" =>
       "table" \in lapses
  /\ pc \in Before \ {"table", "sign"} /\ pkg.mode = "full" /\ pkg.flash # "nor"
       /\ desc = "old" => "sign" \in lapses
  /\ table.says = "old" /\ lapses \cap {"table", "restored", "lost"} = {} => old = "whole"
  /\ bak.says = "old" /\ bak.part /\ lapses \cap {"table", "restored", "lost"} = {} =>
       old = "whole"
  /\ pkg.flash # "nor" /\ desc = "old" /\ lapses \cap {"sign", "lost"} = {} => old = "whole"

\* The fuses come to refuse a package only when its images are whole.
Repeatable ==
  /\ pc \in {"setup", "gate"} => new = "absent"
  /\ passed /\ Refused(pkg) =>
       new = "whole" \/ (old = "whole" /\ pc \in {"off", "setup", "gate", "report", "exit"})

\* The last flushes of a successful installation were synced.
Synced ==
  pc \in {"report", "exit"} /\ ret = 0 /\ pkg.mode = "full"
    /\ pkg.install_factory /\ lapses = {} => tables = {table} /\ descs = {desc}

IInv ==
  TypeOK /\ Modes /\ Screen /\ Fused /\ Burned /\ Named /\ Disowned /\ Repeatable /\ Synced

\* Where a step of a whole installation leads.
LEMMA AfterIs ==
  ASSUME pkg.flash \in {"nand", "nor", "emmc"}
  PROVE  /\ After("table") = "sign"
         /\ pkg.flash = "nand" => After("sign") = "boot"
         /\ pkg.flash = "nor"  => After("sign") = "marker"
         /\ pkg.flash = "emmc" => After("sign") = "repart"
         /\ After("marker") = "boot" /\ After("repart") = "boot" /\ After("boot") = "flow"
         /\ pkg.flash = "nor" => After("flow") = "post"
         /\ pkg.flash # "nor" => After("flow") = "keys"
         /\ After("keys") = "desc" /\ After("desc") = "post" /\ After("post") = "factory"
<1>1. After("table") = "sign"
  BY DEF After
<1>2. pkg.flash = "nand" => After("sign") = "boot"
  BY DEF After
<1>3. pkg.flash = "nor" => After("sign") = "marker"
  BY DEF After
<1>4. pkg.flash = "emmc" => After("sign") = "repart"
  BY DEF After
<1>5. After("marker") = "boot" /\ After("repart") = "boot" /\ After("boot") = "flow"
  BY DEF After
<1>6. pkg.flash = "nor" => After("flow") = "post"
  BY DEF After
<1>7. pkg.flash # "nor" => After("flow") = "keys"
  BY DEF After
<1>8. After("keys") = "desc" /\ After("desc") = "post" /\ After("post") = "factory"
  BY DEF After
<1> QED
  BY <1>1, <1>2, <1>3, <1>4, <1>5, <1>6, <1>7, <1>8

\* What the writes of a boot table leave is a boot table.
LEMMA Tables ==
  /\ NoTable \in Table
  /\ [says |-> "garbage", part |-> FALSE] \in Table
  /\ \A t \in Table : [t EXCEPT !.says = "unknown"] \in Table /\ EarlierTable(t) \in Table
<1>1. ASSUME NEW t \in Table
      PROVE  [t EXCEPT !.says = "unknown"] \in Table /\ EarlierTable(t) \in Table
  BY <1>1 DEF Table, EarlierTable, Earlier
<1> QED
  BY <1>1 DEF Table, NoTable

LEMMA FlushedType ==
  ASSUME StoreType, NEW t \in Table, NEW synced, Flushed(t, synced)
  PROVE  StoreType'
<1>1. table' = t /\ desc' = desc
  BY DEF Flushed
<1>2. CASE synced
  BY <1>1, <1>2 DEF StoreType, Flushed
<1>3. CASE ~synced
  <2>1. descs' = descs
    BY <1>3 DEF Flushed
  <2>2. tables' \subseteq Table /\ t \in tables'
    BY <1>3, Tables DEF StoreType, Flushed
  <2> QED
    BY <1>1, <2>1, <2>2 DEF StoreType
<1> QED
  BY <1>2, <1>3

LEMMA FlushFailsType ==
  ASSUME StoreType, FlushFails
  PROVE  StoreType'
BY Tables DEF StoreType, FlushFails

\* Every step leaves tables and descriptors in the flash.
LEMMA StoreStep ==
  ASSUME IInv, [Next]_vars
  PROVE  StoreType'
<1>1. StoreType /\ mtable \in Table /\ bak \in Table
  BY DEF IInv, TypeOK, StoreType
<1>2. CASE WriteUnknown
  <2>1. mtable' \in Table
    BY <1>1, <1>2, Tables DEF WriteUnknown, StoreType
  <2>2. Flushed(mtable', FALSE) \/ FlushFails
    BY <1>2 DEF WriteUnknown
  <2> QED
    BY <1>1, <2>1, <2>2, FlushedType, FlushFailsType
<1>3. CASE CheckMarker
  <2>1. UNCHANGED store \/ Flushed(table, TRUE) \/ FlushFails
    BY <1>3 DEF CheckMarker
  <2> QED
    BY <1>1, <2>1, FlushedType, FlushFailsType DEF StoreType, store
<1>4. CASE BootcodeBurned
  <2> DEFINE t == IF table.says = "none" THEN [table EXCEPT !.says = "unknown"] ELSE table
  <2>1. t \in Table
    BY <1>1, Tables DEF StoreType
  <2>2. UNCHANGED store \/ Flushed(t, TRUE) \/ FlushFails
    BY <1>4 DEF BootcodeBurned
  <2> HIDE DEF t
  <2>3. CASE UNCHANGED store
    BY <1>1, <2>3 DEF StoreType, store
  <2> QED
    BY <1>1, <2>1, <2>2, <2>3, FlushedType, FlushFailsType
<1>5. CASE InstallFactory
  <2> DEFINE t == IF bak.says = "none" THEN table ELSE bak
             synced == OnlyMode \/ pkg.flash # "emmc"
  <2>1. t \in Table
    BY <1>1 DEF StoreType
  <2>2. UNCHANGED store \/ Flushed(t, synced) \/ FlushFails
    BY <1>5 DEF InstallFactory
  <2> HIDE DEF t, synced
  <2>3. CASE UNCHANGED store
    BY <1>1, <2>3 DEF StoreType, store
  <2> QED
    BY <1>1, <2>1, <2>2, <2>3, FlushedType, FlushFailsType
<1>6. CASE WriteTable
  <2>1. Flushed(mtable, FALSE) \/ FlushFails
    BY <1>6 DEF WriteTable
  <2> QED
    BY <1>1, <2>1, FlushedType, FlushFailsType
<1>7. CASE RemoveLock \/ PingPong
  <2>1. UNCHANGED store \/ Flushed(table, TRUE) \/ FlushFails
    BY <1>7 DEF RemoveLock, PingPong
  <2> QED
    BY <1>1, <2>1, FlushedType, FlushFailsType DEF StoreType, store
<1>8. CASE Exit \/ PowerCut
  <2>1. LosePower \/ UNCHANGED store
    BY <1>8 DEF Exit, PowerCut
  <2> QED
    BY <1>1, <2>1 DEF LosePower, StoreType, store
<1>9. CASE Sign \/ BeginDesc \/ DescBurned \/ DescFails
  BY <1>1, <1>9 DEF Sign, BeginDesc, DescBurned, DescFails, Lapse, StoreType, Descs
<1>10. CASE \E p \in Packages : Start(p)
  <2>1. /\ table' = EarlierTable(table) /\ tables' = {EarlierTable(t) : t \in tables}
        /\ desc' = Earlier(desc) /\ descs' = {Earlier(d) : d \in descs}
    BY <1>10 DEF Start
  <2>2. table' \in Table /\ tables' \subseteq Table /\ table' \in tables'
    BY <1>1, <2>1, Tables DEF StoreType
  <2>3. desc' \in Descs /\ descs' \subseteq Descs /\ desc' \in descs'
    BY <1>1, <2>1 DEF StoreType, Descs, Earlier
  <2> QED
    BY <2>2, <2>3 DEF StoreType
<1>11. CASE    Setup \/ Gate \/ Layout \/ Repartition \/ SkipBootcode \/ BeginBootcode
            \/ BootcodeFails \/ BeginFlow \/ FlowBurned \/ FlowFails \/ SkipKeys \/ KeysFail
            \/ BurnKeys \/ BurnSecureBits \/ PostProcess \/ SkipFactory \/ Close \/ Report
            \/ UNCHANGED vars
  <2>1. UNCHANGED store
    BY <1>11 DEF Setup, Gate, Layout, Repartition, SkipBootcode, BeginBootcode, BootcodeFails,
       BeginFlow, FlowBurned, FlowFails, SkipKeys, KeysFail, BurnKeys, BurnSecureBits,
       PostProcess, SkipFactory, Close, Report, vars
  <2> QED
    BY <1>1, <2>1 DEF StoreType, store
<1> QED
  BY <1>2, <1>3, <1>4, <1>5, <1>6, <1>7, <1>8, <1>9, <1>10, <1>11 DEF Next, Step

\* Every step leaves tables and a package in the driver's memory.
LEMMA MemStep ==
  ASSUME IInv, [Next]_vars
  PROVE  MemType'
<1>1. MemType /\ table \in Table
  BY DEF IInv, TypeOK, MemType
<1>2. CASE Layout
  <2>1. bak' \in {table, NoTable} /\ UNCHANGED <<pkg, bootcode, mtable>>
    BY <1>2 DEF Layout
  <2> QED
    BY <1>1, <2>1, Tables DEF MemType
<1>3. CASE WriteUnknown
  BY <1>1, <1>3, Tables DEF WriteUnknown, MemType
<1>4. CASE CheckMarker
  BY <1>1, <1>4 DEF CheckMarker, MemType
<1>5. CASE FlowBurned
  <2>1. mtable' = [says |-> "new", part |-> pkg.flash = "nor" /\ pkg.safe]
        /\ UNCHANGED <<pkg, bootcode, bak>>
    BY <1>5 DEF FlowBurned
  <2>2. mtable' \in Table
    BY <2>1 DEF Table
  <2> QED
    BY <1>1, <2>1, <2>2 DEF MemType
<1>6. CASE Close
  BY <1>1, <1>6 DEF Close, MemType, Table
<1>7. ASSUME NEW p \in Packages, Start(p)
      PROVE  MemType'
  <2>1. pkg' = p /\ bootcode' = p.bootcode /\ bak' = NoTable
        /\ mtable' = [says |-> "garbage", part |-> FALSE]
    BY <1>7 DEF Start
  <2>2. p.bootcode \in BOOLEAN
    BY InstallAssumption DEF Package
  <2> QED
    BY <2>1, <2>2, Tables DEF MemType
<1>8. CASE    Setup \/ Gate \/ Sign \/ Repartition \/ SkipBootcode \/ BeginBootcode
           \/ BootcodeBurned \/ BootcodeFails \/ BeginFlow \/ FlowFails \/ SkipKeys
           \/ KeysFail \/ BurnKeys \/ BurnSecureBits \/ BeginDesc \/ DescBurned \/ DescFails
           \/ PostProcess \/ SkipFactory \/ InstallFactory \/ WriteTable \/ RemoveLock
           \/ PingPong \/ Report \/ Exit \/ PowerCut \/ UNCHANGED vars
  <2>1. UNCHANGED mem
    BY <1>8 DEF Setup, Gate, Sign, Repartition, SkipBootcode, BeginBootcode, BootcodeBurned,
       BootcodeFails, BeginFlow, FlowFails, SkipKeys, KeysFail, BurnKeys, BurnSecureBits,
       BeginDesc, DescBurned, DescFails, PostProcess, SkipFactory, InstallFactory, WriteTable,
       RemoveLock, PingPong, Report, Exit, PowerCut, vars
  <2> QED
    BY <1>1, <2>1 DEF MemType, mem
<1> QED
  BY <1>2, <1>3, <1>4, <1>5, <1>6, <1>7, <1>8 DEF Next, Step

\* The images, the boot code and the fuses: every step leaves values of theirs.
LEMMA BoardStep ==
  ASSUME IInv, [Next]_vars
  PROVE  BoardType'
<1>1. CASE    Setup \/ Gate \/ Layout \/ WriteUnknown \/ Sign \/ CheckMarker \/ Repartition
           \/ SkipBootcode \/ BeginBootcode \/ BootcodeBurned \/ BootcodeFails \/ BeginFlow
           \/ FlowBurned \/ FlowFails \/ SkipKeys \/ KeysFail \/ BurnKeys \/ BurnSecureBits
           \/ BeginDesc \/ DescBurned \/ DescFails \/ PostProcess \/ SkipFactory
           \/ InstallFactory \/ Close \/ WriteTable \/ RemoveLock \/ PingPong \/ Report
           \/ Exit \/ PowerCut
  BY <1>1, ZenonT(40) DEF IInv, TypeOK, BoardType, Setup, Gate, Layout, WriteUnknown, Flushed, FlushFails,
     Lapse, Sign, CheckMarker, Repartition, OnError, SkipBootcode, WithBootcode,
     BeginBootcode, BootcodeBurned, BurnsRom, BootcodeFails, BeginFlow, FlowBurned, FlowFails, SkipKeys,
     KeysWanted, KeysFail, BurnKeys, BurnSecureBits, BeginDesc, DescBurned, DescFails,
     PostProcess, SkipFactory, FactoryWanted, OnlyMode, InstallFactory, Close, WriteTable,
     RemoveLock, PingPong, Report, Exit, LosePower, PowerCut, mem, store, board, past
<1>2. CASE \E p \in Packages : Start(p)
  BY <1>2 DEF IInv, TypeOK, BoardType, Start, Earlier, EarlierTable, mem, store, board, past
<1>3. CASE UNCHANGED vars
  BY <1>3 DEF IInv, TypeOK, BoardType, vars, mem, store, board, past
<1> QED
  BY <1>1, <1>2, <1>3 DEF Next, Step

\* Where the driver is, what it returns and what the screen shows.
LEMMA RunStep ==
  ASSUME IInv, [Next]_vars
  PROVE  RunType'
<1>1. pkg.flash \in {"nand", "nor", "emmc"}
  BY InstallAssumption DEF IInv, TypeOK, Package
<1>2. CASE Gate
  BY <1>2 DEF IInv, TypeOK, RunType, Pcs, Gate, mem, store, board, past
<1>3. CASE    Setup \/ Layout \/ WriteUnknown \/ Sign \/ CheckMarker \/ Repartition
           \/ SkipBootcode \/ BeginBootcode \/ BootcodeBurned \/ BootcodeFails \/ BeginFlow
           \/ FlowBurned \/ FlowFails \/ SkipKeys \/ KeysFail \/ BurnKeys \/ BurnSecureBits
           \/ BeginDesc \/ DescBurned \/ DescFails \/ PostProcess \/ SkipFactory
           \/ InstallFactory \/ Close \/ WriteTable \/ RemoveLock \/ PingPong \/ Report
           \/ Exit \/ PowerCut
  BY <1>3, AfterIs, <1>1 DEF IInv, TypeOK, RunType, Pcs, Setup, Layout, WriteUnknown, Flushed,
     FlushFails, Lapse, Sign, CheckMarker, Repartition, OnError, SkipBootcode, WithBootcode,
     BeginBootcode, BootcodeBurned, BootcodeFails, BeginFlow, FlowBurned, FlowFails, SkipKeys,
     KeysWanted, KeysFail, BurnKeys, BurnSecureBits, BeginDesc, DescBurned, DescFails,
     PostProcess, SkipFactory, FactoryWanted, OnlyMode, InstallFactory, Close, WriteTable,
     RemoveLock, PingPong, Report, Exit, LosePower, PowerCut, mem, store, board, past
<1>4. ASSUME NEW p \in Packages, Start(p)
      PROVE  RunType'
  <2>1. passed' \in BOOLEAN
    BY <1>4 DEF Start
  <2>2. runs' \in 0..MaxRuns
    BY <1>4, InstallAssumption DEF IInv, TypeOK, Start
  <2>3. pc' \in Pcs /\ ret' = 0 /\ ui' = "none"
    BY <1>4 DEF Start, Pcs
  <2> QED
    BY <2>1, <2>2, <2>3 DEF RunType
<1>5. CASE UNCHANGED vars
  BY <1>5 DEF IInv, TypeOK, RunType, Pcs, vars, mem, store, board, past
<1> QED
  BY <1>2, <1>3, <1>4, <1>5 DEF Next, Step

\* The passed-over failures are those of seven calls and the loss of a write.
LEMMA LapseStep ==
  ASSUME IInv, [Next]_vars
  PROVE  (lapses \subseteq Lapses)'
<1>1. CASE    Setup \/ Gate \/ Layout \/ WriteUnknown \/ Sign \/ CheckMarker \/ Repartition
           \/ SkipBootcode \/ BeginBootcode \/ BootcodeBurned \/ BootcodeFails \/ BeginFlow
           \/ FlowBurned \/ FlowFails \/ SkipKeys \/ KeysFail \/ BurnKeys \/ BurnSecureBits
           \/ BeginDesc \/ DescBurned \/ DescFails \/ PostProcess \/ SkipFactory
           \/ InstallFactory \/ Close \/ WriteTable \/ RemoveLock \/ PingPong \/ Report
           \/ Exit \/ PowerCut
  BY <1>1 DEF IInv, TypeOK, Lapses, Setup, Gate, Layout, WriteUnknown, Flushed, FlushFails,
     Lapse, Sign, CheckMarker, Repartition, OnError, SkipBootcode, WithBootcode,
     BeginBootcode, BootcodeBurned, BootcodeFails, BeginFlow, FlowBurned, FlowFails, SkipKeys,
     KeysWanted, KeysFail, BurnKeys, BurnSecureBits, BeginDesc, DescBurned, DescFails,
     PostProcess, SkipFactory, FactoryWanted, OnlyMode, InstallFactory, Close, WriteTable,
     RemoveLock, PingPong, Report, Exit, LosePower, PowerCut, mem, store, board, past
<1>2. CASE \E p \in Packages : Start(p)
  BY <1>2 DEF IInv, TypeOK, Lapses, Start, Earlier, EarlierTable, mem, store, board, past
<1>3. CASE UNCHANGED vars
  BY <1>3 DEF IInv, TypeOK, Lapses, vars, mem, store, board, past
<1> QED
  BY <1>1, <1>2, <1>3 DEF Next, Step

\* The gate sends every mode its way, and the flashes part after modify_signature.
LEMMA ModesStep ==
  ASSUME IInv, [Next]_vars
  PROVE  Modes'
<1>1. pkg.flash \in {"nand", "nor", "emmc"}
  BY InstallAssumption DEF IInv, TypeOK, Package
<1>2. CASE Gate
  BY <1>2 DEF IInv, TypeOK, Modes, Before, Behind, Gate, mem, store, board, past
<1>3. CASE Layout
  BY <1>3 DEF IInv, TypeOK, Modes, Before, Behind, Layout, mem, store, board, past
<1>4. CASE SkipFactory
  BY <1>4 DEF IInv, TypeOK, Modes, Before, Behind, SkipFactory, FactoryWanted, OnlyMode, mem,
     store, board, past
<1>5. CASE InstallFactory
  BY <1>5 DEF IInv, TypeOK, Modes, Before, Behind, InstallFactory, FactoryWanted, OnlyMode,
     Flushed, FlushFails, Lapse, mem, store, board, past
<1>6. CASE BootcodeBurned
  BY <1>6, AfterIs, <1>1 DEF IInv, TypeOK, Modes, Before, Behind, BootcodeBurned, Flushed,
     FlushFails, WithBootcode, mem, store, board, past
<1>7. CASE BootcodeFails
  BY <1>7 DEF IInv, TypeOK, Modes, Before, Behind, BootcodeFails, WithBootcode, OnError, mem,
     store, board, past
<1>8. CASE    Setup \/ WriteUnknown \/ Sign \/ CheckMarker \/ Repartition \/ SkipBootcode
           \/ BeginBootcode \/ BeginFlow \/ FlowBurned \/ FlowFails \/ SkipKeys \/ KeysFail
           \/ BurnKeys \/ BurnSecureBits \/ BeginDesc \/ DescBurned \/ DescFails
           \/ PostProcess \/ Close \/ WriteTable \/ RemoveLock \/ PingPong \/ Report \/ Exit
           \/ PowerCut
  BY <1>8, AfterIs, <1>1 DEF IInv, TypeOK, Modes, Before, Behind, Setup, WriteUnknown,
     Flushed, FlushFails, Lapse, Sign, CheckMarker, Repartition, OnError, SkipBootcode,
     WithBootcode, BeginBootcode, BeginFlow, FlowBurned, FlowFails, SkipKeys, KeysWanted,
     KeysFail, BurnKeys, BurnSecureBits, BeginDesc, DescBurned, DescFails, PostProcess, Close,
     WriteTable, RemoveLock, PingPong, Report, Exit, LosePower, PowerCut, mem, store, board,
     past
<1>9. CASE \E p \in Packages : Start(p)
  BY <1>9 DEF IInv, TypeOK, Modes, Before, Behind, Start, Earlier, EarlierTable, mem, store,
     board, past
<1>10. CASE UNCHANGED vars
  BY <1>10 DEF IInv, TypeOK, Modes, Before, Behind, vars, mem, store, board, past
<1> QED
  BY <1>2, <1>3, <1>4, <1>5, <1>6, <1>7, <1>8, <1>9, <1>10 DEF Next, Step

\* Only the report shows a result, and it is the one that main sees.
LEMMA ScreenStep ==
  ASSUME IInv, [Next]_vars
  PROVE  Screen'
<1>1. pkg.flash \in {"nand", "nor", "emmc"}
  BY InstallAssumption DEF IInv, TypeOK, Package
<1>2. CASE Setup
  BY <1>2 DEF IInv, TypeOK, Screen, UiToldTheResult, Setup, mem, store, board, past
<1>3. CASE Gate
  BY <1>3 DEF IInv, TypeOK, Screen, UiToldTheResult, Gate, mem, store, board, past
<1>4. CASE Layout
  BY <1>4 DEF IInv, TypeOK, Screen, UiToldTheResult, Layout, mem, store, board, past
<1>5. CASE Report
  BY <1>5 DEF IInv, TypeOK, Screen, UiToldTheResult, Report, mem, store, board, past
<1>6. CASE Exit
  BY <1>6 DEF IInv, TypeOK, Screen, UiToldTheResult, Exit, LosePower, mem, store, board, past
<1>7. CASE    WriteUnknown \/ Sign \/ CheckMarker \/ Repartition \/ SkipBootcode
           \/ BeginBootcode \/ BootcodeBurned \/ BootcodeFails \/ BeginFlow \/ FlowBurned
           \/ FlowFails \/ SkipKeys \/ KeysFail \/ BurnKeys \/ BurnSecureBits \/ BeginDesc
           \/ DescBurned \/ DescFails \/ PostProcess \/ SkipFactory \/ InstallFactory
           \/ Close \/ WriteTable \/ RemoveLock \/ PingPong \/ PowerCut
  BY <1>7, AfterIs, <1>1 DEF IInv, TypeOK, Screen, UiToldTheResult, WriteUnknown, Flushed,
     FlushFails, Lapse, Sign, CheckMarker, Repartition, OnError, SkipBootcode, WithBootcode,
     BeginBootcode, BootcodeBurned, BootcodeFails, BeginFlow, FlowBurned, FlowFails, SkipKeys,
     KeysWanted, KeysFail, BurnKeys, BurnSecureBits, BeginDesc, DescBurned, DescFails,
     PostProcess, SkipFactory, FactoryWanted, OnlyMode, InstallFactory, Close, WriteTable,
     RemoveLock, PingPong, PowerCut, LosePower, mem, store, board, past
<1>8. CASE \E p \in Packages : Start(p)
  BY <1>8 DEF IInv, TypeOK, Screen, UiToldTheResult, Start, Earlier, EarlierTable, mem, store,
     board, past
<1>9. CASE UNCHANGED vars
  BY <1>9 DEF IInv, TypeOK, Screen, UiToldTheResult, vars, mem, store, board, past
<1> QED
  BY <1>2, <1>3, <1>4, <1>5, <1>6, <1>7, <1>8, <1>9 DEF Next, Step

\* The gate and the burn of the keys see to it that the fuses fit the package.
LEMMA FusedStep ==
  ASSUME IInv, [Next]_vars
  PROVE  Fused'
<1>1. pkg.flash \in {"nand", "nor", "emmc"}
  BY InstallAssumption DEF IInv, TypeOK, Package
<1>2. CASE Gate
  BY <1>2 DEF IInv, TypeOK, Modes, Fused, Refused, Done, Before, Behind, Ending, Gate, mem,
     store, board, past
<1>3. CASE SkipKeys
  <2>1. /\ pkg.secure \in BOOLEAN /\ pkg.efuse_key \in BOOLEAN
        /\ fuses \in [key : BOOLEAN, secure : BOOLEAN]
    BY InstallAssumption DEF IInv, TypeOK, Package
  <2>2. pc = "keys" /\ ~KeysWanted /\ pc' = "desc" /\ pkg' = pkg /\ fuses' = fuses
    BY <1>3, <1>1, AfterIs DEF SkipKeys, mem, board
  <2>3. ~Refused(pkg)
    BY <2>2 DEF IInv, Fused
  <2>4. fuses.secure = pkg.secure
    BY <2>1, <2>2, <2>3 DEF Refused, KeysWanted
  <2> QED
    BY <2>2, <2>4 DEF Fused, Before
<1>4. CASE BurnKeys
  <2>1. /\ pkg.secure \in BOOLEAN /\ pkg.efuse_key \in BOOLEAN
        /\ fuses \in [key : BOOLEAN, secure : BOOLEAN]
    BY InstallAssumption DEF IInv, TypeOK, Package
  <2>2. /\ pc = "keys" /\ KeysWanted /\ pkg' = pkg
        /\ fuses' = [fuses EXCEPT !.key = TRUE] \/ fuses' = fuses
        /\ pc' = IF pkg.secure THEN "bits" ELSE "desc"
    BY <1>4, <1>1, AfterIs DEF BurnKeys, mem
  <2>3. ~Refused(pkg)
    BY <2>2 DEF IInv, Fused
  <2>4. fuses'.secure = fuses.secure
    BY <2>1, <2>2
  <2>5. ~pkg.secure => ~fuses.secure
    BY <2>1, <2>2, <2>3 DEF Refused, KeysWanted
  <2>6. pc' = "desc" => fuses'.secure = pkg'.secure
    BY <2>1, <2>2, <2>4, <2>5
  <2> QED
    BY <2>2, <2>6 DEF Fused, Before
<1>5. CASE BurnSecureBits
  <2>1. pkg.secure \in BOOLEAN /\ fuses \in [key : BOOLEAN, secure : BOOLEAN]
    BY InstallAssumption DEF IInv, TypeOK, Package
  <2>2. /\ pc = "bits" /\ pc' = "desc" /\ pkg' = pkg
        /\ fuses' = [fuses EXCEPT !.secure = TRUE] \/ "fuse" \in lapses'
    BY <1>5, <1>1, AfterIs DEF BurnSecureBits, mem, Lapse
  <2>3. pkg.secure = TRUE
    BY <2>1, <2>2 DEF IInv, Fused
  <2>4. pkg'.secure /\ (fuses'.secure \/ "fuse" \in lapses')
    BY <2>1, <2>2, <2>3
  <2> QED
    BY <2>2, <2>4 DEF Fused, Before
<1>6. CASE InstallFactory
  BY <1>6 DEF IInv, TypeOK, Modes, Fused, Refused, Done, Before, Behind, Ending,
     InstallFactory, FactoryWanted, OnlyMode, Flushed, FlushFails, Lapse, mem, store, board,
     past
<1>7. CASE PostProcess
  BY <1>7, AfterIs, <1>1 DEF IInv, TypeOK, Modes, Fused, Refused, Done, Before, Behind,
     Ending, PostProcess, mem, store, board, past
<1>8. CASE    Setup \/ Layout \/ WriteUnknown \/ Sign \/ CheckMarker \/ Repartition
           \/ SkipBootcode \/ BeginBootcode \/ BootcodeBurned \/ BootcodeFails \/ BeginFlow
           \/ FlowBurned \/ FlowFails \/ KeysFail \/ BeginDesc \/ DescBurned \/ DescFails
           \/ SkipFactory \/ Close \/ WriteTable \/ RemoveLock \/ PingPong \/ Report \/ Exit
           \/ PowerCut
  BY <1>8, AfterIs, <1>1 DEF IInv, TypeOK, Modes, Fused, Refused, Done, Before, Behind,
     Ending, Setup, Layout, WriteUnknown, Flushed, FlushFails, Lapse, Sign, CheckMarker,
     Repartition, OnError, SkipBootcode, WithBootcode, BeginBootcode, BootcodeBurned,
     BootcodeFails, BeginFlow, FlowBurned, FlowFails, KeysFail, KeysWanted, BeginDesc,
     DescBurned, DescFails, SkipFactory, FactoryWanted, OnlyMode, Close, WriteTable,
     RemoveLock, PingPong, Report, Exit, LosePower, PowerCut, mem, store, board, past
<1>9. CASE \E p \in Packages : Start(p)
  BY <1>9 DEF IInv, TypeOK, Modes, Fused, Refused, Done, Before, Behind, Ending, Start,
     Earlier, EarlierTable, mem, store, board, past
<1>10. CASE UNCHANGED vars
  BY <1>10 DEF IInv, TypeOK, Modes, Fused, Refused, Done, Before, Behind, Ending, vars, mem,
     store, board, past
<1> QED
  BY <1>2, <1>3, <1>4, <1>5, <1>6, <1>7, <1>8, <1>9, <1>10 DEF Next, Step

\* No step behind the images is reached without them, and none undoes an earlier one.
LEMMA BurnedStep ==
  ASSUME IInv, [Next]_vars
  PROVE  Burned'
<1>1. pkg.flash \in {"nand", "nor", "emmc"}
  BY InstallAssumption DEF IInv, TypeOK, Package
<1>2. CASE CheckMarker
  BY <1>2, AfterIs, <1>1 DEF IInv, TypeOK, Modes, Burned, Done, Before, Behind, Ending,
     CheckMarker, Flushed, FlushFails, mem, store, board, past
<1>3. CASE SkipBootcode
  BY <1>3, AfterIs, <1>1 DEF IInv, TypeOK, Modes, Burned, Done, Before, Behind, Ending,
     SkipBootcode, WithBootcode, mem, store, board, past
<1>4. CASE BootcodeBurned
  BY <1>4, AfterIs, <1>1 DEF IInv, TypeOK, Modes, Burned, Done, Before, Behind, Ending,
     BootcodeBurned, BurnsRom, Flushed, FlushFails, WithBootcode, mem, store, board, past
<1>5. CASE FlowBurned
  BY <1>5, AfterIs, <1>1 DEF IInv, TypeOK, Modes, Burned, Done, Before, Behind, Ending,
     FlowBurned, mem, store, board, past
<1>6. CASE DescBurned
  BY <1>6, AfterIs, <1>1 DEF IInv, TypeOK, Modes, Burned, Done, Before, Behind, Ending,
     DescBurned, Lapse, mem, store, board, past
<1>7. CASE InstallFactory
  BY <1>7 DEF IInv, TypeOK, Modes, Burned, Done, Before, Behind, Ending, InstallFactory,
     FactoryWanted, OnlyMode, Flushed, FlushFails, Lapse, mem, store, board, past
<1>8. CASE Close
  BY <1>8 DEF IInv, TypeOK, Modes, Burned, Done, Before, Behind, Ending, Close, mem, store,
     board, past
<1>9. CASE WriteTable
  BY <1>9 DEF IInv, TypeOK, Modes, Burned, Done, Before, Behind, Ending, WriteTable, Flushed,
     FlushFails, Lapse, mem, store, board, past
<1>10. CASE RemoveLock
  BY <1>10 DEF IInv, TypeOK, Modes, Burned, Done, Before, Behind, Ending, RemoveLock, Flushed,
     FlushFails, Lapse, mem, store, board, past
<1>11. CASE PingPong
  BY <1>11 DEF IInv, TypeOK, Modes, Burned, Done, Before, Behind, Ending, PingPong, Flushed,
     FlushFails, Lapse, mem, store, board, past
<1>12. CASE    Setup \/ Gate \/ Layout \/ WriteUnknown \/ Sign \/ Repartition \/ BeginBootcode
            \/ BootcodeFails \/ BeginFlow \/ FlowFails \/ SkipKeys \/ KeysFail \/ BurnKeys
            \/ BurnSecureBits \/ BeginDesc \/ DescFails \/ PostProcess \/ SkipFactory
            \/ Report \/ Exit \/ PowerCut
  BY <1>12, AfterIs, <1>1 DEF IInv, TypeOK, Modes, Burned, Done, Before, Behind, Ending,
     Setup, Gate, Layout, WriteUnknown, Flushed, FlushFails, Lapse, Sign, Repartition,
     OnError, BeginBootcode, WithBootcode, BootcodeFails, BeginFlow, FlowFails, SkipKeys,
     KeysWanted, KeysFail, BurnKeys, BurnSecureBits, BeginDesc, DescFails, PostProcess,
     SkipFactory, FactoryWanted, OnlyMode, Report, Exit, LosePower, PowerCut, mem, store,
     board, past
<1>13. CASE \E p \in Packages : Start(p)
  BY <1>13 DEF IInv, TypeOK, Modes, Burned, Done, Before, Behind, Ending, Start, SameBoard, Earlier,
     EarlierTable, mem, store, board, past
<1>14. CASE UNCHANGED vars
  BY <1>14 DEF IInv, TypeOK, Modes, Burned, Done, Before, Behind, Ending, vars, mem, store,
     board, past
<1> QED
  BY <1>2, <1>3, <1>4, <1>5, <1>6, <1>7, <1>8, <1>9, <1>10, <1>11, <1>12, <1>13, <1>14 DEF
     Next, Step

\* Nothing is called new before the last image is burned.
LEMMA NamedStep ==
  ASSUME IInv, [Next]_vars
  PROVE  Named'
<1>1. pkg.flash \in {"nand", "nor", "emmc"}
  BY InstallAssumption DEF IInv, TypeOK, Package
<1>2. CASE Layout
  BY <1>2 DEF IInv, TypeOK, Modes, Named, Burned, Done, Before, Behind, Ending, Table,
     NoTable, Layout, mem, store, board, past
<1>3. CASE WriteUnknown
  BY <1>3, AfterIs, <1>1 DEF IInv, TypeOK, Modes, Named, Burned, Done, Before, Behind, Ending,
     Table, NoTable, WriteUnknown, Flushed, FlushFails, Lapse, mem, store, board, past
<1>4. CASE CheckMarker
  BY <1>4, AfterIs, <1>1 DEF IInv, TypeOK, Modes, Named, Burned, Done, Before, Behind, Ending,
     Table, NoTable, CheckMarker, Flushed, FlushFails, mem, store, board, past
<1>5. CASE BootcodeBurned
  BY <1>5, AfterIs, <1>1 DEF IInv, TypeOK, Modes, Named, Burned, Done, Before, Behind, Ending,
     Table, NoTable, BootcodeBurned, Flushed, FlushFails, WithBootcode, mem, store, board,
     past
<1>6. CASE FlowBurned
  BY <1>6, AfterIs, <1>1 DEF IInv, TypeOK, Modes, Named, Burned, Done, Before, Behind, Ending,
     Table, NoTable, FlowBurned, mem, store, board, past
<1>7. CASE DescBurned
  BY <1>7, AfterIs, <1>1 DEF IInv, TypeOK, Modes, Named, Burned, Done, Before, Behind, Ending,
     Table, NoTable, DescBurned, Lapse, mem, store, board, past
<1>8. CASE DescFails
  BY <1>8 DEF IInv, TypeOK, Modes, Named, Burned, Done, Before, Behind, Ending, Table,
     NoTable, DescFails, OnError, mem, store, board, past
<1>9. CASE InstallFactory
  BY <1>9 DEF IInv, TypeOK, Modes, Named, Burned, Done, Before, Behind, Ending, Table,
     NoTable, InstallFactory, FactoryWanted, OnlyMode, Flushed, FlushFails, Lapse, mem, store,
     board, past
<1>10. CASE Close
  BY <1>10 DEF IInv, TypeOK, Modes, Named, Burned, Done, Before, Behind, Ending, Table,
     NoTable, Close, mem, store, board, past
<1>11. CASE WriteTable
  BY <1>11 DEF IInv, TypeOK, Modes, Named, Burned, Done, Before, Behind, Ending, Table,
     NoTable, WriteTable, Flushed, FlushFails, Lapse, mem, store, board, past
<1>12. CASE RemoveLock
  BY <1>12 DEF IInv, TypeOK, Modes, Named, Burned, Done, Before, Behind, Ending, Table,
     NoTable, RemoveLock, Flushed, FlushFails, Lapse, mem, store, board, past
<1>13. CASE PingPong
  BY <1>13 DEF IInv, TypeOK, Modes, Named, Burned, Done, Before, Behind, Ending, Table,
     NoTable, PingPong, Flushed, FlushFails, Lapse, mem, store, board, past
<1>14. CASE Exit
  BY <1>14 DEF IInv, TypeOK, Modes, Named, Burned, Done, Before, Behind, Ending, Table,
     NoTable, Exit, LosePower, mem, store, board, past
<1>15. CASE PowerCut
  BY <1>15 DEF IInv, TypeOK, Modes, Named, Burned, Done, Before, Behind, Ending, Table,
     NoTable, PowerCut, LosePower, mem, store, board, past
<1>16. CASE    Setup \/ Gate \/ Sign \/ Repartition \/ SkipBootcode \/ BeginBootcode
            \/ BootcodeFails \/ BeginFlow \/ FlowFails \/ SkipKeys \/ KeysFail \/ BurnKeys
            \/ BurnSecureBits \/ BeginDesc \/ PostProcess \/ SkipFactory \/ Report
  BY <1>16, AfterIs, <1>1 DEF IInv, TypeOK, Modes, Named, Burned, Done, Before, Behind,
     Ending, Table, NoTable, Setup, Gate, Sign, Lapse, Repartition, OnError, SkipBootcode,
     WithBootcode, BeginBootcode, BootcodeFails, BeginFlow, FlowFails, SkipKeys, KeysWanted,
     KeysFail, BurnKeys, BurnSecureBits, BeginDesc, PostProcess, SkipFactory, FactoryWanted,
     OnlyMode, Report, mem, store, board, past
<1>17. CASE \E p \in Packages : Start(p)
  BY <1>17 DEF IInv, TypeOK, Modes, Named, Burned, Done, Before, Behind, Ending, Table,
     NoTable, Start, SameBoard, Earlier, EarlierTable, mem, store, board, past
<1>18. CASE UNCHANGED vars
  BY <1>18 DEF IInv, TypeOK, Modes, Named, Burned, Done, Before, Behind, Ending, Table,
     NoTable, vars, mem, store, board, past
<1> QED
  BY <1>2, <1>3, <1>4, <1>5, <1>6, <1>7, <1>8, <1>9, <1>10, <1>11, <1>12, <1>13, <1>14, <1>15,
     <1>16, <1>17, <1>18 DEF Next, Step

\* The table and the signature give up the earlier images before the first write
\* that damages them, or the failure to do so is on record.
LEMMA DisownedStep ==
  ASSUME IInv, [Next]_vars
  PROVE  Disowned'
<1>1. pkg.flash \in {"nand", "nor", "emmc"}
  BY InstallAssumption DEF IInv, TypeOK, Package
<1>2. CASE Layout
  BY <1>2 DEF IInv, TypeOK, Modes, Named, Disowned, Before, Behind, Table, NoTable, Layout,
     mem, store, board, past
<1>3. CASE WriteUnknown
  BY <1>3, AfterIs, <1>1 DEF IInv, TypeOK, Modes, Named, Disowned, Before, Behind, Table,
     NoTable, WriteUnknown, Flushed, FlushFails, Lapse, mem, store, board, past
<1>4. CASE Sign
  BY <1>4, AfterIs, <1>1 DEF IInv, TypeOK, Modes, Named, Disowned, Before, Behind, Table,
     NoTable, Sign, Lapse, mem, store, board, past
<1>5. CASE CheckMarker
  BY <1>5, AfterIs, <1>1 DEF IInv, TypeOK, Modes, Named, Disowned, Before, Behind, Table,
     NoTable, CheckMarker, Flushed, FlushFails, mem, store, board, past
<1>6. CASE Repartition
  BY <1>6, AfterIs, <1>1 DEF IInv, TypeOK, Modes, Named, Disowned, Before, Behind, Table,
     NoTable, Repartition, OnError, mem, store, board, past
<1>7. CASE BootcodeBurned
  BY <1>7, AfterIs, <1>1 DEF IInv, TypeOK, Modes, Named, Disowned, Before, Behind, Table,
     NoTable, BootcodeBurned, Flushed, FlushFails, WithBootcode, mem, store, board, past
<1>8. CASE BeginFlow
  BY <1>8 DEF IInv, TypeOK, Modes, Named, Disowned, Before, Behind, Table, NoTable, BeginFlow,
     mem, store, board, past
<1>9. CASE BeginDesc
  BY <1>9 DEF IInv, TypeOK, Modes, Named, Disowned, Before, Behind, Table, NoTable, BeginDesc,
     mem, store, board, past
<1>10. CASE DescBurned
  BY <1>10, AfterIs, <1>1 DEF IInv, TypeOK, Modes, Named, Disowned, Before, Behind, Table,
     NoTable, DescBurned, Lapse, mem, store, board, past
<1>11. CASE InstallFactory
  BY <1>11 DEF IInv, TypeOK, Modes, Named, Disowned, Before, Behind, Table, NoTable,
     InstallFactory, FactoryWanted, OnlyMode, Flushed, FlushFails, Lapse, mem, store, board,
     past
<1>12. CASE WriteTable
  BY <1>12 DEF IInv, TypeOK, Modes, Named, Disowned, Before, Behind, Table, NoTable,
     WriteTable, Flushed, FlushFails, Lapse, mem, store, board, past
<1>13. CASE RemoveLock
  BY <1>13 DEF IInv, TypeOK, Modes, Named, Disowned, Before, Behind, Table, NoTable,
     RemoveLock, Flushed, FlushFails, Lapse, mem, store, board, past
<1>14. CASE PingPong
  BY <1>14 DEF IInv, TypeOK, Modes, Named, Disowned, Before, Behind, Table, NoTable, PingPong,
     Flushed, FlushFails, Lapse, mem, store, board, past
<1>15. CASE Exit
  BY <1>15 DEF IInv, TypeOK, Modes, Named, Disowned, Before, Behind, Table, NoTable, Exit,
     LosePower, mem, store, board, past
<1>16. CASE PowerCut
  BY <1>16 DEF IInv, TypeOK, Modes, Named, Disowned, Before, Behind, Table, NoTable, PowerCut,
     LosePower, mem, store, board, past
<1>17. CASE    Setup \/ Gate \/ SkipBootcode \/ BeginBootcode \/ BootcodeFails \/ FlowBurned
            \/ FlowFails \/ SkipKeys \/ KeysFail \/ BurnKeys \/ BurnSecureBits \/ DescFails
            \/ PostProcess \/ SkipFactory \/ Close \/ Report
  BY <1>17, AfterIs, <1>1 DEF IInv, TypeOK, Modes, Named, Disowned, Before, Behind, Table,
     NoTable, Setup, Gate, SkipBootcode, WithBootcode, BeginBootcode, BootcodeFails, OnError,
     FlowBurned, FlowFails, SkipKeys, KeysWanted, KeysFail, BurnKeys, BurnSecureBits, Lapse,
     DescFails, PostProcess, SkipFactory, FactoryWanted, OnlyMode, Close, Report, mem, store,
     board, past
<1>18. CASE \E p \in Packages : Start(p)
  BY <1>18 DEF IInv, TypeOK, Modes, Named, Disowned, Before, Behind, Table, NoTable, Start, SameBoard,
     Earlier, EarlierTable, mem, store, board, past
<1>19. CASE UNCHANGED vars
  BY <1>19 DEF IInv, TypeOK, Modes, Named, Disowned, Before, Behind, Table, NoTable, vars,
     mem, store, board, past
<1> QED
  BY <1>2, <1>3, <1>4, <1>5, <1>6, <1>7, <1>8, <1>9, <1>10, <1>11, <1>12, <1>13, <1>14, <1>15,
     <1>16, <1>17, <1>18, <1>19 DEF Next, Step

\* The fuses change only when the images are whole; a later run finds them so.
LEMMA RepeatableStep ==
  ASSUME IInv, [Next]_vars
  PROVE  Repeatable'
<1>1. pkg.flash \in {"nand", "nor", "emmc"}
  BY InstallAssumption DEF IInv, TypeOK, Package
<1>2. CASE Gate
  BY <1>2 DEF IInv, TypeOK, Modes, Fused, Burned, Done, Repeatable, Refused, Before, Behind,
     Ending, Gate, mem, store, board, past
<1>3. CASE Layout
  BY <1>3 DEF IInv, TypeOK, Modes, Fused, Burned, Done, Repeatable, Refused, Before, Behind,
     Ending, Layout, mem, store, board, past
<1>4. CASE Setup
  BY <1>4 DEF IInv, TypeOK, Modes, Fused, Burned, Done, Repeatable, Refused, Before, Behind,
     Ending, Setup, mem, store, board, past
<1>5. CASE InstallFactory
  BY <1>5 DEF IInv, TypeOK, Modes, Fused, Burned, Done, Repeatable, Refused, Before, Behind,
     Ending, InstallFactory, FactoryWanted, OnlyMode, Flushed, FlushFails, Lapse, mem, store,
     board, past
<1>6. CASE WriteTable
  BY <1>6 DEF IInv, TypeOK, Modes, Fused, Burned, Done, Repeatable, Refused, Before, Behind,
     Ending, WriteTable, Flushed, FlushFails, Lapse, mem, store, board, past
<1>7. CASE RemoveLock
  BY <1>7 DEF IInv, TypeOK, Modes, Fused, Burned, Done, Repeatable, Refused, Before, Behind,
     Ending, RemoveLock, Flushed, FlushFails, Lapse, mem, store, board, past
<1>8. CASE PingPong
  BY <1>8 DEF IInv, TypeOK, Modes, Fused, Burned, Done, Repeatable, Refused, Before, Behind,
     Ending, PingPong, Flushed, FlushFails, Lapse, mem, store, board, past
<1>9. CASE Report
  BY <1>9 DEF IInv, TypeOK, Modes, Fused, Burned, Done, Repeatable, Refused, Before, Behind,
     Ending, Report, mem, store, board, past
<1>10. CASE Repartition
  BY <1>10, AfterIs, <1>1 DEF IInv, TypeOK, Modes, Fused, Burned, Done, Repeatable, Refused,
     Before, Behind, Ending, Repartition, OnError, mem, store, board, past
<1>11. CASE BeginFlow
  BY <1>11 DEF IInv, TypeOK, Modes, Fused, Burned, Done, Repeatable, Refused, Before, Behind,
     Ending, BeginFlow, mem, store, board, past
<1>12. CASE FlowBurned
  BY <1>12, AfterIs, <1>1 DEF IInv, TypeOK, Modes, Fused, Burned, Done, Repeatable, Refused,
     Before, Behind, Ending, FlowBurned, mem, store, board, past
<1>13. CASE BurnKeys
  BY <1>13, AfterIs, <1>1 DEF IInv, TypeOK, Modes, Fused, Burned, Done, Repeatable, Refused,
     Before, Behind, Ending, BurnKeys, KeysWanted, mem, store, board, past
<1>14. CASE BurnSecureBits
  BY <1>14, AfterIs, <1>1 DEF IInv, TypeOK, Modes, Fused, Burned, Done, Repeatable, Refused,
     Before, Behind, Ending, BurnSecureBits, mem, store, board, past
<1>15. CASE WriteUnknown \/ Sign \/ CheckMarker \/ SkipBootcode \/ BeginBootcode \/
          BootcodeBurned \/ BootcodeFails \/ FlowFails \/ SkipKeys \/ KeysFail \/ BeginDesc \/
          DescBurned \/ DescFails \/ PostProcess \/ SkipFactory \/ Close \/ Exit \/ PowerCut
  BY <1>15, AfterIs, <1>1 DEF IInv, TypeOK, Modes, Fused, Burned, Done, Repeatable, Refused,
     Before, Behind, Ending, WriteUnknown, Flushed, FlushFails, Lapse, Sign, CheckMarker,
     SkipBootcode, WithBootcode, BeginBootcode, BootcodeBurned, BootcodeFails, OnError,
     FlowFails, SkipKeys, KeysWanted, KeysFail, BeginDesc, DescBurned, DescFails, PostProcess,
     SkipFactory, FactoryWanted, OnlyMode, Close, Exit, LosePower, PowerCut, mem, store,
     board, past
<1>16. CASE \E p \in Packages : Start(p)
  BY <1>16, ZenonT(40) DEF IInv, TypeOK, Modes, Fused, Burned, Done, Repeatable, Refused, Before, Behind,
     Ending, Start, Earlier, EarlierTable, mem, store, board, past
<1>17. CASE UNCHANGED vars
  BY <1>17 DEF IInv, TypeOK, Modes, Fused, Burned, Done, Repeatable, Refused, Before, Behind,
     Ending, vars, mem, store, board, past
<1> QED
  BY <1>2, <1>3, <1>4, <1>5, <1>6, <1>7, <1>8, <1>9, <1>10, <1>11, <1>12, <1>13, <1>14, <1>15,
     <1>16, <1>17 DEF Next, Step

\* The flushes behind the report leave nothing to a power cut.
LEMMA SyncedStep ==
  ASSUME IInv, [Next]_vars
  PROVE  Synced'
<1>1. pkg.flash \in {"nand", "nor", "emmc"}
  BY InstallAssumption DEF IInv, TypeOK, Package
<1>2. CASE Gate
  BY <1>2 DEF IInv, TypeOK, Modes, Synced, Gate, mem, store, board, past
<1>3. CASE WriteTable
  BY <1>3 DEF IInv, TypeOK, Modes, Synced, WriteTable, Flushed, FlushFails, Lapse, mem, store,
     board, past
<1>4. CASE RemoveLock
  BY <1>4 DEF IInv, TypeOK, Modes, Synced, RemoveLock, Flushed, FlushFails, Lapse, mem, store,
     board, past
<1>5. CASE PingPong
  BY <1>5 DEF IInv, TypeOK, Modes, Synced, PingPong, Flushed, FlushFails, Lapse, mem, store,
     board, past
<1>6. CASE InstallFactory
  BY <1>6 DEF IInv, TypeOK, Modes, Synced, InstallFactory, FactoryWanted, OnlyMode, Flushed,
     FlushFails, Lapse, mem, store, board, past
<1>7. CASE    Setup \/ Layout \/ WriteUnknown \/ Sign \/ CheckMarker \/ Repartition
           \/ SkipBootcode \/ BeginBootcode \/ BootcodeBurned \/ BootcodeFails \/ BeginFlow
           \/ FlowBurned \/ FlowFails \/ SkipKeys \/ KeysFail \/ BurnKeys \/ BurnSecureBits
           \/ BeginDesc \/ DescBurned \/ DescFails \/ PostProcess \/ SkipFactory \/ Close
           \/ Report \/ Exit \/ PowerCut
  BY <1>7, AfterIs, <1>1 DEF IInv, TypeOK, Modes, Synced, Setup, Layout, WriteUnknown,
     Flushed, FlushFails, Lapse, Sign, CheckMarker, Repartition, OnError, SkipBootcode,
     WithBootcode, BeginBootcode, BootcodeBurned, BootcodeFails, BeginFlow, FlowBurned,
     FlowFails, SkipKeys, KeysWanted, KeysFail, BurnKeys, BurnSecureBits, BeginDesc,
     DescBurned, DescFails, PostProcess, SkipFactory, FactoryWanted, OnlyMode, Close, Report,
     Exit, LosePower, PowerCut, mem, store, board, past
<1>8. CASE \E p \in Packages : Start(p)
  BY <1>8 DEF IInv, TypeOK, Modes, Synced, Start, Earlier, EarlierTable, mem, store, board,
     past
<1>9. CASE UNCHANGED vars
  BY <1>9 DEF IInv, TypeOK, Modes, Synced, vars, mem, store, board, past
<1> QED
  BY <1>2, <1>3, <1>4, <1>5, <1>6, <1>7, <1>8, <1>9 DEF Next, Step

\* The initial states satisfy the invariant.
LEMMA InitInv ==
  ASSUME Init
  PROVE  IInv
<1>1. pkg \in Packages
  <2>1. PICK q \in Packages : pkg = CHOOSE p \in Packages : SameBoard(p, q)
    BY DEF Init, Boards
  <2>2. \E p \in Packages : SameBoard(p, q)
    BY <2>1 DEF SameBoard
  <2> QED
    BY <2>1, <2>2
<1>2. MaxRuns \in Nat
  BY InstallAssumption
<1>3. /\ table \in [says : {"old"}, part : {pkg.flash = "nor", FALSE}] /\ tables = {table}
      /\ pc = "off" /\ ret = 0 /\ bootcode = FALSE /\ mtable = NoTable /\ bak = NoTable
      /\ desc = "old" /\ descs = {desc} /\ old = "whole" /\ new = "absent" /\ boot = "old"
      /\ rom = "whole" /\ ui = "none" /\ lapses = {} /\ passed = FALSE /\ runs = 0
  BY DEF Init
<1>4. table \in Table /\ table.says = "old" /\ (pkg.flash # "nor" => ~table.part)
  BY <1>3 DEF Table
<1>5. fuses \in [key : BOOLEAN, secure : BOOLEAN]
  BY DEF Init
<1>6. TypeOK
  <2>1. runs \in 0..MaxRuns /\ ret \in {0, -1}
    BY <1>2, <1>3
  <2>2. mtable \in Table /\ bak \in Table /\ tables \subseteq Table /\ table \in tables
    BY <1>3, <1>4, Tables
  <2>3. bootcode \in BOOLEAN /\ passed \in BOOLEAN
    BY <1>3
  <2>4. /\ pc \in Pcs /\ desc \in Descs /\ descs \subseteq Descs /\ desc \in descs
        /\ old \in {"whole", "damaged"} /\ new \in {"absent", "part", "whole"}
        /\ boot \in {"old", "torn", "new"} /\ rom \in {"whole", "signed"} /\ ui \in {"none", "running", "success", "fail"}
    BY <1>3 DEF Pcs, Descs
  <2>5. lapses \subseteq {"table", "sign", "desc", "fuse", "lock", "pingpong", "restored", "lost"}
    BY <1>3
  <2> QED
    BY <1>1, <1>4, <1>5, <2>1, <2>2, <2>3, <2>4, <2>5 DEF TypeOK
<1>7. Modes /\ Screen /\ Fused /\ Burned /\ Repeatable /\ Synced
  BY <1>3 DEF Modes, Screen, UiToldTheResult, Fused, Burned, Done, Repeatable, Synced,
     Before, Behind, Ending
<1>8. Named /\ Disowned
  BY <1>3, <1>4 DEF Named, Disowned, Before, NoTable
<1> QED
  BY <1>6, <1>7, <1>8 DEF IInv

LEMMA TypeStep ==
  ASSUME IInv, [Next]_vars
  PROVE  TypeOK'
BY StoreStep, MemStep, BoardStep, RunStep, LapseStep
   DEF TypeOK, StoreType, MemType, BoardType, RunType, Lapses

LEMMA InvAlways == Spec => []IInv
<1>1. Init => IInv
  BY InitInv
<1>2. IInv /\ [Next]_vars => IInv'
  BY TypeStep, ModesStep, ScreenStep, FusedStep, BurnedStep, NamedStep, DisownedStep,
     RepeatableStep, SyncedStep DEF IInv
<1> QED
  BY <1>1, <1>2, PTL DEF Spec

-----------------------------------------------------------------------------
\* Every state of the driver and of the flash is of its type.
THEOREM TypeCorrect == Spec => []TypeOK
<1>1. IInv => TypeOK
  BY DEF IInv
<1> QED
  BY <1>1, InvAlways, PTL

\* main (install_a.cpp) reports success only when every part of a whole
\* installation was burned.
THEOREM SuccessIsCompleteAlways == Spec => []SuccessIsComplete
<1>1. IInv => SuccessIsComplete
  BY DEF IInv, Burned, Done, Ending, SuccessIsComplete, Succeeded
<1> QED
  BY <1>1, InvAlways, PTL

\* modify_signature and rtk_burn_fwdesc: a descriptor whose signature is valid
\* lists whole images, after any number of failed or interrupted runs.
THEOREM DescTellsImagesAlways == Spec => []DescTellsImages
<1>1. IInv => DescTellsImages
  BY DEF IInv, Named, Disowned, DescTellsImages
<1> QED
  BY <1>1, InvAlways, PTL

\* The same of the boot table, layout.txt, and of all that a power cut may leave.
THEOREM TableTellsImagesAlways == Spec => []TableTellsImages
<1>1. IInv => TableTellsImages
  BY DEF IInv, Named, Disowned, TableTellsImages
<1> QED
  BY <1>1, InvAlways, PTL

\* The check of the package against the fuses never refuses one that it has let
\* pass before, unless its images are in the flash.
THEOREM RefusedOnlyWhenWholeAlways == Spec => []RefusedOnlyWhenWhole
<1>1. IInv => RefusedOnlyWhenWhole
  <2> SUFFICES ASSUME IInv, pc = "gate", passed, Refused(pkg)
               PROVE  old = "whole"
    BY DEF RefusedOnlyWhenWhole
  <2>1. new = "absent"
    BY DEF IInv, Repeatable
  <2> QED
    BY <2>1 DEF IInv, Repeatable
<1> QED
  BY <1>1, InvAlways, PTL

\* After a success the fuses demand signed images only when they are signed, and do so
\* when they are signed unless a burn of the fuses has failed.
THEOREM FusesMatchImagesAlways == Spec => []FusesMatchImages
<1>1. IInv => FusesMatchImages
  BY DEF IInv, Fused, Done, Ending, FusesMatchImages, Succeeded
<1> QED
  BY <1>1, InvAlways, PTL

\* burn_end_usb tells the progress screen what main sees.
THEOREM UiToldTheResultAlways == Spec => []UiToldTheResult
<1>1. IInv => UiToldTheResult
  BY DEF IInv, Screen
<1> QED
  BY <1>1, InvAlways, PTL

\* The reboot of main, without a sync, finds the new table and descriptor when
\* factory files were installed and no call has failed.
THEOREM SuccessSurvivesRebootAlways == Spec => []SuccessSurvivesReboot
<1>1. IInv => SuccessSurvivesReboot
  BY DEF IInv, Synced, Burned, Done, Ending, SuccessSurvivesReboot, Succeeded
<1> QED
  BY <1>1, InvAlways, PTL

=============================================================================
