------------------------------ MODULE EmmcMbr ------------------------------
(***************************************************************************)
(* The partition tables of an eMMC: write_boottable_emmc                   *)
(* (rtk_boottable.cpp) builds a chain of tables in memory, one partition   *)
(* of the configuration after the other, and rtk_set_mbr (rtk_mtd.cpp)     *)
(* writes them one by one.  The first three partitions are primary; when   *)
(* there are more than four, the fourth entry holds an extended partition  *)
(* with one further table for each of the others.  The state and the steps *)
(* are here; module Layout says when they are taken.                       *)
(***************************************************************************)
EXTENDS Integers

CONSTANTS
  Sectors,   (* The sectors of the largest eMMC.                            *)
  Reserve    (* MBR_RESERVE_SIZE in sectors: the room before a partition.   *)

ASSUME MbrAssumption == Sectors \in Nat \ {0} /\ Reserve \in Nat \ {0}

VARIABLES
  mbr,     (* mbr[8], the tables in memory.                                 *)
  at,      (* table_index, partition_index, partition_count, acc_sectors and   *)
           (* parted_sectors, which is the sum of the partitions here.      *)
  chain    (* The table each sector of the eMMC holds.                      *)

mbrVars == <<mbr, at, chain>>

NoEntry == [id |-> "none", start |-> 0, num |-> 0]
NoTable == [p \in 0..3 |-> NoEntry]

NoTables == [t \in 0..7 |-> NoTable]
Origin == [table |-> 0, part |-> 0, count |-> 1, acc |-> 0, parted |-> 0]

MbrInit ==
  /\ mbr = NoTables /\ at = Origin
  /\ chain = [s \in 0..Sectors - 1 |-> NoTable]

\* The tables in memory end with the program.
MbrForgotten == mbr' = NoTables /\ at' = Origin

\* One turn of the loop that adds up the partitions.
AddRoom(sectors) == at' = [at EXCEPT !.parted = @ + sectors] /\ UNCHANGED <<mbr, chain>>

\* kernel_sectors: what the partitions leave for the firmware.
Kernel(all) == all - at.parted

\* An empty set of tables, whose first partition begins behind the firmware.
Fresh(all) ==
  /\ mbr' = [NoTables EXCEPT ![0][0].start = Kernel(all)]
  /\ UNCHANGED <<at, chain>>

\* Whether partition number n of total is reached through a table of its own.
Logical(n, total) == n >= 4 /\ total > 4

\* An extended partition: the first takes all that is left, a later one the room of
\* the partition it leads to.  It opens a new table.
Extended(tables, sectors, total, all) ==
  IF Logical(at.count, total)
  THEN [tables EXCEPT ![at.table][at.part].id = "extended",
                      ![at.table][at.part].num =
                         IF at.count = 4 THEN all - at.acc - Kernel(all) ELSE sectors,
                      ![at.table + 1][0].start = Reserve]
  ELSE tables

\* The entry of the partition itself.
Entry(tables, t, p, sectors) ==
  [tables EXCEPT ![t][p].id = "linux", ![t][p].num = sectors - Reserve]

\* Mutant of NextStart: in every extended partition the next table follows the entry.
NextStartAfterEntry(tables, t, p, sectors) == tables[t][p].start + tables[t][p].num

\* Where the next partition begins, or the next table.
NextStart(tables, t, p, sectors) ==
  CASE t > 1 -> sectors + tables[t - 1][1].start
    [] t = 1 -> tables[1][0].start + tables[1][0].num
    [] OTHER -> tables[t][p].start + sectors

Linked(tables, t, p, sectors, total) ==
  IF at.count < total
  THEN [tables EXCEPT ![t][p + 1].start = NextStart(tables, t, p, sectors)]
  ELSE tables

\* One turn of the loop over rtk_part_list_sort.
AddEntry(sectors, total, all) ==
  LET logical == Logical(at.count, total)
      t == IF logical THEN at.table + 1 ELSE at.table
      p == IF logical THEN 0 ELSE at.part
  IN /\ mbr' = Linked(Entry(Extended(mbr, sectors, total, all), t, p, sectors),
                      t, p, sectors, total)
     /\ at' = [at EXCEPT !.table = t, !.part = p + 1, !.count = @ + 1, !.acc = @ + sectors]
     /\ UNCHANGED chain

\* The sector that table t goes to.
Place(t) ==
  CASE t = 0 -> 0
    [] t = 1 -> mbr[0][3].start
    [] OTHER -> mbr[t - 1][1].start + mbr[0][3].start

\* rtk_set_mbr: writes one table, and has the kernel read the tables again.
SetMbr(t) == chain' = [chain EXCEPT ![Place(t)] = mbr[t]] /\ UNCHANGED <<mbr, at>>

\* The number of the device rtk_mount_format_emmc mounts for partition n: mount_dev.
MountDev(n, total) == IF Logical(n, total) THEN n + 1 ELSE n

\* How Linux reads the tables: each further one lies where the one before says, from
\* the start of the extended partition.
TableAt[k \in 1..7] ==
  IF k = 1 THEN chain[0][3].start ELSE chain[0][3].start + chain[TableAt[k - 1]][1].start

\* The device of a number, as [id, start, num].
Device(n) ==
  IF n <= 4 THEN chain[0][n - 1]
  ELSE [chain[TableAt[n - 4]][0] EXCEPT !.start = @ + TableAt[n - 4]]

\* A file system is made on a device: what its sectors held is gone.
Format(dev) ==
  /\ chain' = [s \in DOMAIN chain |->
                 IF s \in dev.start..dev.start + dev.num - 1 THEN NoTable ELSE chain[s]]
  /\ UNCHANGED <<mbr, at>>
=============================================================================
