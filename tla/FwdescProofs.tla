---------------------------- MODULE FwdescProofs ----------------------------
(* Theorems about Fwdesc, for any packages, any number of installations and  *)
(* any number of writes that fail.                                           *)
EXTENDS Fwdesc, SequenceTheorems, TLAPS

-----------------------------------------------------------------------------
(* The descriptor in memory.                                                 *)

LEMMA FirmwareIs ==
  /\ Firmware = {"kernel", "rescue_dt", "kernel_dt", "rescue_rootfs", "kernel_rootfs",
                 "audio", "audio_file", "image_file", "video_file"}
  /\ FixedList \in Seq(Firmware) /\ Len(FixedList) = 6
<1>1. Range(FixedList) = {"kernel", "rescue_dt", "kernel_dt", "rescue_rootfs", "kernel_rootfs", "audio"}
  BY DEF Range, FixedList
<1>2. Firmware = {"kernel", "rescue_dt", "kernel_dt", "rescue_rootfs", "kernel_rootfs",
                  "audio", "audio_file", "image_file", "video_file"}
  BY <1>1 DEF Firmware, Bootfiles
<1>3. FixedList \in Seq(Firmware) /\ Len(FixedList) = 6
  BY <1>2 DEF FixedList
<1>4. QED BY <1>2, <1>3

LEMMA AtMostOneMore ==
  ASSUME NEW S, NEW s \in Seq(S), NEW t \in Seq(S), Len(t) \in 0..1
  PROVE  s \o t \in Seq(S) /\ (Len(s \o t) = Len(s) \/ Len(s \o t) = Len(s) + 1)
<1> DEFINE a == Len(s)
           b == Len(t)
           c == Len(s \o t)
<1>1. a \in Nat /\ b \in 0..1 /\ c = a + b /\ s \o t \in Seq(S)
  BY ConcatProperties
<1> HIDE DEF a, b, c
<1>2. c = a \/ c = a + 1
  BY <1>1
<1>3. QED BY <1>1, <1>2 DEF a, c

\* u is s followed by t, which have m and n members.
Joins(u, s, m, t, n) ==
  /\ Len(u) = m + n
  /\ \A i \in 1..m : u[i] = s[i]
  /\ \A i \in 1..n : u[m + i] = t[i]

LEMMA ConcatIs ==
  ASSUME NEW S, NEW s \in Seq(S), NEW t \in Seq(S)
  PROVE  s \o t \in Seq(S) /\ Joins(s \o t, s, Len(s), t, Len(t))
<1> DEFINE m == Len(s)
           n == Len(t)
<1>1. m \in Nat /\ n \in Nat
  OBVIOUS
<1>2. /\ s \o t \in Seq(S) /\ Len(s \o t) = m + n
      /\ \A i \in 1..(m + n) : (s \o t)[i] = IF i <= m THEN s[i] ELSE t[i - m]
  BY ConcatProperties
<1> HIDE DEF m, n
<1>3. ASSUME NEW i \in 1..n
      PROVE  (s \o t)[m + i] = t[i]
  <2>1. m + i \in 1..(m + n) /\ ~(m + i <= m) /\ (m + i) - m = i
    BY <1>1
  <2>2. QED BY <1>2, <2>1
<1>4. ASSUME NEW i \in 1..m
      PROVE  (s \o t)[i] = s[i]
  <2>1. i \in 1..(m + n) /\ i <= m
    BY <1>1
  <2>2. QED BY <1>2, <2>1
<1>5. Joins(s \o t, s, m, t, n)
  BY <1>2, <1>3, <1>4 DEF Joins
<1>6. QED BY <1>2, <1>5 DEF m, n

LEMMA IfThereIs ==
  ASSUME NEW s, NEW x \in Firmware
  PROVE  IfThere(s, x) \in Seq(Firmware) /\ Len(IfThere(s, x)) \in 0..1
BY DEF IfThere

LEMMA ListedIs ==
  ASSUME NEW s
  PROVE  Listed(s) \in Seq(Firmware) /\ Len(Listed(s)) \in 6..9
<1>1. FixedList \in Seq(Firmware) /\ Len(FixedList) = 6
  BY FirmwareIs
<1>2. \A x \in {"audio_file", "image_file", "video_file"} :
        IfThere(s, x) \in Seq(Firmware) /\ Len(IfThere(s, x)) \in 0..1
  BY FirmwareIs, IfThereIs
<1> DEFINE one == FixedList \o IfThere(s, "audio_file")
           two == one \o IfThere(s, "image_file")
           a == Len(one)
           b == Len(two)
           c == Len(Listed(s))
<1>3. one \in Seq(Firmware) /\ (a = 6 \/ a = 7)
  <2>1. one \in Seq(Firmware) /\ (a = Len(FixedList) \/ a = Len(FixedList) + 1)
    BY <1>1, <1>2, AtMostOneMore
  <2>2. QED BY <1>1, <2>1
<1> HIDE DEF one
<1>4. two \in Seq(Firmware) /\ (b = a \/ b = a + 1)
  BY <1>2, <1>3, AtMostOneMore
<1> HIDE DEF two
<1>5. Listed(s) \in Seq(Firmware) /\ (c = b \/ c = b + 1)
  BY <1>2, <1>4, AtMostOneMore DEF Listed, two, one
<1> HIDE DEF a, b, c
<1>6. c \in 6..9
  BY <1>3, <1>4, <1>5
<1>7. QED BY <1>5, <1>6 DEF c

\* The entries of the firmware, and all of them.
Fws(s)  == Len(Listed(s))
Size(s) == Partitions(s) + Fws(s)

LEMMA SizeIs ==
  ASSUME NEW s \in Systems
  PROVE  Partitions(s) \in 1..15 /\ Fws(s) \in 6..9 /\ Size(s) \in 7..24 /\ Size(s) = Partitions(s) + Fws(s)
<1>1. Partitions(s) \in 1..15
  BY FwdescAssumption DEF Partitions
<1>2. Fws(s) \in 6..9
  BY ListedIs DEF Fws
<1>3. QED BY <1>1, <1>2 DEF Size

LEMMA EntryLists ==
  ASSUME NEW s \in Systems, NEW n \in 0..MaxRuns
  PROVE  /\ PartEntries(s, n) \in Seq(Entry) /\ Len(PartEntries(s, n)) = Partitions(s)
         /\ FwEntries(s, n) \in Seq(Entry) /\ Len(FwEntries(s, n)) = Fws(s)
         /\ \A i \in 1..Partitions(s) : PartEntries(s, n)[i].kind = "part" /\ PartEntries(s, n)[i].of = n
<1>1. Partitions(s) \in 1..15 /\ Fws(s) \in 6..9 /\ Size(s) = Partitions(s) + Fws(s) /\ Size(s) \in 7..24
  BY SizeIs
<1>2. \A i \in 1..Fws(s) : Listed(s)[i] \in Firmware
  BY ListedIs DEF Fws
<1>3. \A i \in 1..Partitions(s) : PartEntries(s, n)[i] \in Entry
  <2> SUFFICES ASSUME NEW i \in 1..Partitions(s) PROVE PartEntries(s, n)[i] \in Entry
    OBVIOUS
  <2>1. i - 1 \in 0..14 /\ Fws(s) \in 1..9
    BY <1>1
  <2>2. PartEntries(s, n)[i] = PartEntry(i - 1, IF i = 1 THEN Fws(s) ELSE 1, n)
    BY DEF PartEntries, Fws
  <2>3. QED BY <2>1, <2>2 DEF PartEntry, Entry
<1>4. \A i \in 1..Fws(s) : FwEntries(s, n)[i] \in Entry
  BY <1>1, <1>2 DEF FwEntries, FwEntry, Entry, Fws
<1>5. PartEntries(s, n) \in Seq(Entry) /\ Len(PartEntries(s, n)) = Partitions(s)
  <2>1. PartEntries(s, n) = [i \in 1..Partitions(s) |-> PartEntries(s, n)[i]] /\ Partitions(s) \in Nat
    BY <1>1 DEF PartEntries
  <2>2. PartEntries(s, n) \in [1..Partitions(s) -> Entry]
    BY <1>3, <2>1
  <2>3. QED BY <2>1, <2>2
<1>6. FwEntries(s, n) \in Seq(Entry) /\ Len(FwEntries(s, n)) = Fws(s)
  <2>1. FwEntries(s, n) = [i \in 1..Fws(s) |-> FwEntries(s, n)[i]] /\ Fws(s) \in Nat
    BY <1>1 DEF FwEntries, Fws
  <2>2. FwEntries(s, n) \in [1..Fws(s) -> Entry]
    BY <1>4, <2>1
  <2>3. QED BY <2>1, <2>2
<1>7. \A i \in 1..Partitions(s) : PartEntries(s, n)[i].kind = "part" /\ PartEntries(s, n)[i].of = n
  BY DEF PartEntries, PartEntry
<1>8. QED BY <1>5, <1>6, <1>7

\* All that is promised is of the installation, and the firmware that is needed is there.
LEMMA PromisedIs ==
  ASSUME NEW s \in Systems, NEW n \in 0..MaxRuns
  PROVE  /\ Promised(s, n) \in Seq(Entry) /\ Len(Promised(s, n)) = Size(s)
         /\ Promised(s, n)[1].of = n
         /\ \A i \in DOMAIN Promised(s, n) :
              Promised(s, n)[i].kind = "fw" /\ Required \subseteq s.firmware /\ Promised(s, n)[i].name \in Required
              => Promised(s, n)[i].there
<1> DEFINE P == PartEntries(s, n)
           F == FwEntries(s, n)
<1>1. Partitions(s) \in 1..15 /\ Fws(s) \in 6..9 /\ Size(s) = Partitions(s) + Fws(s) /\ Size(s) \in 7..24
  BY SizeIs
<1>2. P \in Seq(Entry) /\ Len(P) = Partitions(s) /\ F \in Seq(Entry) /\ Len(F) = Fws(s)
      /\ \A i \in 1..Partitions(s) : P[i].kind = "part" /\ P[i].of = n
  BY EntryLists
<1>3. \A i \in 1..Fws(s) : F[i].there = (F[i].name \in s.firmware)
  BY DEF FwEntries, FwEntry, Fws
<1> HIDE DEF P, F
<1>4. /\ P \o F \in Seq(Entry) /\ Len(P \o F) = Size(s)
      /\ \A i \in 1..Partitions(s) : (P \o F)[i] = P[i]
      /\ \A i \in 1..Fws(s) : (P \o F)[Partitions(s) + i] = F[i]
  <2>1. Partitions(s) \in Nat /\ Fws(s) \in Nat /\ Size(s) \in Nat /\ Size(s) = Partitions(s) + Fws(s)
    BY <1>1
  <2>2. P \o F \in Seq(Entry) /\ Joins(P \o F, P, Len(P), F, Len(F))
    BY <1>2, ConcatIs
  <2>3. Joins(P \o F, P, Partitions(s), F, Fws(s))
    BY <1>2, <2>2
  <2>4. QED BY <2>1, <2>2, <2>3 DEF Joins
<1>5. (P \o F)[1].of = n
  BY <1>1, <1>2, <1>4, SMTT(20)
<1>6. ASSUME NEW i, i \in DOMAIN (P \o F), (P \o F)[i].kind = "fw", Required \subseteq s.firmware,
             (P \o F)[i].name \in Required
      PROVE  (P \o F)[i].there
  <2>1. i \in 1..Size(s)
    BY <1>6, <1>4, <1>1
  <2>2. CASE i <= Partitions(s)
    <3>1. (P \o F)[i] = P[i] /\ i \in 1..Partitions(s)
      BY <2>1, <2>2, <1>1, <1>4
    <3>2. (P \o F)[i].kind = "part"
      BY <3>1, <1>2
    <3>3. QED BY <3>2, <1>6
  <2>3. CASE ~(i <= Partitions(s))
    <3> DEFINE j == i - Partitions(s)
    <3>0. j \in 1..Fws(s) /\ Partitions(s) + j = i
      BY <2>1, <2>3, <1>1
    <3> HIDE DEF j
    <3>1. (P \o F)[i] = F[j] /\ j \in 1..Fws(s)
      BY <3>0, <1>4
    <3>2. (P \o F)[i].there = ((P \o F)[i].name \in s.firmware)
      BY <3>1, <1>3
    <3>3. QED BY <3>2, <1>6
  <2>4. QED BY <2>2, <2>3
<1>7. QED BY <1>4, <1>5, <1>6 DEF Promised, P, F

LEMMA EntriesIs ==
  ASSUME NEW s \in Systems, NEW n \in 0..MaxRuns
  PROVE  /\ Entries(s, n) \in Seq(Entry) /\ Len(Entries(s, n)) = Size(s)
         /\ Entries(s, n)[1].of = n
         /\ Partitions(s) <= PartSlots => Entries(s, n) = Promised(s, n)
<1>1. Partitions(s) \in 1..15 /\ Fws(s) \in 6..9 /\ Size(s) = Partitions(s) + Fws(s) /\ Size(s) \in 7..24
  BY SizeIs
<1>2. Promised(s, n) \in Seq(Entry) /\ Len(Promised(s, n)) = Size(s) /\ Promised(s, n)[1].of = n
  BY PromisedIs
<1>3. CASE Partitions(s) <= PartSlots
  BY <1>2, <1>3 DEF Entries
<1>4. CASE ~(Partitions(s) <= PartSlots)
  <2> DEFINE e == PartEntries(s, n)[PartSlots + 1]
             k == Partitions(s) + 1
  <2>0. PartSlots + 1 \in 1..Partitions(s) /\ k \in 1..Size(s) /\ k # 1 /\ 1 \in 1..Size(s)
    BY <1>1, <1>4 DEF PartSlots
  <2>1. PartSlots + 1 \in 1..Partitions(s) /\ k \in 1..Len(Promised(s, n)) /\ k # 1 /\ 1 \in 1..Len(Promised(s, n))
    BY <2>0, <1>2
  <2>2. e \in Entry
    BY <2>1, EntryLists
  <2>3. Entries(s, n) = [Promised(s, n) EXCEPT ![k] = e]
    BY <1>4 DEF Entries
  <2> HIDE DEF e, k
  <2>4. /\ Entries(s, n) \in Seq(Entry) /\ Len(Entries(s, n)) = Len(Promised(s, n))
        /\ \A j \in 1..Len(Promised(s, n)) : Entries(s, n)[j] = IF j = k THEN e ELSE Promised(s, n)[j]
    BY <1>2, <2>1, <2>2, <2>3, ExceptSeq
  <2>5. Entries(s, n)[1] = Promised(s, n)[1]
    BY <2>1, <2>4
  <2>6. QED BY <1>2, <1>4, <2>4, <2>5
<1>5. QED BY <1>3, <1>4

LEMMA HeaderIs ==
  ASSUME NEW s \in Systems, NEW n \in 0..MaxRuns
  PROVE  Header(s, Entries(s, n)) \in HeadCell
<1>1. Partitions(s) \in 1..15 /\ Fws(s) \in 6..9 /\ Size(s) = Partitions(s) + Fws(s) /\ Size(s) \in 7..24 /\ Entries(s, n) \in Seq(Entry)
  BY SizeIs, EntriesIs
<1>2. QED BY <1>1 DEF Header, HeadCell, Fws

LEMMA NoEntryIsHead == \A e \in Entry : e.kind # "head" /\ e \in Cell
BY DEF Entry, Cell

\* The descriptor is a header and its entries.
LEMMA BuiltIs ==
  ASSUME NEW s \in Systems, NEW n \in 0..MaxRuns
  PROVE  /\ Built(s, n) \in Seq(Cell) /\ Len(Built(s, n)) = Size(s) + 1
         /\ Built(s, n)[1] = Header(s, Entries(s, n))
         /\ \A i \in 1..Size(s) : Built(s, n)[i + 1] = Entries(s, n)[i]
         /\ \A i \in 2..Len(Built(s, n)) : Built(s, n)[i].kind # "head"
<1> DEFINE H == <<Header(s, Entries(s, n))>>
           E == Entries(s, n)
<1>1. Partitions(s) \in 1..15 /\ Fws(s) \in 6..9 /\ Size(s) = Partitions(s) + Fws(s) /\ Size(s) \in 7..24
  BY SizeIs
<1>2. E \in Seq(Entry) /\ Len(E) = Size(s)
  BY EntriesIs
<1>3. E \in Seq(Cell)
  BY <1>2, SeqMonotonic DEF Cell
<1>4. H \in Seq(Cell) /\ Len(H) = 1 /\ H[1] = Header(s, Entries(s, n))
  BY HeaderIs DEF Cell
<1>0. 1 \in Nat /\ Size(s) \in Nat /\ Size(s) + 1 \in Nat /\ Size(s) + 1 = 1 + Size(s)
  BY <1>1
<1> HIDE DEF H, E
<1>5. /\ H \o E \in Seq(Cell) /\ Len(H \o E) = Size(s) + 1
      /\ \A i \in 1..1 : (H \o E)[i] = H[i]
      /\ \A i \in 1..Size(s) : (H \o E)[1 + i] = E[i]
  <2>1. H \o E \in Seq(Cell) /\ Joins(H \o E, H, Len(H), E, Len(E))
    BY <1>3, <1>4, ConcatIs
  <2>2. Joins(H \o E, H, 1, E, Size(s))
    BY <1>2, <1>4, <2>1
  <2>3. QED BY <1>0, <2>1, <2>2 DEF Joins
<1>6. (H \o E)[1] = Header(s, Entries(s, n))
  BY <1>4, <1>5
<1>7. ASSUME NEW i \in 1..Size(s)
      PROVE  (H \o E)[i + 1] = E[i]
  <2>1. i + 1 = 1 + i
    BY <1>1
  <2>2. QED BY <1>5, <2>1
<1>8. ASSUME NEW i, i \in 2..Len(H \o E)
      PROVE  (H \o E)[i].kind # "head"
  <2> DEFINE j == i - 1
  <2>0. i \in 2..(Size(s) + 1)
    BY <1>5, <1>8
  <2>1. j \in 1..Size(s) /\ i = 1 + j
    BY <2>0, <1>1
  <2> HIDE DEF j
  <2>2. (H \o E)[i] = E[j] /\ E[j] \in Entry
    BY <1>2, <1>5, <2>1
  <2>3. QED BY <2>2, NoEntryIsHead
<1>9. QED BY <1>5, <1>6, <1>7, <1>8 DEF Built, H, E

-----------------------------------------------------------------------------
(* The inductive invariant.                                                  *)

Saving == {"file", "erase", "nandwrite", "oldtable", "open", "write"}

\* Once the images are written, they are this run's.
Current == pc \in {"build"} \cup Saving => images = run /\ lists = Promised(system, run)

\* What is being saved is the descriptor of this run, or as much of it as got into
\* the file, with all the firmware that a boot needs.
Ready ==
  pc \in Saving =>
    /\ Required \subseteq system.firmware
    /\ Len(desc) <= Size(system) + 1
    /\ \A i \in 1..Len(desc) : desc[i] = Built(system, run)[i]
    /\ pc = "file" \/ "write" \notin lapses => Size(system) + 1 <= Len(desc)

\* Nothing has been written yet.
Begun == pc \in {"file", "erase", "open"} => done = 0 /\ pos = 0

\* The first n cells are those of the descriptor in memory.
Same(n) == \A i \in 1..n : cells[i] = desc[i]

\* How much of it is in the flash.
Put ==
  /\ pc \in {"nandwrite", "oldtable"} => Len(cells) = done /\ Same(done)
  /\ pc = "oldtable" => Len(desc) <= done
  /\ pc = "write" => pos <= Len(cells) /\ ("write" \notin lapses => pos = done /\ Same(done))

\* The boot code would look at the checksum.
Signed == HasHeader /\ cells[1].signature = "VERONA__"

\* While the images are written there is no header to be looked at.
Spoiled == pc \in {"images", "build", "file", "erase", "open"} /\ "sign" \notin lapses => ~Signed

\* A save that has succeeded has left the whole descriptor.
Whole ==
  /\ Size(system) + 1 <= Len(cells)
  /\ \A i \in 1..(Size(system) + 1) : cells[i] = Built(system, run)[i]
Saved == pc = "done" /\ ret = 0 /\ "write" \notin lapses => Whole

IInv == TypeOK /\ Current /\ Ready /\ Begun /\ Put /\ Spoiled /\ Saved

\* A header that is looked at has the checksum of the images in the flash.  Where a
\* package has more partitions than part_desc holds, it may not have.
Truthful ==
  "sign" \notin lapses /\ Signed =>
    /\ images >= 0 /\ cells[1].checksum = lists
    /\ \A i \in DOMAIN lists : lists[i].kind = "fw" /\ lists[i].name \in Required => lists[i].there

Fits == \A s \in Systems : Partitions(s) <= PartSlots

\* The state of one save, for the steps that leave it alone.
LEMMA Stutter ==
  ASSUME IInv, UNCHANGED vars
  PROVE  IInv'
BY DEF IInv, TypeOK, Current, Ready, Begun, Put, Spoiled, Saved, Whole, Signed, HasHeader, Same, vars

LEMMA InitInv == Init => IInv
<1> SUFFICES ASSUME Init PROVE IInv
  OBVIOUS
<1>1. system \in Systems /\ 0 \in 0..MaxRuns
  BY FwdescAssumption DEF Init
<1>2. lists \in Seq(Entry) /\ cells \in Seq(Cell)
  BY <1>1, PromisedIs, BuiltIs DEF Init
<1>3. TypeOK
  <2>1. <<>> \in Seq(Cell) /\ Len(<<>>) = 0
    OBVIOUS
  <2>2. QED BY <1>1, <1>2, <2>1, FwdescAssumption DEF Init, TypeOK
<1>4. QED BY <1>3 DEF Init, IInv, Current, Ready, Begun, Put, Spoiled, Saved, Saving

\* Spoiling the signature.
LEMMA Spoiling ==
  ASSUME cells \in Seq(Cell), HasHeader
  PROVE  /\ [cells EXCEPT ![1].signature = "RESCUE__"] \in Seq(Cell)
         /\ [cells EXCEPT ![1].signature = "RESCUE__"][1].signature = "RESCUE__"
<1>1. 1 \in 1..Len(cells) /\ cells[1] \in Cell
  BY DEF HasHeader
<1>2. cells[1] \in HeadCell
  BY <1>1 DEF HasHeader, Cell, Entry
<1>3. [cells[1] EXCEPT !.signature = "RESCUE__"] \in HeadCell
      /\ [cells[1] EXCEPT !.signature = "RESCUE__"].signature = "RESCUE__"
  BY <1>2 DEF HeadCell
<1> DEFINE c == [cells[1] EXCEPT !.signature = "RESCUE__"]
<1>4. [cells EXCEPT ![1].signature = "RESCUE__"] = [cells EXCEPT ![1] = c]
  OBVIOUS
<1>5. c \in Cell /\ c.signature = "RESCUE__"
  BY <1>3 DEF Cell
<1> HIDE DEF c
<1>6. [cells EXCEPT ![1] = c] \in Seq(Cell) /\ [cells EXCEPT ![1] = c][1] = c
  BY <1>1, <1>5, ExceptSeq
<1>7. QED BY <1>4, <1>5, <1>6

LEMMA SignInv ==
  ASSUME IInv, NEW s \in Systems, Sign(s)
  PROVE  IInv'
<1>1. TypeOK'
  <2>1. cells' \in Seq(Cell)
    BY Spoiling DEF Sign, IInv, TypeOK
  <2>2. QED BY <2>1, FwdescAssumption DEF Sign, IInv, TypeOK
<1>2. Spoiled'
  <2> SUFFICES ASSUME "sign" \notin lapses' PROVE ~Signed'
    BY DEF Spoiled
  <2>1. cells' = IF HasHeader THEN [cells EXCEPT ![1].signature = "RESCUE__"] ELSE cells
    BY DEF Sign
  <2>2. CASE HasHeader
    <3>1. cells'[1].signature = "RESCUE__"
      BY <2>1, <2>2, Spoiling DEF IInv, TypeOK
    <3>2. QED BY <3>1 DEF Signed
  <2>3. CASE ~HasHeader
    BY <2>1, <2>3 DEF Signed, HasHeader
  <2>4. QED BY <2>2, <2>3
<1>3. QED BY <1>1, <1>2 DEF Sign, IInv, Current, Ready, Begun, Put, Saved, Saving

LEMMA BurnImagesInv ==
  ASSUME IInv, BurnImages
  PROVE  IInv'
<1>1. run \in 0..MaxRuns /\ system \in Systems /\ Promised(system, run) \in Seq(Entry)
  BY PromisedIs DEF IInv, TypeOK
<1>2. TypeOK'
  BY <1>1, FwdescAssumption DEF BurnImages, IInv, TypeOK
<1>3. Current' /\ Ready' /\ Begun' /\ Put' /\ Saved'
  BY DEF BurnImages, IInv, Current, Ready, Begun, Put, Saved, Saving
<1>4. Spoiled'
  BY DEF BurnImages, IInv, Spoiled, Signed, HasHeader
<1>5. QED BY <1>2, <1>3, <1>4 DEF IInv

LEMMA BuildInv ==
  ASSUME IInv, Build
  PROVE  IInv'
<1>1. run \in 0..MaxRuns /\ system \in Systems
  BY DEF IInv, TypeOK
<1>2. Built(system, run) \in Seq(Cell) /\ Len(Built(system, run)) = Size(system) + 1
  BY <1>1, BuiltIs
<1>3. Len(Built(system, run)) \in Nat /\ Len(desc) \in Nat
  BY <1>2 DEF IInv, TypeOK
<1>4. CASE Required \subseteq system.firmware
  <2>1. /\ desc' = Built(system, run) /\ ret' = ret /\ pc' \in {"file", "open"} /\ done' = 0 /\ pos' = 0
        /\ UNCHANGED <<flash, run, system, images, lists, cells, lapses>> /\ pc = "build"
    BY <1>4 DEF Build
  <2>2. TypeOK'
    BY <1>2, <1>3, <2>1 DEF IInv, TypeOK
  <2>3. Ready'
    <3>1. Len(desc') <= Size(system) + 1 /\ Size(system) + 1 <= Len(desc')
      <4> DEFINE n == Size(system) + 1
      <4>1. Len(desc') = n /\ n \in Nat
        BY <1>1, <1>2, <2>1, SizeIs
      <4> HIDE DEF n
      <4>2. Len(desc') <= n /\ n <= Len(desc')
        BY <4>1
      <4>3. QED BY <4>2 DEF n
    <3>2. QED BY <1>4, <2>1, <3>1 DEF Ready, Saving
  <2>4. Current' /\ Begun' /\ Put' /\ Saved'
    BY <2>1 DEF IInv, Current, Begun, Put, Saved, Saving
  <2>5. Spoiled'
    BY <2>1 DEF IInv, Spoiled, Signed, HasHeader
  <2>6. QED BY <2>2, <2>3, <2>4, <2>5 DEF IInv
<1>5. CASE ~(Required \subseteq system.firmware)
  <2>1. /\ UNCHANGED desc /\ ret' = -1 /\ pc' = "done" /\ done' = 0 /\ pos' = 0
        /\ UNCHANGED <<flash, run, system, images, lists, cells, lapses>>
    BY <1>5 DEF Build
  <2>2. TypeOK'
    BY <1>3, <2>1 DEF IInv, TypeOK
  <2>3. Current' /\ Begun' /\ Put' /\ Saved' /\ Ready' /\ Spoiled'
    BY <2>1 DEF Current, Begun, Put, Saved, Saving, Ready, Spoiled
  <2>4. QED BY <2>2, <2>3 DEF IInv
<1>6. QED BY <1>4, <1>5

\* The first n cells of the descriptor are in the file.
LEMMA CutShort ==
  ASSUME TypeOK, NEW n \in {0, 1, Len(desc) - 1}, 0 < Len(desc)
  PROVE  /\ SubSeq(desc, 1, n) \in Seq(Cell) /\ Len(SubSeq(desc, 1, n)) <= Len(desc)
         /\ \A i \in 1..Len(SubSeq(desc, 1, n)) : SubSeq(desc, 1, n)[i] = desc[i]
<1> DEFINE d == Len(desc)
           c == SubSeq(desc, 1, n)
           l == Len(c)
<1>1. d \in Nat /\ 0 < d /\ \A i \in 1..d : desc[i] \in Cell
  BY DEF TypeOK
<1> HIDE DEF d
<1>2. n \in 0..d
  BY <1>1 DEF d
<1>3. \A i \in 1..n : desc[i] \in Cell
  BY <1>1, <1>2
<1>4. /\ c \in Seq(Cell) /\ l = (IF 1 <= n THEN n - 1 + 1 ELSE 0)
      /\ \A i \in 1..(n - 1 + 1) : c[i] = desc[1 + i - 1]
  <2>1. 1 \in Int /\ n \in Int
    BY <1>1, <1>2
  <2>2. QED BY <1>3, <2>1, SubSeqProperties
<1> HIDE DEF c, l
<1>5. l \in 0..n
  BY <1>1, <1>2, <1>4
<1>6. l <= d
  BY <1>1, <1>2, <1>5
<1>7. ASSUME NEW i \in 1..l
      PROVE  c[i] = desc[i]
  <2>1. i \in 1..(n - 1 + 1) /\ 1 + i - 1 = i
    BY <1>1, <1>2, <1>5
  <2>2. QED BY <1>4, <2>1
<1>8. QED BY <1>4, <1>6, <1>7 DEF c, d, l

\* What is in memory while it is being saved is never nothing.
LEMMA NotEmpty ==
  ASSUME IInv, pc = "file"
  PROVE  0 < Len(desc)
<1>1. Size(system) + 1 <= Len(desc) /\ Len(desc) \in Nat
  BY DEF IInv, TypeOK, Ready, Saving
<1>2. Size(system) \in 7..24
  BY SizeIs DEF IInv, TypeOK
<1>3. QED BY <1>1, <1>2

LEMMA EraseInv ==
  ASSUME IInv, Erase
  PROVE  IInv'
<1>1. done = 0 /\ pos = 0 /\ pc = "erase" /\ pc' \in {"nandwrite", "done"} /\ cells' \in {cells, <<>>}
      /\ (pc' = "nandwrite" => cells' = <<>>) /\ (pc' = "done" => ret' = -1) /\ ret' \in {ret, -1}
      /\ UNCHANGED <<flash, run, system, images, lists, desc, done, pos, lapses>>
  BY DEF Erase, IInv, Begun
<1>2. <<>> \in Seq(Cell) /\ Len(<<>>) = 0
  OBVIOUS
<1>3. TypeOK'
  BY <1>1, <1>2 DEF IInv, TypeOK
<1>4. Current' /\ Ready' /\ Begun' /\ Saved' /\ Spoiled'
  BY <1>1 DEF IInv, Current, Ready, Begun, Saved, Saving, Spoiled
<1>5. Put'
  <2>1. CASE pc' = "done"
    BY <2>1 DEF Put
  <2>2. CASE pc' = "nandwrite"
    BY <1>1, <1>2, <2>2 DEF Put, Same
  <2>3. QED BY <1>1, <2>1, <2>2
<1>6. QED BY <1>3, <1>4, <1>5 DEF IInv

LEMMA NandWriteInv ==
  ASSUME IInv, NandWrite
  PROVE  IInv'
<1>1. /\ pc = "nandwrite" /\ done < Len(desc) /\ cells' = Append(cells, desc[done + 1]) /\ done' = done + 1
      /\ UNCHANGED <<flash, pc, run, system, images, lists, desc, pos, ret, lapses>>
  BY DEF NandWrite
<1>2. cells \in Seq(Cell) /\ desc \in Seq(Cell) /\ Len(desc) \in Nat /\ done \in Nat /\ pos \in 0..done
  BY DEF IInv, TypeOK
<1> DEFINE d == Len(desc)
           e == desc[done + 1]
<1>3. d \in Nat /\ done < d /\ done + 1 \in 1..d
  <2>1. d \in Nat /\ done < d
    BY <1>1, <1>2
  <2> HIDE DEF d
  <2>2. QED BY <1>2, <2>1
<1>4. e \in Cell
  BY <1>2, <1>3
<1> HIDE DEF e
<1>5. Len(cells) = done /\ Same(done)
  BY <1>1 DEF IInv, Put
<1>6. /\ cells' \in Seq(Cell) /\ \A i \in 1..done : cells'[i] = cells[i]
      /\ cells'[done + 1] = e
  BY <1>1, <1>2, <1>4, <1>5, AppendProperties DEF e
<1>7. Len(cells') = done + 1
  BY <1>1, <1>2, <1>4, <1>5, AppendProperties DEF e
<1>8. \A i \in 1..(done + 1) : cells'[i] = desc[i]
  <2> SUFFICES ASSUME NEW i \in 1..(done + 1) PROVE cells'[i] = desc[i]
    OBVIOUS
  <2>1. CASE i = done + 1
    BY <1>6, <2>1 DEF e
  <2>2. CASE i # done + 1
    <3>1. i \in 1..done
      BY <1>2, <2>2
    <3>2. QED BY <1>5, <1>6, <3>1 DEF Same
  <2>3. QED BY <2>1, <2>2
<1>9. TypeOK'
  <2>1. done' \in 0..d /\ pos' \in 0..done'
    <3> HIDE DEF d
    <3>1. QED BY <1>1, <1>2, <1>3
  <2>2. QED BY <1>1, <1>6, <2>1 DEF IInv, TypeOK
<1>10. Put'
  <2>1. \A i \in 1..done' : cells'[i] = desc'[i]
    BY <1>1, <1>8
  <2>2. Len(cells') = done' /\ pc' = "nandwrite"
    BY <1>1, <1>7
  <2>3. QED BY <2>1, <2>2 DEF Put, Same
<1>11. Current' /\ Ready' /\ Begun' /\ Saved' /\ Spoiled'
  BY <1>1 DEF IInv, Current, Ready, Begun, Saved, Saving, Spoiled
<1>12. QED BY <1>9, <1>10, <1>11 DEF IInv

\* The last block is written, the write fails, or nothing is left to do.
LEMMA NandWrittenInv ==
  ASSUME IInv, NandWritten \/ NandWriteFails \/ Open
  PROVE  IInv'
<1>1. /\ UNCHANGED <<flash, run, system, images, lists, desc, done, pos, cells, lapses>>
      /\ \/ pc = "nandwrite" /\ pc' = "oldtable" /\ done = Len(desc) /\ ret' = ret
         \/ pc' = "done" /\ ret' = -1
         \/ pc = "open" /\ pc' = "write" /\ ret' = ret
  <2>1. CASE NandWritten
    BY <2>1 DEF NandWritten
  <2>2. CASE NandWriteFails
    BY <2>2 DEF NandWriteFails
  <2>3. CASE Open
    BY <2>3 DEF Open
  <2>4. QED BY <2>1, <2>2, <2>3
<1>2. TypeOK'
  BY <1>1 DEF IInv, TypeOK
<1>3. Current' /\ Ready' /\ Begun' /\ Saved' /\ Spoiled'
  BY <1>1 DEF IInv, Current, Ready, Begun, Saved, Saving, Spoiled
<1>4. Put'
  <2>1. CASE pc = "nandwrite" /\ pc' = "oldtable" /\ done = Len(desc)
    <3>1. Len(desc) <= done
      <4>1. done \in Nat
        BY DEF IInv, TypeOK
      <4>2. QED BY <2>1, <4>1
    <3>2. QED BY <1>1, <2>1, <3>1 DEF IInv, Put, Same
  <2>2. CASE pc' = "done"
    BY <2>2 DEF Put
  <2>3. CASE pc = "open" /\ pc' = "write"
    <3>1. done = 0 /\ pos = 0 /\ Len(cells) \in Nat
      BY <2>3 DEF IInv, Begun, TypeOK
    <3>2. QED BY <1>1, <2>3, <3>1 DEF Put, Same
  <2>4. QED BY <1>1, <2>1, <2>2, <2>3
<1>5. QED BY <1>2, <1>3, <1>4 DEF IInv

LEMMA WriteFileInv ==
  ASSUME IInv, WriteFile
  PROVE  IInv'
<1>1. /\ pc = "file" /\ done = 0 /\ pos = 0
      /\ UNCHANGED <<flash, run, system, images, lists, done, pos, cells>>
  BY DEF WriteFile, IInv, Begun
<1>2. CASE UNCHANGED <<desc, lapses>>
  <2>1. \/ pc' = "done" /\ ret' = -1
        \/ pc' = "erase" /\ ret' = ret
    BY <1>2 DEF WriteFile
  <2>2. TypeOK'
    BY <1>1, <1>2, <2>1 DEF IInv, TypeOK
  <2>3. Current' /\ Ready' /\ Begun' /\ Saved' /\ Put'
    BY <1>1, <1>2, <2>1 DEF IInv, Current, Ready, Begun, Saved, Saving, Put
  <2>4. Spoiled'
    BY <1>1, <1>2, <2>1 DEF IInv, Spoiled, Signed, HasHeader
  <2>5. QED BY <2>2, <2>3, <2>4 DEF IInv
<1>3. CASE /\ pc' = "erase" /\ lapses' = lapses \cup {"write"} /\ UNCHANGED ret
           /\ \E n \in {0, 1, Len(desc) - 1} : desc' = SubSeq(desc, 1, n)
  <2>1. /\ desc' \in Seq(Cell) /\ Len(desc') <= Len(desc)
        /\ \A i \in 1..Len(desc') : desc'[i] = desc[i]
    BY <1>1, <1>3, NotEmpty, CutShort DEF IInv
  <2> DEFINE d == Len(desc)
             c == Len(desc')
  <2>2. c \in Nat /\ d \in Nat /\ c <= d
    BY <2>1 DEF IInv, TypeOK
  <2>3. TypeOK'
    BY <1>1, <1>3, <2>1, <2>2 DEF IInv, TypeOK
  <2>4. Ready'
    <3> DEFINE n == Size(system) + 1
    <3>1. n \in Nat
      <4>1. system \in Systems
        BY DEF IInv, TypeOK
      <4>2. QED BY <4>1, SizeIs
    <3>2. Required \subseteq system.firmware /\ d <= n /\ \A i \in 1..d : desc[i] = Built(system, run)[i]
      BY <1>1 DEF IInv, Ready, Saving
    <3> HIDE DEF d, c, n
    <3>3. c <= n /\ \A i \in 1..c : i \in 1..d
      BY <2>2, <3>1, <3>2
    <3>4. \A i \in 1..c : desc'[i] = Built(system, run)[i]
      BY <2>1, <3>2, <3>3 DEF c
    <3>5. "write" \in lapses' /\ pc' = "erase"
      BY <1>3
    <3>6. QED BY <1>1, <3>2, <3>3, <3>4, <3>5 DEF Ready, c, n
  <2>5. Current' /\ Begun' /\ Saved' /\ Put'
    BY <1>1, <1>3 DEF IInv, Current, Begun, Saved, Saving, Put
  <2>6. Spoiled'
    BY <1>1, <1>3 DEF IInv, Spoiled, Signed, HasHeader
  <2>7. QED BY <2>3, <2>4, <2>5, <2>6 DEF IInv
<1>4. QED BY <1>2, <1>3 DEF WriteFile

\* What is in the flash when the save succeeds.
LEMMA WholeIsSaved ==
  ASSUME IInv, pc \in {"oldtable", "write"}, Len(desc) <= done, Same(done), done <= Len(cells), "write" \notin lapses
  PROVE  Whole
<1> DEFINE d == Len(desc)
           c == Len(cells)
           n == Size(system) + 1
<1>1. d \in Nat /\ c \in Nat /\ n \in Nat /\ done \in Nat
  <2>1. system \in Systems /\ done \in Nat /\ d \in Nat /\ c \in Nat
    BY DEF IInv, TypeOK
  <2>2. n \in Nat
    <3>1. Size(system) \in 7..24
      BY <2>1, SizeIs
    <3>2. QED BY <3>1, SMTT(20)
  <2>3. QED BY <2>1, <2>2
<1>2. n <= d /\ d <= done /\ done <= c /\ \A i \in 1..d : desc[i] = Built(system, run)[i]
  BY DEF IInv, Ready, Saving
<1> HIDE DEF d, c, n
<1>3. n <= c /\ \A i \in 1..n : i \in 1..d /\ i \in 1..done
  BY <1>1, <1>2
<1>4. \A i \in 1..n : cells[i] = Built(system, run)[i]
  BY <1>2, <1>3 DEF Same
<1>5. QED BY <1>3, <1>4 DEF c, n, Whole

LEMMA EraseOldTableInv ==
  ASSUME IInv, EraseOldTable \/ Written
  PROVE  IInv'
<1>1. /\ pc \in {"oldtable", "write"} /\ pc' = "done" /\ ret' \in {0, -1}
      /\ UNCHANGED <<flash, run, system, images, lists, desc, done, pos, cells, lapses>>
  BY DEF EraseOldTable, Written
<1>2. TypeOK'
  BY <1>1 DEF IInv, TypeOK
<1>3. Current' /\ Ready' /\ Begun' /\ Put' /\ Spoiled'
  BY <1>1 DEF Current, Ready, Begun, Saving, Spoiled, Put
<1>4. Saved'
  <2> SUFFICES ASSUME "write" \notin lapses
               PROVE  Saved'
    BY <1>1 DEF Saved
  <2>1. done \in Nat /\ Len(desc) \in Nat /\ Len(cells) \in Nat
    BY DEF IInv, TypeOK
  <2>2. Len(desc) <= done /\ Same(done) /\ done <= Len(cells)
    <3>1. CASE EraseOldTable
      BY <2>1, <3>1 DEF EraseOldTable, IInv, Put
    <3>2. CASE Written
      <4>1. pc = "write" /\ done = Len(desc)
        BY <3>2 DEF Written
      <4>2. pos = done /\ Same(done) /\ pos <= Len(cells)
        BY <4>1 DEF IInv, Put
      <4>3. QED BY <2>1, <4>1, <4>2
    <3>3. QED BY <3>1, <3>2
  <2>3. Whole
    BY <1>1, <2>2, WholeIsSaved
  <2>4. QED BY <1>1, <2>3 DEF Saved, Whole
<1>5. QED BY <1>2, <1>3, <1>4 DEF IInv

\* The program ends, or the power is cut.
LEMMA OffInv ==
  ASSUME IInv, Finish \/ PowerCut
  PROVE  IInv'
<1>1. /\ pc' = "off" /\ desc' = <<>> /\ done' = 0 /\ pos' = 0 /\ ret' = 0
      /\ UNCHANGED <<flash, run, system, images, lists, cells, lapses>>
  BY DEF Finish, PowerCut
<1>2. <<>> \in Seq(Cell) /\ Len(<<>>) = 0
  OBVIOUS
<1>3. TypeOK'
  BY <1>1, <1>2 DEF IInv, TypeOK
<1>4. QED BY <1>1, <1>3 DEF IInv, Current, Ready, Begun, Put, Spoiled, Saved, Saving

\* Writing one cell at p leaves the others as they are.
LEMMA OneCell ==
  ASSUME NEW c, NEW c1, NEW p \in Nat, NEW e \in Cell, c \in Seq(Cell), p <= Len(c),
         c1 = IF p < Len(c) THEN [c EXCEPT ![p + 1] = e] ELSE Append(c, e)
  PROVE  /\ c1 \in Seq(Cell) /\ p + 1 <= Len(c1) /\ c1[p + 1] = e
         /\ \A i \in 1..p : c1[i] = c[i]
<1>1. CASE p < Len(c)
  <2> DEFINE n == Len(c)
             m == Len(c1)
  <2>1. n \in Nat /\ p < n
    BY <1>1
  <2>2. p + 1 \in 1..Len(c)
    <3>1. p + 1 \in 1..n
      <4> HIDE DEF n
      <4>1. QED BY <2>1
    <3>2. QED BY <3>1
  <2>3. /\ c1 \in Seq(Cell) /\ m = n
        /\ \A j \in 1..n : c1[j] = IF j = p + 1 THEN e ELSE c[j]
    BY <1>1, <2>2, ExceptSeq
  <2> HIDE DEF n, m
  <2>4. p + 1 \in 1..n /\ p + 1 <= m
    BY <2>1, <2>3
  <2>5. \A i \in 1..p : i \in 1..n /\ i # p + 1
    BY <2>1
  <2>6. QED BY <2>3, <2>4, <2>5 DEF m
<1>2. CASE ~(p < Len(c))
  <2> DEFINE n == Len(c)
             m == Len(c1)
  <2>1. n \in Nat /\ p = n
    <3>1. n \in Nat /\ ~(p < n) /\ p <= n
      BY <1>2
    <3> HIDE DEF n
    <3>2. QED BY <3>1
  <2>2. /\ c1 \in Seq(Cell) /\ m = n + 1
        /\ \A i \in 1..n : c1[i] = c[i]
        /\ c1[n + 1] = e
    BY <1>2, AppendProperties
  <2> HIDE DEF n, m
  <2>3. p + 1 <= m
    BY <2>1, <2>2
  <2>4. QED BY <2>1, <2>2, <2>3 DEF m
<1>3. QED BY <1>1, <1>2

\* What a write of the save to the eMMC does.
LEMMA WriteDoes ==
  ASSUME IInv, Write
  PROVE  /\ pc = "write" /\ done \in Nat /\ pos \in 0..done /\ desc[done + 1] \in Cell
         /\ done' = done + 1 /\ done + 1 \in 1..Len(desc)
         /\ UNCHANGED <<flash, pc, run, system, images, lists, desc, ret>>
         /\ \/ /\ pos' = pos + 1 /\ UNCHANGED lapses
               /\ cells' \in Seq(Cell) /\ pos + 1 <= Len(cells') /\ cells'[pos + 1] = desc[done + 1]
               /\ \A i \in 1..pos : cells'[i] = cells[i]
            \/ lapses' = lapses \cup {"write"} /\ UNCHANGED <<pos, cells>>
<1>1. /\ pc = "write" /\ done < Len(desc) /\ done' = done + 1
      /\ UNCHANGED <<flash, pc, run, system, images, lists, desc, ret>>
  BY DEF Write
<1>2. cells \in Seq(Cell) /\ desc \in Seq(Cell) /\ done \in Nat /\ pos \in 0..done
  BY DEF IInv, TypeOK
<1> DEFINE d == Len(desc)
<1>3. done + 1 \in 1..d
  <2>1. d \in Nat /\ done < d
    BY <1>1, <1>2
  <2> HIDE DEF d
  <2>2. QED BY <1>2, <2>1
<1>4. desc[done + 1] \in Cell
  BY <1>2, <1>3
<1>5. CASE /\ cells' = (IF pos < Len(cells) THEN [cells EXCEPT ![pos + 1] = desc[done + 1]]
                        ELSE Append(cells, desc[done + 1]))
           /\ pos' = pos + 1 /\ UNCHANGED lapses
  <2>1. pos \in Nat /\ pos <= Len(cells)
    BY <1>1, <1>2 DEF IInv, Put
  <2>2. /\ cells' \in Seq(Cell) /\ pos + 1 <= Len(cells') /\ cells'[pos + 1] = desc[done + 1]
        /\ \A i \in 1..pos : cells'[i] = cells[i]
    BY <1>2, <1>4, <1>5, <2>1, OneCell
  <2>3. QED BY <1>1, <1>2, <1>3, <1>4, <1>5, <2>2
<1>6. CASE lapses' = lapses \cup {"write"} /\ UNCHANGED <<pos, cells>>
  BY <1>1, <1>2, <1>3, <1>4, <1>6
<1>7. QED BY <1>5, <1>6 DEF Write

LEMMA WriteInv ==
  ASSUME IInv, Write
  PROVE  IInv'
<1>1. /\ pc = "write" /\ done \in Nat /\ pos \in 0..done /\ done' = done + 1 /\ done + 1 \in 1..Len(desc)
      /\ UNCHANGED <<flash, pc, run, system, images, lists, desc, ret>>
  BY WriteDoes
<1>2. Current' /\ Begun' /\ Saved' /\ Spoiled'
  BY <1>1 DEF IInv, Current, Begun, Saved, Saving, Spoiled
<1>3. done' \in 0..Len(desc')
  BY <1>1
<1>4. CASE /\ pos' = pos + 1 /\ UNCHANGED lapses
           /\ cells' \in Seq(Cell) /\ pos + 1 <= Len(cells') /\ cells'[pos + 1] = desc[done + 1]
           /\ \A i \in 1..pos : cells'[i] = cells[i]
  <2>1. pos' \in 0..done'
    BY <1>1, <1>4
  <2>2. TypeOK'
    BY <1>1, <1>3, <1>4, <2>1 DEF IInv, TypeOK
  <2>3. Ready'
    BY <1>1, <1>4 DEF IInv, Ready
  <2>4. Put'
    <3>1. pos' <= Len(cells')
      BY <1>4
    <3>2. ASSUME "write" \notin lapses'
          PROVE  pos' = done' /\ \A i \in 1..done' : cells'[i] = desc'[i]
      <4>1. pos = done /\ \A i \in 1..done : cells[i] = desc[i]
        BY <1>1, <1>4, <3>2 DEF IInv, Put, Same
      <4>2. \A i \in 1..(done + 1) : i \in 1..done \/ i = done + 1
        BY <1>1
      <4>3. cells'[done + 1] = desc[done + 1] /\ \A i \in 1..done : cells'[i] = desc[i]
        BY <1>4, <4>1
      <4>4. QED BY <1>1, <1>4, <4>1, <4>2, <4>3
    <3>3. QED BY <1>1, <3>1, <3>2 DEF Put, Same
  <2>5. QED BY <1>2, <2>2, <2>3, <2>4 DEF IInv
<1>5. CASE lapses' = lapses \cup {"write"} /\ UNCHANGED <<pos, cells>>
  <2>1. pos' \in 0..done'
    BY <1>1, <1>5
  <2>2. TypeOK'
    BY <1>1, <1>3, <1>5, <2>1 DEF IInv, TypeOK
  <2>3. Ready'
    BY <1>1, <1>5 DEF IInv, Ready
  <2>4. Put'
    BY <1>1, <1>5 DEF IInv, Put
  <2>5. QED BY <1>2, <2>2, <2>3, <2>4 DEF IInv
<1>6. QED BY <1>4, <1>5, WriteDoes

LEMMA NextInv ==
  ASSUME IInv, [Next]_vars
  PROVE  IInv'
<1>1. CASE UNCHANGED vars
  BY <1>1, Stutter
<1>2. CASE Next
  BY <1>2, SignInv, BurnImagesInv, BuildInv, WriteFileInv, EraseInv, NandWriteInv, NandWrittenInv,
     EraseOldTableInv, WriteInv, OffInv DEF Next
<1>3. QED BY <1>1, <1>2

LEMMA Invariant == Spec => []IInv
<1>1. QED BY InitInv, NextInv, PTL DEF Spec

\* Every variable keeps its type: in particular no more is saved than the list that
\* burn_fwdesc has built, whose counts fit the header.
THEOREM TypeCorrect == Spec => []TypeOK
<1>1. IInv => TypeOK
  BY DEF IInv
<1>2. QED BY Invariant, <1>1, PTL

\* A descriptor that is whole in the flash is accepted.
LEMMA WholeIsAccepted ==
  ASSUME TypeOK, Whole
  PROVE  Accepted /\ cells[1].parts > 0 /\ cells[2].of = run
<1> DEFINE E == Entries(system, run)
           n == Size(system)
           c == Len(cells)
<1>1. system \in Systems /\ run \in 0..MaxRuns /\ cells \in Seq(Cell) /\ c \in Nat
  BY DEF TypeOK
<1>2. Partitions(system) \in 1..15 /\ Fws(system) \in 6..9 /\ n \in 7..24 /\ n = Partitions(system) + Fws(system)
  BY <1>1, SizeIs
<1>3. E \in Seq(Entry) /\ Len(E) = n /\ E[1].of = run
  BY <1>1, EntriesIs
<1>4. Built(system, run)[1] = Header(system, E) /\ \A i \in 1..n : Built(system, run)[i + 1] = E[i]
  BY <1>1, BuiltIs
<1> HIDE DEF E, n, c
<1>5. n + 1 <= c /\ \A i \in 1..(n + 1) : cells[i] = Built(system, run)[i]
  BY DEF n, c, Whole
<1>6. cells[1] = Header(system, E)
  <2>1. 1 \in 1..(n + 1)
    BY <1>2
  <2>2. QED BY <1>4, <1>5, <2>1
<1>7. /\ cells[1].kind = "head" /\ cells[1].signature = "VERONA__" /\ cells[1].checksum = E
      /\ cells[1].parts = Partitions(system) /\ cells[1].fws = Fws(system)
  BY <1>6 DEF Header, Fws
<1>8. ASSUME NEW i \in 1..n
      PROVE  cells[i + 1] = E[i] /\ E[i] \in Entry
  <2>1. i + 1 \in 1..(n + 1)
    BY <1>2
  <2>2. E[i] \in Entry
    BY <1>3
  <2>3. QED BY <1>4, <1>5, <2>1, <2>2
<1>9. Present = E
  <2> DEFINE m == Len(Present)
  <2>1. ASSUME NEW i \in 2..(n + 1)
        PROVE  cells[i] \in Entry
    <3>1. i - 1 \in 1..n /\ (i - 1) + 1 = i
      BY <1>2
    <3>2. QED BY <1>8, <3>1
  <2> DEFINE h == n + 1
  <2>2. Present = SubSeq(cells, 2, h)
    <3>1. 1 + cells[1].parts + cells[1].fws = h
      BY <1>2, <1>7
    <3>2. QED BY <3>1 DEF Present
  <2>3. h \in Int /\ 2 <= h /\ h - 2 + 1 = n /\ n \in Nat
    BY <1>2
  <2>4. \A i \in 2..h : cells[i] \in Entry
    BY <2>1
  <2> HIDE DEF m, h
  <2>5. /\ SubSeq(cells, 2, h) \in Seq(Entry) /\ Len(SubSeq(cells, 2, h)) = h - 2 + 1
        /\ \A i \in 1..(h - 2 + 1) : SubSeq(cells, 2, h)[i] = cells[2 + i - 1]
    BY <2>3, <2>4, SubSeqProperties
  <2>6. Present \in Seq(Entry) /\ m = n /\ \A i \in 1..n : Present[i] = cells[2 + i - 1]
    BY <2>2, <2>3, <2>5 DEF m
  <2>7. ASSUME NEW i \in 1..n
        PROVE  Present[i] = E[i]
    <3>1. 2 + i - 1 = i + 1
      BY <1>2
    <3>2. QED BY <1>8, <2>6, <3>1
  <2>8. Len(Present) = Len(E) /\ \A i \in 1..Len(Present) : Present[i] = E[i]
    BY <1>3, <2>6, <2>7 DEF m
  <2>9. QED BY <1>3, <2>6, <2>8, SeqEqual
<1>10. cells # <<>>
  <2>1. n + 1 <= c /\ c \in Nat /\ n \in 7..24
    BY <1>1, <1>2, <1>5
  <2>2. c # 0
    BY <2>1
  <2>3. QED BY <2>2 DEF c
<1>11. cells[1].parts + cells[1].fws < c /\ cells[1].parts > 0
  <2>1. n + 1 <= c /\ c \in Nat
    BY <1>1, <1>5
  <2>2. QED BY <1>2, <1>7, <2>1
<1>12. cells[2].of = run
  <2>1. 1 \in 1..n /\ 1 + 1 = 2
    BY <1>2
  <2>2. QED BY <1>3, <1>8, <2>1
<1>13. QED BY <1>7, <1>9, <1>10, <1>11, <1>12 DEF Accepted, HasHeader, c

\* burn_fwdesc does not report success for a descriptor that the boot code refuses,
\* as long as no write whose result it ignores has failed: for any package, also one
\* with more partitions than part_desc holds.
THEOREM SuccessAccepted == Spec => []SuccessIsAccepted
<1>1. IInv => SuccessIsAccepted
  BY WholeIsAccepted DEF IInv, Saved, SuccessIsAccepted
<1>2. QED BY Invariant, <1>1, PTL

-----------------------------------------------------------------------------
(* What the boot code takes is what is in the flash.                         *)

\* The header of this run tells the truth.
LEMMA HeaderTells ==
  ASSUME IInv, Fits, pc \in Saving, 1 \in 1..Len(desc)
  PROVE  /\ images >= 0 /\ desc[1].checksum = lists
         /\ \A i \in DOMAIN lists : lists[i].kind = "fw" /\ lists[i].name \in Required => lists[i].there
<1>1. system \in Systems /\ run \in 0..MaxRuns
  BY DEF IInv, TypeOK
<1>2. images = run /\ lists = Promised(system, run) /\ Required \subseteq system.firmware
      /\ desc[1] = Built(system, run)[1]
  BY DEF IInv, Current, Ready
<1>3. Built(system, run)[1] = Header(system, Entries(system, run)) /\ Entries(system, run) = Promised(system, run)
  BY <1>1, BuiltIs, EntriesIs DEF Fits
<1>4. desc[1].checksum = lists
  BY <1>2, <1>3 DEF Header
<1>5. \A i \in DOMAIN lists : lists[i].kind = "fw" /\ lists[i].name \in Required => lists[i].there
  BY <1>1, <1>2, PromisedIs
<1>6. images >= 0
  BY <1>1, <1>2
<1>7. QED BY <1>4, <1>5, <1>6

\* Behind the header there is none.
LEMMA NoOtherHead ==
  ASSUME IInv, pc \in Saving, NEW i \in 2..Len(desc)
  PROVE  desc[i].kind # "head"
<1> DEFINE n == Size(system) + 1
           d == Len(desc)
<1>1. system \in Systems /\ run \in 0..MaxRuns /\ d \in Nat
  BY DEF IInv, TypeOK
<1>2. d <= n /\ \A j \in 1..d : desc[j] = Built(system, run)[j]
  BY DEF IInv, Ready
<1>3. Len(Built(system, run)) = n /\ \A j \in 2..Len(Built(system, run)) : Built(system, run)[j].kind # "head"
  BY <1>1, BuiltIs
<1>4. n \in Nat
  <2>1. Size(system) \in 7..24
    BY <1>1, SizeIs
  <2>2. QED BY <2>1, SMTT(20)
<1>5. \A j \in 2..n : Built(system, run)[j].kind # "head"
  BY <1>3
<1> HIDE DEF n, d
<1>6. i \in 2..d
  BY DEF d
<1>7. i \in 1..d /\ i \in 2..n
  BY <1>1, <1>2, <1>4, <1>6
<1>8. QED BY <1>2, <1>5, <1>7

LEMMA InitTruthful == ASSUME Fits, Init PROVE Truthful
<1>1. system \in Systems /\ 0 \in 0..MaxRuns
  BY FwdescAssumption DEF Init
<1>2. Built(system, 0)[1] = Header(system, Entries(system, 0)) /\ Entries(system, 0) = Promised(system, 0)
  BY <1>1, BuiltIs, EntriesIs DEF Fits
<1>3. cells[1].checksum = lists
  BY <1>2 DEF Init, Header
<1>4. \A i \in DOMAIN lists : lists[i].kind = "fw" /\ lists[i].name \in Required => lists[i].there
  BY <1>1, PromisedIs DEF Init
<1>5. QED BY <1>3, <1>4 DEF Init, Truthful

\* A write puts the header of this run into the first cell, or an entry, or leaves it.
LEMMA WriteTruthful ==
  ASSUME IInv, Truthful, Fits, Write
  PROVE  Truthful'
<1>1. /\ pc = "write" /\ done \in Nat /\ pos \in 0..done /\ done + 1 \in 1..Len(desc)
      /\ images' = images /\ lists' = lists /\ lapses \subseteq lapses'
  BY WriteDoes
<1>2. CASE UNCHANGED cells
  BY <1>1, <1>2 DEF Truthful, Signed, HasHeader
<1>3. CASE /\ cells'[pos + 1] = desc[done + 1]
           /\ \A i \in 1..pos : cells'[i] = cells[i]
  <2>1. CASE done = 0
    <3>1. cells'[1] = desc[1] /\ 1 \in 1..Len(desc)
      BY <1>1, <1>3, <2>1
    <3>2. QED BY <1>1, <3>1, HeaderTells DEF Truthful, Saving
  <2>2. CASE done # 0 /\ pos = 0
    <3>1. cells'[1] = desc[done + 1] /\ done + 1 \in 2..Len(desc)
      BY <1>1, <1>3, <2>2
    <3>2. cells'[1].kind # "head"
      BY <1>1, <3>1, NoOtherHead DEF Saving
    <3>3. QED BY <3>2 DEF Truthful, Signed, HasHeader
  <2>3. CASE pos # 0
    <3>1. 1 \in 1..pos
      BY <1>1, <2>3
    <3>2. cells'[1] = cells[1]
      BY <1>3, <3>1
    <3>3. cells # <<>>
      <4> DEFINE c == Len(cells)
      <4>1. pos <= c /\ c \in Nat
        BY <1>1 DEF IInv, Put, TypeOK
      <4> HIDE DEF c
      <4>2. c # 0
        BY <1>1, <2>3, <4>1
      <4>3. QED BY <4>2 DEF c
    <3>4. Signed' => Signed
      BY <3>2, <3>3 DEF Signed, HasHeader
    <3>5. QED BY <1>1, <3>2, <3>4 DEF Truthful
  <2>4. QED BY <1>1, <2>1, <2>2, <2>3
<1>4. QED BY <1>2, <1>3, WriteDoes

LEMMA NandWriteTruthful ==
  ASSUME IInv, Truthful, Fits, NandWrite
  PROVE  Truthful'
<1>1. /\ pc = "nandwrite" /\ done < Len(desc) /\ cells' = Append(cells, desc[done + 1])
      /\ images' = images /\ lists' = lists /\ lapses' = lapses
  BY DEF NandWrite
<1>2. Len(cells) = done /\ done \in Nat /\ cells \in Seq(Cell) /\ desc \in Seq(Cell) /\ Len(desc) \in Nat
  BY <1>1 DEF IInv, Put, TypeOK
<1>3. done + 1 \in 1..Len(desc)
  <2> DEFINE d == Len(desc)
  <2>1. d \in Nat /\ done < d
    BY <1>1, <1>2
  <2> HIDE DEF d
  <2>2. done + 1 \in 1..d
    BY <1>2, <2>1
  <2>3. QED BY <2>2 DEF d
<1>4. CASE done = 0
  <2>1. 1 \in 1..Len(desc) /\ desc[1] \in Cell /\ cells' = Append(cells, desc[1])
    BY <1>1, <1>2, <1>3, <1>4
  <2>2. cells'[1] = desc[1]
    BY <1>2, <1>4, <2>1, AppendProperties
  <2>3. QED BY <1>1, <2>1, <2>2, HeaderTells DEF Truthful, Saving
<1>5. CASE done # 0
  <2>1. desc[done + 1] \in Cell
    BY <1>2, <1>3
  <2>2. 1 \in 1..done
    BY <1>2, <1>5
  <2>3. cells'[1] = cells[1]
    BY <1>1, <1>2, <2>1, <2>2, AppendProperties
  <2>4. cells # <<>>
    BY <1>2, <1>5
  <2>5. Signed' => Signed
    BY <2>3, <2>4 DEF Signed, HasHeader
  <2>6. QED BY <1>1, <2>3, <2>5 DEF Truthful
<1>6. QED BY <1>4, <1>5

LEMMA NextTruthful ==
  ASSUME IInv, Truthful, Fits, [Next]_vars
  PROVE  Truthful'
<1>1. CASE UNCHANGED <<cells, images, lists, lapses>>
  BY <1>1 DEF Truthful, Signed, HasHeader
<1>2. CASE \E s \in Systems : Sign(s)
  <2>1. lapses \subseteq lapses' /\ images' = images /\ lists' = lists
    BY <1>2 DEF Sign
  <2>2. CASE "sign" \in lapses'
    BY <2>2 DEF Truthful
  <2>3. CASE "sign" \notin lapses'
    <3>1. Spoiled' /\ pc' = "images"
      BY <1>2, SignInv DEF IInv, Sign
    <3>2. QED BY <2>3, <3>1 DEF Spoiled, Truthful
  <2>4. QED BY <2>2, <2>3
<1>3. CASE BurnImages
  <2>1. (Spoiled /\ pc = "images") /\ cells' = cells /\ lapses' = lapses
    BY <1>3 DEF BurnImages, IInv
  <2>2. QED BY <2>1 DEF Spoiled, Truthful, Signed, HasHeader
<1>4. CASE Erase
  <2>1. cells' \in {cells, <<>>} /\ images' = images /\ lists' = lists /\ lapses' = lapses
    BY <1>4 DEF Erase
  <2>2. QED BY <2>1 DEF Truthful, Signed, HasHeader
<1>5. CASE WriteFile
  <2>1. cells' = cells /\ images' = images /\ lists' = lists /\ lapses \subseteq lapses'
    BY <1>5 DEF WriteFile
  <2>2. QED BY <2>1 DEF Truthful, Signed, HasHeader
<1>6. CASE Build \/ NandWritten \/ NandWriteFails \/ EraseOldTable \/ Open \/ Written \/ Finish \/ PowerCut
      \/ UNCHANGED vars
  <2>1. UNCHANGED <<cells, images, lists, lapses>>
    BY <1>6 DEF Build, NandWritten, NandWriteFails, EraseOldTable, Open, Written, Finish, PowerCut, vars
  <2>2. QED BY <1>1, <2>1
<1>7. QED BY <1>2, <1>3, <1>4, <1>5, <1>6, WriteTruthful, NandWriteTruthful DEF Next

LEMMA TruthfulSuffices ==
  ASSUME IInv, Truthful
  PROVE  AcceptedIsCurrent
BY DEF Truthful, AcceptedIsCurrent, Accepted, Signed

\* Whatever fails and whenever the power is cut, the boot code takes no descriptor but
\* that of the images in the flash.  It is a theorem only for packages whose
\* partitions have room in part_desc, which nothing in burn_fwdesc checks.
THEOREM AcceptedCurrent == Fits => (Spec => []AcceptedIsCurrent)
<1> SUFFICES ASSUME Fits PROVE Spec => []AcceptedIsCurrent
  OBVIOUS
<1>1. Init => Truthful
  BY InitTruthful
<1>2. IInv /\ Truthful /\ [Next]_vars => Truthful'
  BY NextTruthful
<1>3. IInv /\ Truthful => AcceptedIsCurrent
  BY TruthfulSuffices
<1>4. QED BY Invariant, <1>1, <1>2, <1>3, PTL DEF Spec
=============================================================================
