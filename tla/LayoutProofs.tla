---------------------------- MODULE LayoutProofs ----------------------------
(* What Layout guarantees for every board and package, proved.               *)
EXTENDS Layout, TLAPS

-----------------------------------------------------------------------------
(* Rounding to erase blocks.                                               *)

\* A remainder lies below the divisor.
LEMMA Remainder ==
  ASSUME NEW x \in Nat, NEW e \in Nat \ {0}
  PROVE  x % e \in Nat /\ x % e < e /\ x % e <= x
OBVIOUS

\* Rounding up yields no less, and rounding down no more.
LEMMA Aligned ==
  ASSUME NEW x \in Nat, NEW e \in Nat \ {0}
  PROVE  /\ AlignMore(x, e) \in Nat /\ AlignMore(x, e) >= x
         /\ AlignLess(x, e) \in Nat /\ AlignLess(x, e) <= x
BY Remainder DEF AlignMore, AlignLess

\* Half of the flash.
LEMMA Halved ==
  ASSUME NEW x \in Nat
  PROVE  x \div 2 \in Nat /\ x \div 2 <= x /\ 2 * (x \div 2) <= x
OBVIOUS

-----------------------------------------------------------------------------
(* The given areas and the limits of the placing.                          *)

\* The parameters of a board are numbers.
LEMMA BoardType ==
  ASSUME board \in Boards
  PROVE  /\ board.flash_type \in {"nand", "nor", "emmc"}
         /\ board.flash_size \in Nat /\ board.mtd_erasesize \in Nat \ {0}
         /\ board.bootcode_start \in Nat /\ board.bootcode_size \in Nat
         /\ board.factory_start \in Nat /\ board.factory_size \in Nat
         /\ board.bootpart \in {0, 1}
BY LayoutAssumption DEF Board

\* A whole number of erase blocks is no less than what it is to hold.
LEMMA BlockAligned ==
  ASSUME board \in Boards, NEW x \in Nat
  PROVE  BlockAlign(x) \in Nat /\ BlockAlign(x) >= x
BY BoardType, Aligned DEF BlockAlign

\* The areas below the layout.
LEMMA GivenAreas ==
  ASSUME board \in Boards
  PROVE  /\ BootAlloc \in Nat /\ BootAlloc >= board.bootcode_size
         /\ Section \in Nat /\ Section >= 2 * board.factory_size
         /\ FwTable \in Nat
<1>1. 2 * board.factory_size \in Nat
  BY BoardType
<1>2. BootAlloc \in Nat /\ BootAlloc >= board.bootcode_size
  BY BoardType, BlockAligned DEF BootAlloc
<1>3. Section \in Nat /\ Section >= 2 * board.factory_size
  BY <1>1, BlockAligned DEF Section
<1>4. FwTable \in Nat
  BY BoardType, LayoutAssumption DEF FwTable
<1> QED
  BY <1>2, <1>3, <1>4

\* What LayoutAssumption says of the board at hand.
LEMMA BoardPlan ==
  ASSUME board \in Boards
  PROVE  /\ board.flash_type = "nand" => board.bootcode_start = 0
         /\ board.flash_type = "emmc" => board.factory_start = board.bootcode_size
         /\ board.flash_type = "nor" =>
              board.bootcode_start = 0 /\ 2 * Section <= board.flash_size
BY LayoutAssumption, BoardType DEF Section, BlockAlign

\* The halves of a NOR flash do not overlap, and the factory area lies above both.
LEMMA HalvesApart ==
  ASSUME board \in Boards
  PROVE  /\ HalfStart(1) \in Int /\ HalfStart(2) \in Int
         /\ HalfEnd(1) \in Int /\ HalfEnd(2) \in Int
         /\ HalfEnd(1) <= HalfStart(2)
         /\ Halves => HalfEnd(1) <= board.flash_size - Section
<1> DEFINE h == board.flash_size \div 2
<1>1. h \in Nat /\ h <= board.flash_size /\ 2 * h <= board.flash_size
  BY BoardType, Halved
<1>2. h + h + 1 >= board.flash_size
  BY BoardType
<1>3. /\ AlignMore(h, board.mtd_erasesize) \in Nat /\ AlignMore(h, board.mtd_erasesize) >= h
      /\ AlignLess(h, board.mtd_erasesize) \in Nat /\ AlignLess(h, board.mtd_erasesize) <= h
  BY <1>1, BoardType, Aligned
<1>4. HalfStart(1) \in Int /\ HalfStart(2) \in Int /\ HalfEnd(1) \in Int /\ HalfEnd(2) \in Int
  BY <1>3, BoardType, GivenAreas DEF HalfStart, HalfEnd
<1>5. HalfEnd(1) <= HalfStart(2)
  BY <1>1, <1>3, <1>4 DEF HalfStart, HalfEnd
<1>6. ASSUME Halves PROVE HalfEnd(1) <= board.flash_size - Section
  <2>1. 2 * Section <= board.flash_size
    BY <1>6, BoardPlan DEF Halves
  <2>2. HalfEnd(1) <= h
    BY <1>3 DEF HalfEnd
  <2> HIDE DEF h
  <2> QED
    BY <1>1, <1>4, <2>1, <2>2, BoardType, GivenAreas
<1> QED
  BY <1>4, <1>5, <1>6

\* The limits are numbers, and on NOR the first top is the top of the half or above it.
LEMMA Limits ==
  ASSUME board \in Boards, work \in 0..2, NEW p \in Packages
  PROVE  /\ Bottom(p) \in Int /\ Top(p) \in Int /\ FirstHigh(p) \in Int
         /\ Gap(p) \in Nat
         /\ Top(p) <= FirstHigh(p)
<1>1. Target(work) \in {1, 2}
  BY DEF Target
<1>2. Gap(p) \in Nat
  BY LayoutAssumption DEF Gap
<1>3. Reserved(p) \in Int
  BY <1>2, BoardType, GivenAreas DEF Reserved
<1>4. Bottom(p) \in Int
  BY <1>1, <1>3, HalvesApart DEF Bottom
<1>5. Top(p) \in Int
  BY <1>1, BoardType, GivenAreas, HalvesApart DEF Top
<1>6. FirstHigh(p) \in Int
  BY <1>5, BoardType, GivenAreas DEF FirstHigh
<1>7. Top(p) <= FirstHigh(p)
  <2>1. CASE Halves
    <3>1. Top(p) <= board.flash_size - Section
      <4>1. HalfEnd(2) = board.flash_size - Section
        BY DEF HalfEnd
      <4> QED
        BY <1>1, <2>1, <4>1, BoardType, GivenAreas, HalvesApart DEF Top
    <3> QED
      BY <1>5, <2>1, <3>1 DEF FirstHigh
  <2>2. CASE ~Halves
    BY <1>5, <2>2 DEF FirstHigh
  <2> QED
    BY <2>1, <2>2
<1> QED
  BY <1>2, <1>4, <1>5, <1>6, <1>7

-----------------------------------------------------------------------------
(* Allocations, and the order of the placing.                              *)

Step == [fw : Images, way : {"up", "down", "none"}]

\* The partitions of a package are images that are no firmware.
LEMMA PackageType ==
  ASSUME NEW p \in Packages
  PROVE  /\ p.fw \in [Firmware -> Nat] /\ p.parts \in Seq(Part)
         /\ p.avfile_size \in Nat /\ p.avfile_count \in 0..4
         /\ p.safe_upgrade \in BOOLEAN /\ p.partition_inverse \in BOOLEAN
         /\ p.erase_free_space \in BOOLEAN
BY LayoutAssumption DEF Package

\* Every image gets an allocation.
LEMMA AllocatedType ==
  ASSUME board \in Boards, NEW p \in Packages
  PROVE  Allocated(p) \in [Images -> Nat]
<1>1. ASSUME NEW f \in Firmware PROVE FirmwareAlloc(p, f) \in Nat
  <2>1. p.fw[f] \in Nat
    BY <1>1, PackageType
  <2>2. LogoAlloc(p, f) \in Nat
    BY <2>1, BlockAligned, PackageType DEF LogoAlloc
  <2>3. OwnAlloc(p, f) \in Nat
    BY <2>1, BlockAligned, LayoutAssumption DEF OwnAlloc
  <2> QED
    BY <2>2, <2>3 DEF FirmwareAlloc
<1>2. ASSUME NEW q \in Part PROVE PartAlloc(q) \in Nat
  <2>1. /\ q.efs \in FileSystems /\ q.file \in {"empty", "img", "bz2"}
        /\ q.img \in Nat /\ q.min \in Nat
    BY DEF Part
  <2>2. MinSize(q) \in Nat
    BY <2>1, BoardType DEF MinSize
  <2> QED
    BY <2>1, <2>2, BlockAligned DEF PartAlloc
<1>3. ASSUME NEW f \in Configured(p) PROVE PartOf(p, f) \in Part
  <2>1. PICK n \in DOMAIN p.parts : p.parts[n].fw = f
    BY <1>3 DEF Configured
  <2>2. \A k \in DOMAIN p.parts : p.parts[k] \in Part
    BY PackageType
  <2> QED
    BY <2>1, <2>2 DEF PartOf
<1> QED
  BY <1>1, <1>2, <1>3 DEF Allocated

\* A function of the indices of a list is a list.
LEMMA ListOf ==
  ASSUME NEW S, NEW n \in Nat, NEW f, f \in [1..n -> S]
  PROVE  f \in Seq(S)
OBVIOUS

\* The order is a list of images.
LEMMA OrderType ==
  ASSUME NEW b \in Boards, NEW p \in Packages
  PROVE  Order(b, p) \in Seq(Step)
<1> USE DEF Step, Images, Firmware, Parts, BootFiles, Logos
<1>1. BottomUp \in Seq(Step)
  BY DEF BottomUp, Up
<1>2. Unplaced \in Seq(Step)
  BY DEF Unplaced, Left
<1>3. TopDown(p) \in Seq(Step)
  <2>1. p.parts \in Seq(Part) /\ Len(p.parts) \in Nat /\ DOMAIN p.parts = 1..Len(p.parts)
    BY PackageType
  <2>2. \A n \in 1..Len(p.parts) : p.parts[Len(p.parts) + 1 - n] \in Part
    BY <2>1
  <2>3. \A q \in Part : Down(q.fw) \in Step
    BY DEF Part, Down
  <2>4. TopDown(p) \in [1..Len(p.parts) -> Step]
    BY <2>1, <2>2, <2>3 DEF TopDown
  <2> QED
    BY <2>1, <2>4, ListOf
<1>4. NorUnplaced \in Seq(Step)
  BY DEF NorUnplaced, Left
<1>5. /\ [n \in DOMAIN NorFiles |-> Up(NorFiles[n])] \in Seq(Step)
      /\ [n \in DOMAIN NorFiles |-> Down(NorFiles[n])] \in Seq(Step)
  <2>1. NorFiles \in Seq(Images)
    BY DEF NorFiles
  <2>2. DOMAIN NorFiles = 1..Len(NorFiles) /\ Len(NorFiles) \in Nat
    BY <2>1
  <2>3. \A n \in DOMAIN NorFiles : Up(NorFiles[n]) \in Step /\ Down(NorFiles[n]) \in Step
    BY <2>1 DEF Up, Down
  <2>4. /\ [n \in DOMAIN NorFiles |-> Up(NorFiles[n])] \in [1..Len(NorFiles) -> Step]
        /\ [n \in DOMAIN NorFiles |-> Down(NorFiles[n])] \in [1..Len(NorFiles) -> Step]
    BY <2>2, <2>3
  <2> QED
    BY <2>2, <2>4, ListOf
<1>6. /\ <<Up("P1"), Up("P2"), Up("P3"), Up("P4"), Up("P5")>> \in Seq(Step)
      /\ <<Down("P5"), Down("P4"), Down("P3"), Down("P2"), Down("P1")>> \in Seq(Step)
      /\ <<Up("ETC"), Up("ROOTFS")>> \in Seq(Step)
      /\ <<Down("ETC"), Down("ROOTFS")>> \in Seq(Step)
  BY DEF Up, Down
<1>7. NorOrder(p) \in Seq(Step)
  <2> DEFINE ups == [n \in DOMAIN NorFiles |-> Up(NorFiles[n])]
             downs == [n \in DOMAIN NorFiles |-> Down(NorFiles[n])]
             upParts == <<Up("P1"), Up("P2"), Up("P3"), Up("P4"), Up("P5")>>
             downParts == <<Down("P5"), Down("P4"), Down("P3"), Down("P2"), Down("P1")>>
             upRoots == <<Up("ETC"), Up("ROOTFS")>>
             downRoots == <<Down("ETC"), Down("ROOTFS")>>
  <2>1. NorOrder(p) = IF p.partition_inverse
                      THEN downRoots \o ups \o upParts \o NorUnplaced
                      ELSE downs \o downParts \o upRoots \o NorUnplaced
    BY DEF NorOrder
  <2>2. /\ downRoots \in Seq(Step) /\ ups \in Seq(Step) /\ upParts \in Seq(Step)
        /\ downs \in Seq(Step) /\ downParts \in Seq(Step) /\ upRoots \in Seq(Step)
    BY <1>5, <1>6
  <2> HIDE DEF ups, downs, upParts, downParts, upRoots, downRoots
  <2> QED
    BY <1>4, <2>1, <2>2
<1> QED
  BY <1>1, <1>2, <1>3, <1>7 DEF Order

\* What the placing relies on: the images of the order are images, each is there once.
LEMMA OrderOnce ==
  ASSUME NEW b \in Boards, NEW p \in Packages
  PROVE  /\ Len(Order(b, p)) \in Nat /\ DOMAIN Order(b, p) = 1..Len(Order(b, p))
         /\ \A n \in 1..Len(Order(b, p)) :
              /\ Order(b, p)[n].fw \in Images
              /\ Order(b, p)[n].way \in {"up", "down", "none"}
         /\ \A m, n \in 1..Len(Order(b, p)) :
              Order(b, p)[m].fw = Order(b, p)[n].fw => m = n
<1>1. Order(b, p) \in Seq(Step)
  BY OrderType
<1>2. Len(Order(b, p)) \in Nat /\ DOMAIN Order(b, p) = 1..Len(Order(b, p))
  BY <1>1
<1>3. \A n \in 1..Len(Order(b, p)) : Order(b, p)[n] \in Step
  BY <1>1
<1> QED
  BY <1>2, <1>3, LayoutAssumption DEF Step

-----------------------------------------------------------------------------
(* The inductive invariant.                                                *)

\* The first n images of the order have their places: those placed up lie between the
\* bottom and low, those placed down between high and the top.
Laid(n) ==
  \A m \in 1..n :
    LET f == Order(board, pkg)[m].fw
        way == Order(board, pkg)[m].way
    IN /\ way = "up" => Bottom(pkg) <= place[f] /\ place[f] + alloc[f] <= low
       /\ way = "down" => high <= place[f] /\ place[f] + alloc[f] <= FirstHigh(pkg)

\* Of those placed the same way, no two overlap.
LaidApart(n) ==
  \A m, k \in 1..n :
    LET f == Order(board, pkg)[m].fw
        g == Order(board, pkg)[k].fw
    IN m # k /\ Order(board, pkg)[m].way = Order(board, pkg)[k].way
             /\ Order(board, pkg)[m].way # "none"
       => Apart(place[f], alloc[f], place[g], alloc[g])

\* The sum has counted what lies below low and above high.
Counted ==
  need >= BootAlloc + Section + FwTable + (low - Bottom(pkg)) + (FirstHigh(pkg) - high)

Begun ==
  phase # "idle" =>
    /\ pkg \in Packages /\ ~(board.flash_type = "nand" /\ pkg.safe_upgrade)
    /\ Bottom(pkg) <= low /\ high <= FirstHigh(pkg)
    /\ Counted

Walk ==
  phase = "place" =>
    i \in 1..Len(Order(board, pkg)) + 1 /\ Laid(i - 1) /\ LaidApart(i - 1)

Settled ==
  phase \in Accepted =>
    /\ Laid(Len(Order(board, pkg))) /\ LaidApart(Len(Order(board, pkg)))
    /\ Fits /\ free = FreeSpace

\* The half in use, and what protects it while a package is installed.
Protected ==
  /\ WorkPartWhole
  /\ work # 0 => Halves
  /\ phase \in Accepted \ {"accepted"} /\ ~exposed => Promises(pkg)

IInv == TypeOK /\ Begun /\ Walk /\ Settled /\ Protected

-----------------------------------------------------------------------------
(* What follows from the invariant.                                        *)

\* The space check keeps the images from the bottom below those from the top.
LEMMA Meet ==
  ASSUME TypeOK, Begun, Settled, phase \in Accepted, ~GapUncounted
  PROVE  low <= high
<1>1. /\ board \in Boards /\ work \in 0..2 /\ low \in Int /\ high \in Int /\ need \in Int
  BY DEF TypeOK
<1>2. /\ pkg \in Packages /\ ~(board.flash_type = "nand" /\ pkg.safe_upgrade)
      /\ need >= BootAlloc + Section + FwTable + (low - Bottom(pkg)) + (FirstHigh(pkg) - high)
  BY DEF Begun, Counted, Accepted
<1>3. /\ Bottom(pkg) \in Int /\ Top(pkg) \in Int /\ FirstHigh(pkg) \in Int
      /\ Gap(pkg) \in Nat /\ Top(pkg) <= FirstHigh(pkg)
  BY <1>1, <1>2, Limits
<1>4. /\ BootAlloc \in Nat /\ Section \in Nat /\ FwTable \in Nat
  BY <1>1, GivenAreas
<1>5. CASE pkg.safe_upgrade
  <2>1. need <= Top(pkg) - Bottom(pkg) + BootAlloc + Section
    BY <1>5 DEF Settled, Fits
  <2> QED
    BY <1>1, <1>2, <1>3, <1>4, <2>1
<1>6. CASE ~pkg.safe_upgrade
  <2>1. need <= board.flash_size
    BY <1>6 DEF Settled, Fits
  <2>2. Gap(pkg) = 0
    BY <1>6 DEF GapUncounted
  <2>3. Bottom(pkg) = Reserved(pkg)
    BY <1>6 DEF Bottom
  <2>4. board.flash_size - FirstHigh(pkg) <= Section /\ board.flash_size \in Nat
    BY <1>1, <1>4, <1>6, BoardType DEF FirstHigh, Top
  <2>5. CASE board.flash_type = "nor"
    <3>1. Reserved(pkg) = BootAlloc
      BY <1>1, <1>4, <2>5, BoardPlan DEF Reserved
    <3> QED
      BY <1>1, <1>2, <1>3, <1>4, <2>1, <2>3, <2>4, <3>1
  <2>6. CASE board.flash_type # "nor"
    <3>1. FirstHigh(pkg) = board.flash_size
      BY <2>6 DEF FirstHigh, Top, Halves
    <3>2. Reserved(pkg) <= BootAlloc + Section + FwTable
      <4>1. CASE board.flash_type = "nand"
        BY <1>1, <1>4, <4>1, BoardType, GivenAreas DEF Reserved
      <4>2. CASE board.flash_type = "emmc"
        BY <1>1, <1>4, <2>2, <4>2, BoardType, BoardPlan, GivenAreas DEF Reserved
      <4> QED
        BY <1>1, <2>6, <4>1, <4>2, BoardType
    <3> QED
      BY <1>1, <1>2, <1>3, <1>4, <2>1, <2>3, <2>4, <3>1, <3>2
  <2> QED
    BY <2>5, <2>6
<1> QED
  BY <1>5, <1>6

\* A placed image is one of the order, with its way.
LEMMA PlacedIs ==
  ASSUME TypeOK, Begun, phase # "idle", NEW f \in PlacedImages
  PROVE  \E m \in 1..Len(Order(board, pkg)) :
           /\ Order(board, pkg)[m].fw = f
           /\ Order(board, pkg)[m].way \in {"up", "down"}
<1>1. board \in Boards /\ pkg \in Packages
  BY DEF TypeOK, Begun
<1> QED
  BY <1>1, OrderOnce DEF PlacedImages

\* Accepted images share no room.
LEMMA InvAreas ==
  ASSUME IInv
  PROVE  AreasDisjoint
<1> SUFFICES ASSUME phase \in Accepted, ~GapUncounted,
                    NEW f \in PlacedImages
             PROVE  /\ Bottom(pkg) <= place[f] /\ place[f] + alloc[f] <= FirstHigh(pkg)
                    /\ \A g \in PlacedImages \ {f} :
                         Apart(place[f], alloc[f], place[g], alloc[g])
  BY DEF AreasDisjoint
<1> DEFINE O == Order(board, pkg)
<1>1. phase # "idle"
  BY DEF Accepted
<1>2. /\ board \in Boards /\ work \in 0..2 /\ pkg \in Packages /\ low \in Int /\ high \in Int
      /\ alloc \in [Images -> Nat] /\ place \in [Images -> Int]
  BY <1>1 DEF IInv, TypeOK, Begun
<1>3. Bottom(pkg) <= low /\ high <= FirstHigh(pkg)
  BY <1>1 DEF IInv, Begun
<1>4. low <= high
  BY Meet DEF IInv
<1>5. Bottom(pkg) \in Int /\ FirstHigh(pkg) \in Int
  BY <1>2, Limits
<1>6. Laid(Len(O)) /\ LaidApart(Len(O))
  BY DEF IInv, Settled
<1>7. ASSUME NEW g \in PlacedImages
      PROVE  \E m \in 1..Len(O) : O[m].fw = g /\ O[m].way \in {"up", "down"}
  BY <1>1, <1>7, PlacedIs DEF IInv
<1>8. \A m \in 1..Len(O) : O[m].fw \in Images
  BY <1>2, OrderOnce
<1>9. PICK m \in 1..Len(O) : O[m].fw = f /\ O[m].way \in {"up", "down"}
  BY <1>7
<1>10. /\ O[m].way = "up" => Bottom(pkg) <= place[f] /\ place[f] + alloc[f] <= low
       /\ O[m].way = "down" => high <= place[f] /\ place[f] + alloc[f] <= FirstHigh(pkg)
  BY <1>6, <1>9 DEF Laid
<1>11. place[f] \in Int /\ alloc[f] \in Nat
  BY <1>2, <1>8, <1>9
<1>12. Bottom(pkg) <= place[f] /\ place[f] + alloc[f] <= FirstHigh(pkg)
  BY <1>2, <1>3, <1>4, <1>5, <1>9, <1>10, <1>11
<1>13. ASSUME NEW g \in PlacedImages \ {f}
       PROVE  Apart(place[f], alloc[f], place[g], alloc[g])
  <2>1. PICK k \in 1..Len(O) : O[k].fw = g /\ O[k].way \in {"up", "down"}
    BY <1>7, <1>13
  <2>2. /\ O[k].way = "up" => Bottom(pkg) <= place[g] /\ place[g] + alloc[g] <= low
        /\ O[k].way = "down" => high <= place[g] /\ place[g] + alloc[g] <= FirstHigh(pkg)
    BY <1>6, <2>1 DEF Laid
  <2>3. place[g] \in Int /\ alloc[g] \in Nat
    BY <1>2, <1>8, <2>1
  <2>4. CASE O[m].way = O[k].way
    BY <1>6, <1>9, <1>13, <2>1, <2>4 DEF LaidApart
  <2>5. CASE O[m].way # O[k].way
    <3>1. CASE O[m].way = "up" /\ O[k].way = "down"
      <4>1. place[f] + alloc[f] <= low /\ high <= place[g]
        BY <1>10, <2>2, <3>1
      <4> QED
        BY <1>2, <1>4, <1>11, <2>3, <4>1 DEF Apart
    <3>2. CASE O[m].way = "down" /\ O[k].way = "up"
      <4>1. place[g] + alloc[g] <= low /\ high <= place[f]
        BY <1>10, <2>2, <3>2
      <4> QED
        BY <1>2, <1>4, <1>11, <2>3, <4>1 DEF Apart
    <3> QED
      BY <1>9, <2>1, <2>5, <3>1, <3>2
  <2> QED
    BY <2>4, <2>5
<1> QED
  BY <1>12, <1>13

\* The free space is no image's room.
LEMMA InvFree ==
  ASSUME IInv
  PROVE  FreeSpaceFree
<1> SUFFICES ASSUME phase \in Accepted, NEW f \in PlacedImages, free.size # 0
             PROVE  Apart(free.start, free.size, place[f], alloc[f])
  BY DEF FreeSpaceFree
<1> DEFINE O == Order(board, pkg)
<1>1. phase # "idle"
  BY DEF Accepted
<1>2. /\ board \in Boards /\ pkg \in Packages /\ low \in Int /\ high \in Int
      /\ alloc \in [Images -> Nat] /\ place \in [Images -> Int]
  BY <1>1 DEF IInv, TypeOK, Begun
<1>3. PICK m \in 1..Len(O) : O[m].fw = f /\ O[m].way \in {"up", "down"}
  BY <1>1, PlacedIs DEF IInv
<1>4. /\ O[m].way = "up" => Bottom(pkg) <= place[f] /\ place[f] + alloc[f] <= low
      /\ O[m].way = "down" => high <= place[f] /\ place[f] + alloc[f] <= FirstHigh(pkg)
  BY <1>3 DEF IInv, Settled, Laid
<1>5. place[f] \in Int /\ alloc[f] \in Nat
  BY <1>2, <1>3, OrderOnce
<1>6. free.start = low /\ free.size = high - low
  BY DEF IInv, Settled, FreeSpace, Nowhere
<1> QED
  BY <1>2, <1>3, <1>4, <1>5, <1>6 DEF Apart

-----------------------------------------------------------------------------
(* The initial states and the steps of the placing.                        *)

\* As long as the board and its boot table stay, the limits are functions of the package.
LEMMA SameBoard ==
  ASSUME board' = board, work' = work
  PROVE  /\ Bottom(pkg)' = Bottom(pkg') /\ FirstHigh(pkg)' = FirstHigh(pkg')
         /\ Top(pkg)' = Top(pkg')
         /\ BootAlloc' = BootAlloc /\ Section' = Section /\ FwTable' = FwTable
         /\ Halves' = Halves
         /\ HalfStart(1)' = HalfStart(1) /\ HalfStart(2)' = HalfStart(2)
         /\ HalfEnd(1)' = HalfEnd(1) /\ HalfEnd(2)' = HalfEnd(2)
<1>1. /\ BootAlloc' = BootAlloc /\ Section' = Section /\ FwTable' = FwTable /\ Halves' = Halves
  BY DEF BootAlloc, Section, FwTable, Halves, BlockAlign
<1>2. /\ HalfStart(1)' = HalfStart(1) /\ HalfStart(2)' = HalfStart(2)
      /\ HalfEnd(1)' = HalfEnd(1) /\ HalfEnd(2)' = HalfEnd(2)
  BY <1>1 DEF HalfStart, HalfEnd
<1>3. Reserved(pkg)' = Reserved(pkg') /\ HalfStart(Target(work))' = HalfStart(Target(work))
      /\ HalfEnd(Target(work))' = HalfEnd(Target(work))
  BY <1>1, <1>2 DEF Reserved, Gap, Target
<1>4. Bottom(pkg)' = Bottom(pkg') /\ Top(pkg)' = Top(pkg')
  BY <1>1, <1>3 DEF Bottom, Top
<1>5. FirstHigh(pkg)' = FirstHigh(pkg')
  BY <1>1, <1>4 DEF FirstHigh
<1> QED
  BY <1>1, <1>2, <1>4, <1>5

\* Nothing is in use at first.
LEMMA InitInv ==
  ASSUME Init
  PROVE  IInv
<1>1. TypeOK
  <2>1. /\ board \in Boards /\ pkg \in Packages \cup {NoPackage}
        /\ phase \in Accepted \cup {"idle", "place"}
    BY DEF Init
  <2>2. alloc \in [Images -> Nat] /\ place \in [Images -> Int]
    <3>1. alloc = [f \in Images |-> 0] /\ place = [f \in Images |-> 0]
      BY DEF Init
    <3> QED
      BY <3>1
  <2>3. /\ i \in Nat /\ low \in Int /\ high \in Int /\ need \in Int
        /\ free \in [start : Int, size : Int]
    BY DEF Init, Nowhere
  <2>4. work \in 0..2 /\ half \in [1..2 -> {"none", "torn", "whole"}]
    <3>1. work = 0 /\ half = [h \in 1..2 |-> "none"]
      BY DEF Init
    <3> QED
      BY <3>1
  <2>5. exposed \in BOOLEAN
    BY DEF Init
  <2> QED
    BY <2>1, <2>2, <2>3, <2>4, <2>5 DEF TypeOK
<1>2. Begun /\ Walk /\ Settled
  BY DEF Init, Begun, Walk, Settled, Accepted
<1>3. Protected
  BY DEF Init, Protected, WorkPartWhole, Accepted
<1> QED
  BY <1>1, <1>2, <1>3 DEF IInv

\* Filling in the descriptor begins the walk.
LEMMA FillInv ==
  ASSUME IInv, NEW p \in Packages, Fill(p)
  PROVE  IInv'
<1>1. /\ phase = "idle" /\ ~Refused(p) /\ pkg' = p /\ phase' = "place"
      /\ alloc' = Allocated(p) /\ place' = [f \in Images |-> 0] /\ i' = 1
      /\ low' = Bottom(p) /\ high' = FirstHigh(p)
      /\ need' = BootAlloc + Section + FwTable /\ free' = Nowhere
      /\ board' = board /\ work' = work /\ half' = half /\ exposed' = exposed
  BY DEF Fill, boardVars
<1>2. board \in Boards /\ work \in 0..2
  BY DEF IInv, TypeOK
<1>3. /\ Bottom(p) \in Int /\ FirstHigh(p) \in Int
      /\ BootAlloc \in Nat /\ Section \in Nat /\ FwTable \in Nat
  BY <1>2, Limits, GivenAreas
<1>4. TypeOK'
  <2>1. alloc' \in [Images -> Nat]
    BY <1>1, <1>2, AllocatedType
  <2>2. low' \in Int /\ high' \in Int /\ need' \in Int /\ i' \in Nat
    BY <1>1, <1>3
  <2>3. place' \in [Images -> Int] /\ free' \in [start : Int, size : Int]
    BY <1>1 DEF Nowhere
  <2> QED
    BY <1>1, <2>1, <2>2, <2>3 DEF IInv, TypeOK
<1>5. Begun'
  <2>1. ~(board.flash_type = "nand" /\ p.safe_upgrade)
    BY <1>1 DEF Refused
  <2>2. Bottom(pkg)' = low' /\ FirstHigh(pkg)' = high'
    BY <1>1, SameBoard
  <2>3. Counted'
    BY <1>1, <1>3, <2>2, SameBoard DEF Counted
  <2>4. Bottom(pkg)' <= low' /\ high' <= FirstHigh(pkg)'
    BY <1>1, <1>3, <2>2
  <2> QED
    BY <1>1, <2>1, <2>3, <2>4 DEF Begun
<1>6. Walk'
  <2>1. i' \in 1..Len(Order(board', pkg')) + 1
    BY <1>1, <1>2, OrderOnce
  <2>2. Laid(i - 1)' /\ LaidApart(i - 1)'
    BY <1>1 DEF Laid, LaidApart
  <2> QED
    BY <2>1, <2>2 DEF Walk
<1>7. Settled'
  BY <1>1 DEF Settled, Accepted
<1>8. Protected'
  BY <1>1, SameBoard DEF IInv, Protected, WorkPartWhole, Accepted
<1> QED
  BY <1>4, <1>5, <1>6, <1>7, <1>8 DEF IInv

\* What the three steps of the placing have in common.
LEMMA PlacingFacts ==
  ASSUME IInv, NEW way, Placing(way)
  PROVE  /\ phase = "place" /\ phase' = "place"
         /\ board' = board /\ pkg' = pkg /\ alloc' = alloc /\ free' = free
         /\ work' = work /\ half' = half /\ exposed' = exposed
         /\ board \in Boards /\ pkg \in Packages /\ work \in 0..2
         /\ i \in 1..Len(Order(board, pkg)) /\ i' = i + 1
         /\ Len(Order(board, pkg)) \in Nat
         /\ Image \in Images /\ alloc[Image] \in Nat
         /\ Order(board, pkg)[i].fw = Image /\ Order(board, pkg)[i].way = way
         /\ \A m \in 1..i - 1 :
              /\ m \in 1..Len(Order(board, pkg)) /\ Order(board, pkg)[m].fw \in Images
              /\ Order(board, pkg)[m].fw # Image
<1>1. /\ phase = "place" /\ i <= Len(Order(board, pkg)) /\ i' = i + 1
      /\ Order(board, pkg)[i].way = way
      /\ board' = board /\ pkg' = pkg /\ phase' = phase /\ alloc' = alloc /\ free' = free
      /\ work' = work /\ half' = half /\ exposed' = exposed
  BY DEF Placing, boardVars
<1>2. board \in Boards /\ pkg \in Packages /\ work \in 0..2 /\ alloc \in [Images -> Nat]
  BY <1>1 DEF IInv, TypeOK, Begun
<1>3. Len(Order(board, pkg)) \in Nat
  BY <1>2, OrderOnce
<1>4. i \in 1..Len(Order(board, pkg))
  <2>1. i \in 1..Len(Order(board, pkg)) + 1
    BY <1>1 DEF IInv, Walk
  <2> QED
    BY <1>1, <1>3, <2>1
<1>5. Image \in Images /\ Order(board, pkg)[i].fw = Image
  BY <1>2, <1>4, OrderOnce DEF Image
<1>6. \A m \in 1..i - 1 : m \in 1..Len(Order(board, pkg)) /\ m # i
  BY <1>3, <1>4
<1>7. \A m \in 1..i - 1 :
        Order(board, pkg)[m].fw \in Images /\ Order(board, pkg)[m].fw # Image
  BY <1>2, <1>4, <1>5, <1>6, OrderOnce
<1> QED
  BY <1>1, <1>2, <1>3, <1>4, <1>5, <1>6, <1>7

\* An image adds to the sum what it takes from the room between low and high.
LEMMA Grows ==
  ASSUME NEW n \in Int, NEW g \in Int, NEW l \in Int, NEW b \in Int, NEW t \in Int,
         NEW h \in Int, NEW a \in Nat, n >= g + (l - b) + (t - h)
  PROVE  /\ n + a >= g + ((l + a) - b) + (t - h)
         /\ n + a >= g + (l - b) + (t - (h - a))
         /\ n + a >= g + (l - b) + (t - h)
OBVIOUS

\* An image placed up goes behind all those before it.
LEMMA PlaceUpInv ==
  ASSUME IInv, PlaceUp
  PROVE  IInv'
<1> DEFINE O == Order(board, pkg)
<1>1. /\ Placing("up") /\ place' = [place EXCEPT ![Image] = low]
      /\ low' = low + alloc[Image] /\ need' = need + alloc[Image] /\ high' = high
  BY DEF PlaceUp
<1>2. /\ phase = "place" /\ phase' = "place"
      /\ board' = board /\ pkg' = pkg /\ alloc' = alloc /\ free' = free
      /\ work' = work /\ half' = half /\ exposed' = exposed
      /\ board \in Boards /\ pkg \in Packages /\ work \in 0..2
      /\ i \in 1..Len(O) /\ i' = i + 1 /\ Len(O) \in Nat
      /\ Image \in Images /\ alloc[Image] \in Nat /\ O[i].fw = Image /\ O[i].way = "up"
  BY <1>1, PlacingFacts
<1>3. \A m \in 1..i - 1 : m \in 1..Len(O) /\ O[m].fw \in Images /\ O[m].fw # Image
  BY <1>1, PlacingFacts
<1>4. /\ low \in Int /\ high \in Int /\ need \in Int
      /\ alloc \in [Images -> Nat] /\ place \in [Images -> Int]
  BY DEF IInv, TypeOK
<1>5. Bottom(pkg) \in Int /\ FirstHigh(pkg) \in Int
  BY <1>2, Limits
<1>6. /\ Bottom(pkg)' = Bottom(pkg) /\ FirstHigh(pkg)' = FirstHigh(pkg)
      /\ BootAlloc' = BootAlloc /\ Section' = Section /\ FwTable' = FwTable
  BY <1>2, SameBoard
<1>7. /\ Bottom(pkg) <= low /\ high <= FirstHigh(pkg)
      /\ need >= BootAlloc + Section + FwTable + (low - Bottom(pkg)) + (FirstHigh(pkg) - high)
  BY <1>2 DEF IInv, Begun, Counted
<1>8. Laid(i - 1) /\ LaidApart(i - 1)
  BY <1>2 DEF IInv, Walk
<1>9. /\ place'[Image] = low
      /\ \A m \in 1..i - 1 : place'[O[m].fw] = place[O[m].fw]
  BY <1>1, <1>2, <1>3, <1>4
<1>10. TypeOK'
  <2>1. low' \in Int /\ need' \in Int /\ high' \in Int /\ i' \in Nat
    BY <1>1, <1>2, <1>4
  <2>2. place' \in [Images -> Int]
    BY <1>1, <1>2, <1>4
  <2> QED
    BY <1>2, <2>1, <2>2 DEF IInv, TypeOK
<1>11. Begun'
  <2>1. Counted'
    <3>1. BootAlloc \in Nat /\ Section \in Nat /\ FwTable \in Nat
      BY <1>2, GivenAreas
    <3>2. BootAlloc + Section + FwTable \in Int
      BY <3>1
    <3>3. need + alloc[Image] >= BootAlloc + Section + FwTable
             + ((low + alloc[Image]) - Bottom(pkg)) + (FirstHigh(pkg) - high)
      BY <1>2, <1>4, <1>5, <1>7, <3>2, Grows
    <3> QED
      BY <1>1, <1>6, <3>3 DEF Counted
  <2>2. Bottom(pkg)' <= low' /\ high' <= FirstHigh(pkg)'
    <3>1. Bottom(pkg) <= low /\ high <= FirstHigh(pkg)
      BY <1>7
    <3>2. low' \in Int /\ low <= low' /\ high' = high
      BY <1>1, <1>2, <1>4
    <3>3. Bottom(pkg) <= low' /\ high' <= FirstHigh(pkg)
      BY <1>4, <1>5, <3>1, <3>2
    <3> QED
      BY <1>6, <3>3
  <2>3. ~(board'.flash_type = "nand" /\ pkg'.safe_upgrade)
    BY <1>2 DEF IInv, Begun
  <2> QED
    BY <1>2, <2>1, <2>2, <2>3 DEF Begun
<1>12. Walk'
  <2>1. i' \in 1..Len(O) + 1 /\ i' - 1 = i
    BY <1>2
  <2>2. ASSUME NEW m \in 1..i
        PROVE  /\ O[m].way = "up" =>
                    Bottom(pkg) <= place'[O[m].fw] /\ place'[O[m].fw] + alloc[O[m].fw] <= low'
               /\ O[m].way = "down" =>
                    high <= place'[O[m].fw]
                    /\ place'[O[m].fw] + alloc[O[m].fw] <= FirstHigh(pkg)
    <3>1. CASE m = i
      <4>1. O[m].fw = Image /\ O[m].way = "up" /\ place'[O[m].fw] = low
        BY <1>2, <1>9, <3>1
      <4>2. Bottom(pkg) <= low /\ low + alloc[Image] <= low'
        BY <1>1, <1>2, <1>4, <1>7
      <4> QED
        BY <4>1, <4>2
    <3>2. CASE m \in 1..i - 1
      <4>1. /\ O[m].way = "up" =>
                 Bottom(pkg) <= place[O[m].fw] /\ place[O[m].fw] + alloc[O[m].fw] <= low
            /\ O[m].way = "down" =>
                 high <= place[O[m].fw] /\ place[O[m].fw] + alloc[O[m].fw] <= FirstHigh(pkg)
        BY <1>8, <3>2 DEF Laid
      <4>2. /\ place[O[m].fw] \in Int /\ alloc[O[m].fw] \in Nat
            /\ low <= low' /\ low' \in Int
        <5>1. O[m].fw \in Images
          BY <1>3, <3>2
        <5>2. place[O[m].fw] \in Int /\ alloc[O[m].fw] \in Nat
          BY <1>4, <5>1
        <5>3. low <= low' /\ low' \in Int
          BY <1>1, <1>2, <1>4
        <5> QED
          BY <5>2, <5>3
      <4>3. O[m].way = "up" => place[O[m].fw] + alloc[O[m].fw] <= low'
        BY <1>4, <4>1, <4>2
      <4> QED
        BY <1>9, <3>2, <4>1, <4>3
    <3> QED
      BY <1>2, <3>1, <3>2
  <2>3. ASSUME NEW m \in 1..i - 1, O[m].way = "up"
        PROVE  place'[O[m].fw] + alloc[O[m].fw] <= place'[Image]
    BY <1>8, <1>9, <2>3 DEF Laid
  <2>4. ASSUME NEW m \in 1..i, NEW k \in 1..i, m # k, O[m].way = O[k].way, O[m].way # "none"
        PROVE  Apart(place'[O[m].fw], alloc[O[m].fw], place'[O[k].fw], alloc[O[k].fw])
    <3>1. CASE m = i
      <4>1. k \in 1..i - 1 /\ O[k].way = "up"
        BY <1>2, <2>4, <3>1
      <4> QED
        BY <1>2, <2>3, <3>1, <4>1 DEF Apart
    <3>2. CASE k = i
      <4>1. m \in 1..i - 1 /\ O[m].way = "up"
        BY <1>2, <2>4, <3>2
      <4> QED
        BY <1>2, <2>3, <3>2, <4>1 DEF Apart
    <3>3. CASE m # i /\ k # i
      <4>1. m \in 1..i - 1 /\ k \in 1..i - 1
        BY <1>2, <3>3
      <4> QED
        BY <1>8, <1>9, <2>4, <4>1 DEF LaidApart
    <3> QED
      BY <3>1, <3>2, <3>3
  <2>5. Laid(i - 1)'
    BY <1>1, <1>2, <1>6, <2>1, <2>2 DEF Laid
  <2>6. LaidApart(i - 1)'
    BY <1>2, <2>1, <2>4 DEF LaidApart, Apart
  <2> QED
    BY <1>2, <2>1, <2>5, <2>6 DEF Walk
<1>13. Settled'
  BY <1>2 DEF Settled, Accepted
<1>14. Protected'
  BY <1>2, SameBoard DEF IInv, Protected, WorkPartWhole, Accepted
<1> QED
  BY <1>10, <1>11, <1>12, <1>13, <1>14 DEF IInv
\* An image placed down ends where all those before it begin.
LEMMA PlaceDownInv ==
  ASSUME IInv, PlaceDown
  PROVE  IInv'
<1> DEFINE O == Order(board, pkg)
<1>1. /\ Placing("down") /\ place' = [place EXCEPT ![Image] = high - alloc[Image]]
      /\ high' = high - alloc[Image] /\ need' = need + alloc[Image] /\ low' = low
  BY DEF PlaceDown
<1>2. /\ phase = "place" /\ phase' = "place"
      /\ board' = board /\ pkg' = pkg /\ alloc' = alloc /\ free' = free
      /\ work' = work /\ half' = half /\ exposed' = exposed
      /\ board \in Boards /\ pkg \in Packages /\ work \in 0..2
      /\ i \in 1..Len(O) /\ i' = i + 1 /\ Len(O) \in Nat
      /\ Image \in Images /\ alloc[Image] \in Nat /\ O[i].fw = Image /\ O[i].way = "down"
  BY <1>1, PlacingFacts
<1>3. \A m \in 1..i - 1 : m \in 1..Len(O) /\ O[m].fw \in Images /\ O[m].fw # Image
  BY <1>1, PlacingFacts
<1>4. /\ low \in Int /\ high \in Int /\ need \in Int
      /\ alloc \in [Images -> Nat] /\ place \in [Images -> Int]
  BY DEF IInv, TypeOK
<1>5. Bottom(pkg) \in Int /\ FirstHigh(pkg) \in Int
  BY <1>2, Limits
<1>6. /\ Bottom(pkg)' = Bottom(pkg) /\ FirstHigh(pkg)' = FirstHigh(pkg)
      /\ BootAlloc' = BootAlloc /\ Section' = Section /\ FwTable' = FwTable
  BY <1>2, SameBoard
<1>7. /\ Bottom(pkg) <= low /\ high <= FirstHigh(pkg)
      /\ need >= BootAlloc + Section + FwTable + (low - Bottom(pkg)) + (FirstHigh(pkg) - high)
  BY <1>2 DEF IInv, Begun, Counted
<1>8. Laid(i - 1) /\ LaidApart(i - 1)
  BY <1>2 DEF IInv, Walk
<1>9. /\ place'[Image] = high'
      /\ \A m \in 1..i - 1 : place'[O[m].fw] = place[O[m].fw]
  BY <1>1, <1>2, <1>3, <1>4
<1>10. TypeOK'
  <2>1. low' \in Int /\ need' \in Int /\ high' \in Int /\ i' \in Nat
    BY <1>1, <1>2, <1>4
  <2>2. place' \in [Images -> Int]
    BY <1>1, <1>2, <1>4
  <2> QED
    BY <1>2, <2>1, <2>2 DEF IInv, TypeOK
<1>11. Begun'
  <2>1. Counted'
    <3>1. BootAlloc \in Nat /\ Section \in Nat /\ FwTable \in Nat
      BY <1>2, GivenAreas
    <3>2. BootAlloc + Section + FwTable \in Int
      BY <3>1
    <3>3. need + alloc[Image] >= BootAlloc + Section + FwTable
             + (low - Bottom(pkg)) + (FirstHigh(pkg) - (high - alloc[Image]))
      BY <1>2, <1>4, <1>5, <1>7, <3>2, Grows
    <3> QED
      BY <1>1, <1>6, <3>3 DEF Counted
  <2>2. Bottom(pkg)' <= low' /\ high' <= FirstHigh(pkg)'
    <3>1. Bottom(pkg) <= low /\ high <= FirstHigh(pkg)
      BY <1>7
    <3>2. high' \in Int /\ high' <= high /\ low' = low
      BY <1>1, <1>2, <1>4
    <3>3. Bottom(pkg) <= low' /\ high' <= FirstHigh(pkg)
      BY <1>4, <1>5, <3>1, <3>2
    <3> QED
      BY <1>6, <3>3
  <2>3. ~(board'.flash_type = "nand" /\ pkg'.safe_upgrade)
    BY <1>2 DEF IInv, Begun
  <2> QED
    BY <1>2, <2>1, <2>2, <2>3 DEF Begun
<1>12. Walk'
  <2>1. i' \in 1..Len(O) + 1 /\ i' - 1 = i
    BY <1>2
  <2>2. ASSUME NEW m \in 1..i
        PROVE  /\ O[m].way = "up" =>
                    Bottom(pkg) <= place'[O[m].fw] /\ place'[O[m].fw] + alloc[O[m].fw] <= low'
               /\ O[m].way = "down" =>
                    high' <= place'[O[m].fw]
                    /\ place'[O[m].fw] + alloc[O[m].fw] <= FirstHigh(pkg)
    <3>1. CASE m = i
      <4>1. O[m].fw = Image /\ O[m].way = "down" /\ place'[O[m].fw] = high'
        BY <1>2, <1>9, <3>1
      <4>2. high' \in Int /\ high' <= high' /\ high' + alloc[Image] = high
        BY <1>1, <1>2, <1>4
      <4>3. high <= FirstHigh(pkg)
        BY <1>7
      <4> QED
        BY <1>4, <1>5, <4>1, <4>2, <4>3
    <3>2. CASE m \in 1..i - 1
      <4>1. /\ O[m].way = "up" =>
                 Bottom(pkg) <= place[O[m].fw] /\ place[O[m].fw] + alloc[O[m].fw] <= low
            /\ O[m].way = "down" =>
                 high <= place[O[m].fw] /\ place[O[m].fw] + alloc[O[m].fw] <= FirstHigh(pkg)
        BY <1>8, <3>2 DEF Laid
      <4>2. /\ place[O[m].fw] \in Int /\ alloc[O[m].fw] \in Nat
            /\ high' <= high /\ high' \in Int
        <5>1. O[m].fw \in Images
          BY <1>3, <3>2
        <5>2. place[O[m].fw] \in Int /\ alloc[O[m].fw] \in Nat
          BY <1>4, <5>1
        <5>3. high' <= high /\ high' \in Int
          BY <1>1, <1>2, <1>4
        <5> QED
          BY <5>2, <5>3
      <4>3. O[m].way = "down" => high' <= place[O[m].fw]
        BY <1>4, <4>1, <4>2
      <4> QED
        BY <1>1, <1>9, <3>2, <4>1, <4>3
    <3> QED
      BY <1>2, <3>1, <3>2
  <2>3. ASSUME NEW m \in 1..i - 1, O[m].way = "down"
        PROVE  place'[Image] + alloc[Image] <= place'[O[m].fw]
    <3>1. high <= place[O[m].fw]
      BY <1>8, <2>3 DEF Laid
    <3>2. place'[Image] + alloc[Image] = high
      BY <1>1, <1>2, <1>4, <1>9
    <3> QED
      BY <1>9, <3>1, <3>2
  <2>4. ASSUME NEW m \in 1..i, NEW k \in 1..i, m # k, O[m].way = O[k].way, O[m].way # "none"
        PROVE  Apart(place'[O[m].fw], alloc[O[m].fw], place'[O[k].fw], alloc[O[k].fw])
    <3>1. CASE m = i
      <4>1. k \in 1..i - 1 /\ O[k].way = "down"
        BY <1>2, <2>4, <3>1
      <4> QED
        BY <1>2, <2>3, <3>1, <4>1 DEF Apart
    <3>2. CASE k = i
      <4>1. m \in 1..i - 1 /\ O[m].way = "down"
        BY <1>2, <2>4, <3>2
      <4> QED
        BY <1>2, <2>3, <3>2, <4>1 DEF Apart
    <3>3. CASE m # i /\ k # i
      <4>1. m \in 1..i - 1 /\ k \in 1..i - 1
        BY <1>2, <3>3
      <4> QED
        BY <1>8, <1>9, <2>4, <4>1 DEF LaidApart
    <3> QED
      BY <3>1, <3>2, <3>3
  <2>5. Laid(i - 1)'
    BY <1>1, <1>2, <1>6, <2>1, <2>2 DEF Laid
  <2>6. LaidApart(i - 1)'
    BY <1>2, <2>1, <2>4 DEF LaidApart, Apart
  <2> QED
    BY <1>2, <2>1, <2>5, <2>6 DEF Walk
<1>13. Settled'
  BY <1>2 DEF Settled, Accepted
<1>14. Protected'
  BY <1>2, SameBoard DEF IInv, Protected, WorkPartWhole, Accepted
<1> QED
  BY <1>10, <1>11, <1>12, <1>13, <1>14 DEF IInv

\* An image without a place only adds to the sum.
LEMMA LeaveUnplacedInv ==
  ASSUME IInv, LeaveUnplaced
  PROVE  IInv'
<1> DEFINE O == Order(board, pkg)
<1>1. /\ Placing("none") /\ need' = need + alloc[Image]
      /\ place' = place /\ low' = low /\ high' = high
  BY DEF LeaveUnplaced
<1>2. /\ phase = "place" /\ phase' = "place"
      /\ board' = board /\ pkg' = pkg /\ alloc' = alloc /\ free' = free
      /\ work' = work /\ half' = half /\ exposed' = exposed
      /\ board \in Boards /\ pkg \in Packages /\ work \in 0..2
      /\ i \in 1..Len(O) /\ i' = i + 1 /\ Len(O) \in Nat
      /\ Image \in Images /\ alloc[Image] \in Nat /\ O[i].fw = Image /\ O[i].way = "none"
  BY <1>1, PlacingFacts
<1>3. low \in Int /\ high \in Int /\ need \in Int
  BY DEF IInv, TypeOK
<1>4. Bottom(pkg) \in Int /\ FirstHigh(pkg) \in Int
  BY <1>2, Limits
<1>5. /\ Bottom(pkg)' = Bottom(pkg) /\ FirstHigh(pkg)' = FirstHigh(pkg)
      /\ BootAlloc' = BootAlloc /\ Section' = Section /\ FwTable' = FwTable
  BY <1>2, SameBoard
<1>6. TypeOK'
  <2>1. need' \in Int /\ i' \in Nat
    BY <1>1, <1>2, <1>3
  <2> QED
    BY <1>1, <1>2, <2>1 DEF IInv, TypeOK
<1>7. Begun'
  <2>1. Counted'
    <3>1. BootAlloc \in Nat /\ Section \in Nat /\ FwTable \in Nat
      BY <1>2, GivenAreas
    <3>2. need >= BootAlloc + Section + FwTable + (low - Bottom(pkg)) + (FirstHigh(pkg) - high)
      BY <1>2 DEF IInv, Begun, Counted
    <3>3. BootAlloc + Section + FwTable \in Int
      BY <3>1
    <3>4. need + alloc[Image] >= BootAlloc + Section + FwTable
             + (low - Bottom(pkg)) + (FirstHigh(pkg) - high)
      BY <1>2, <1>3, <1>4, <3>2, <3>3, Grows
    <3> QED
      BY <1>1, <1>5, <3>4 DEF Counted
  <2> QED
    BY <1>1, <1>2, <1>5, <2>1 DEF IInv, Begun
<1>8. Walk'
  <2>1. i' \in 1..Len(O) + 1 /\ i' - 1 = i
    BY <1>2
  <2>2. Laid(i - 1) /\ LaidApart(i - 1)
    BY <1>2 DEF IInv, Walk
  <2>3. \A m \in 1..i : O[m].way # "none" => m \in 1..i - 1
    BY <1>2
  <2>4. Laid(i - 1)'
    BY <1>1, <1>2, <1>5, <2>1, <2>2, <2>3 DEF Laid
  <2>5. LaidApart(i - 1)'
    BY <1>1, <1>2, <2>1, <2>2, <2>3 DEF LaidApart, Apart
  <2> QED
    BY <1>2, <2>1, <2>4, <2>5 DEF Walk
<1>9. Settled'
  BY <1>2 DEF Settled, Accepted
<1>10. Protected'
  BY <1>2, SameBoard DEF IInv, Protected, WorkPartWhole, Accepted
<1> QED
  BY <1>6, <1>7, <1>8, <1>9, <1>10 DEF IInv

-----------------------------------------------------------------------------
(* What is done with an accepted layout.                                   *)

\* The space check turns what was walked into what is settled.
LEMMA AcceptInv ==
  ASSUME IInv, Accept
  PROVE  IInv'
<1>1. /\ phase = "place" /\ i > Len(Order(board, pkg)) /\ Fits
      /\ phase' = "accepted" /\ free' = FreeSpace
      /\ board' = board /\ pkg' = pkg /\ alloc' = alloc /\ place' = place /\ i' = i
      /\ low' = low /\ high' = high /\ need' = need
      /\ work' = work /\ half' = half /\ exposed' = exposed
  BY DEF Accept, Placed, boardVars
<1>2. /\ board \in Boards /\ pkg \in Packages /\ low \in Int /\ high \in Int
  BY <1>1 DEF IInv, TypeOK, Begun
<1>3. i - 1 = Len(Order(board, pkg))
  <2>1. i \in 1..Len(Order(board, pkg)) + 1
    BY <1>1 DEF IInv, Walk
  <2>2. Len(Order(board, pkg)) \in Nat
    BY <1>2, OrderOnce
  <2> QED
    BY <1>1, <2>1, <2>2
<1>4. /\ Bottom(pkg)' = Bottom(pkg) /\ FirstHigh(pkg)' = FirstHigh(pkg) /\ Top(pkg)' = Top(pkg)
      /\ BootAlloc' = BootAlloc /\ Section' = Section /\ FwTable' = FwTable
  BY <1>1, SameBoard
<1>5. TypeOK'
  <2>1. free' \in [start : Int, size : Int]
    BY <1>1, <1>2 DEF FreeSpace, Nowhere
  <2>2. phase' \in Accepted \cup {"idle", "place"}
    BY <1>1 DEF Accepted
  <2> QED
    BY <1>1, <2>1, <2>2 DEF IInv, TypeOK
<1>6. Begun'
  BY <1>1, <1>4 DEF IInv, Begun, Counted
<1>7. Walk'
  BY <1>1 DEF Walk
<1>8. Settled'
  <2>1. Laid(Len(Order(board, pkg))) /\ LaidApart(Len(Order(board, pkg)))
    BY <1>1, <1>3 DEF IInv, Walk
  <2>2. Laid(Len(Order(board, pkg)))' /\ LaidApart(Len(Order(board, pkg)))'
    BY <1>1, <1>4, <2>1 DEF Laid, LaidApart, Apart
  <2>3. Fits'
    BY <1>1, <1>4 DEF Fits
  <2>4. free' = FreeSpace'
    BY <1>1 DEF FreeSpace
  <2> QED
    BY <2>2, <2>3, <2>4 DEF Settled
<1>9. Protected'
  BY <1>1, SameBoard DEF IInv, Protected, WorkPartWhole
<1> QED
  BY <1>5, <1>6, <1>7, <1>8, <1>9 DEF IInv

\* When the program ends, only what the board keeps matters.
LEMMA ExitInv ==
  ASSUME IInv, Exit, work' \in 0..2, half' \in [1..2 -> {"none", "torn", "whole"}],
         exposed' \in BOOLEAN, WorkPartWhole', work' # 0 => Halves
  PROVE  IInv'
<1>1. TypeOK'
  <2>1. /\ phase' = "idle" /\ pkg' = NoPackage /\ board' = board
        /\ alloc' = [f \in Images |-> 0] /\ place' = [f \in Images |-> 0]
        /\ i' = 1 /\ low' = 0 /\ high' = 0 /\ need' = 0 /\ free' = Nowhere
    BY DEF Exit
  <2>2. alloc' \in [Images -> Nat] /\ place' \in [Images -> Int]
    BY <2>1
  <2>3. free' \in [start : Int, size : Int]
    BY <2>1 DEF Nowhere
  <2>4. i' \in Nat /\ low' \in Int /\ high' \in Int /\ need' \in Int
    BY <2>1
  <2>5. board' \in Boards
    BY <2>1 DEF IInv, TypeOK
  <2> QED
    BY <2>1, <2>2, <2>3, <2>4, <2>5 DEF TypeOK
<1>2. Begun' /\ Walk' /\ Settled'
  BY DEF Exit, Begun, Walk, Settled, Accepted
<1>3. Protected'
  BY DEF Exit, Protected, Accepted, Halves
<1> QED
  BY <1>1, <1>2, <1>3 DEF IInv

\* A rejected package, a failure and a power cut leave the board as it is.
LEMMA LeftAlone ==
  ASSUME IInv, Exit, UNCHANGED boardVars
  PROVE  IInv'
<1>1. work' = work /\ half' = half /\ exposed' = exposed
  BY DEF boardVars
<1>2. /\ work \in 0..2 /\ half \in [1..2 -> {"none", "torn", "whole"}]
      /\ exposed \in BOOLEAN
  BY DEF IInv, TypeOK
<1>3. WorkPartWhole' /\ (work' # 0 => Halves)
  BY <1>1 DEF IInv, Protected, WorkPartWhole
<1> QED
  BY <1>1, <1>2, <1>3, ExitInv

\* An accepted layout stays as it is.
LEMMA StaysSettled ==
  ASSUME IInv, phase \in Accepted, phase' \in Accepted,
         UNCHANGED <<board, pkg, alloc, place, low, high, need, free, work>>, i' \in Nat,
         half' \in [1..2 -> {"none", "torn", "whole"}], exposed' \in BOOLEAN, Protected'
  PROVE  IInv'
<1>1. /\ Bottom(pkg)' = Bottom(pkg) /\ FirstHigh(pkg)' = FirstHigh(pkg) /\ Top(pkg)' = Top(pkg)
      /\ BootAlloc' = BootAlloc /\ Section' = Section /\ FwTable' = FwTable
  BY SameBoard
<1>2. TypeOK'
  BY DEF IInv, TypeOK
<1>3. Begun'
  BY <1>1 DEF IInv, Begun, Counted, Accepted
<1>4. Walk'
  BY DEF Walk, Accepted
<1>5. Settled'
  <2>1. Laid(Len(Order(board, pkg)))' /\ LaidApart(Len(Order(board, pkg)))'
    BY <1>1 DEF IInv, Settled, Laid, LaidApart, Apart
  <2>2. Fits' /\ free' = FreeSpace'
    BY <1>1 DEF IInv, Settled, Fits, FreeSpace
  <2> QED
    BY <2>1, <2>2 DEF Settled
<1> QED
  BY <1>2, <1>3, <1>4, <1>5 DEF IInv

\* What is written between the limits of a safe upgrade is not in the half in use.
LEMMA KeepsHalf ==
  ASSUME IInv, work # 0, pkg \in Packages, Promises(pkg), NEW s \in Int, NEW n \in Int,
         Bottom(pkg) <= s, s + n <= FirstHigh(pkg)
  PROVE  Torn(s, n)[work] = half[work]
<1>1. board \in Boards /\ work \in 1..2 /\ Halves
  BY DEF IInv, TypeOK, Protected
<1>2. /\ HalfStart(1) \in Int /\ HalfStart(2) \in Int /\ HalfEnd(1) \in Int /\ HalfEnd(2) \in Int
      /\ HalfEnd(1) <= HalfStart(2)
  BY <1>1, HalvesApart
<1>3. Bottom(pkg) = HalfStart(Target(work)) /\ FirstHigh(pkg) = HalfEnd(Target(work))
  BY <1>1 DEF Promises, Bottom, FirstHigh, Top
<1>4. Apart(s, n, HalfStart(work), HalfEnd(work) - HalfStart(work))
  <2>1. CASE work = 1
    <3>1. HalfStart(2) <= s
      BY <1>3, <2>1 DEF Target
    <3> QED
      BY <1>2, <2>1, <3>1 DEF Apart
  <2>2. CASE work = 2
    <3>1. s + n <= HalfEnd(1)
      BY <1>3, <2>2 DEF Target
    <3> QED
      BY <1>2, <2>2, <3>1 DEF Apart
  <2> QED
    BY <1>1, <2>1, <2>2
<1> QED
  BY <1>1, <1>4 DEF Torn

\* The driver erases the free space only, which is not in the half in use.
LEMMA StartInv ==
  ASSUME IInv, Start
  PROVE  IInv'
<1>1. /\ phase = "accepted" /\ phase' \in Accepted /\ phase' # "accepted"
      /\ half' = IF pkg.erase_free_space THEN Torn(free.start, free.size) ELSE half
      /\ exposed' = (exposed \/ ~Promises(pkg))
      /\ i' = 1 /\ UNCHANGED <<board, pkg, alloc, place, low, high, need, free, work>>
  BY DEF Start, Accepted
<1>2. phase \in Accepted /\ phase # "idle"
  BY <1>1 DEF Accepted
<1>3. /\ i \in Nat /\ low \in Int /\ high \in Int /\ half \in [1..2 -> {"none", "torn", "whole"}]
      /\ exposed \in BOOLEAN
  BY DEF IInv, TypeOK
<1>4. half' \in [1..2 -> {"none", "torn", "whole"}]
  BY <1>1, <1>3 DEF Torn
<1>5. exposed' \in BOOLEAN
  BY <1>1, <1>3
<1>6. ASSUME work # 0, ~exposed' PROVE half'[work] = "whole"
  <2>1. ~exposed /\ Promises(pkg)
    BY <1>1, <1>6
  <2>2. half[work] = "whole"
    BY <1>6, <2>1 DEF IInv, Protected, WorkPartWhole
  <2>3. Torn(free.start, free.size)[work] = half[work]
    <3>1. CASE free.size = 0
      <4>1. work \in 1..2
        BY <1>6 DEF IInv, TypeOK
      <4> QED
        BY <3>1, <4>1 DEF Torn
    <3>2. CASE free.size # 0
      <4>1. free.start = low /\ free.size = high - low
        BY <1>2, <3>2 DEF IInv, Settled, FreeSpace, Nowhere
      <4>2. pkg \in Packages /\ Bottom(pkg) <= low /\ high <= FirstHigh(pkg)
        BY <1>2 DEF IInv, Begun
      <4>3. low + (high - low) = high /\ high - low \in Int
        BY <1>3
      <4> QED
        BY <1>3, <1>6, <2>1, <4>1, <4>2, <4>3, KeepsHalf
    <3> QED
      BY <3>1, <3>2
  <2> QED
    BY <1>1, <2>2, <2>3
<1>7. Protected'
  <2>1. WorkPartWhole'
    BY <1>1, <1>6 DEF WorkPartWhole
  <2>2. work' # 0 => Halves'
    BY <1>1, SameBoard DEF IInv, Protected
  <2>3. ~exposed' => Promises(pkg)'
    BY <1>1 DEF Promises
  <2> QED
    BY <2>1, <2>2, <2>3 DEF Protected
<1> QED
  BY <1>1, <1>2, <1>3, <1>4, <1>5, <1>7, StaysSettled

\* Writing the tables and making the file systems touch neither layout nor halves.
LEMMA TablesInv ==
  ASSUME IInv, phase \in Accepted \ {"accepted"}, phase' \in Accepted \ {"accepted"},
         UNCHANGED <<board, pkg, alloc, place, low, high, need, free, boardVars>>, i' \in Nat
  PROVE  IInv'
<1>1. work' = work /\ half' = half /\ exposed' = exposed /\ pkg' = pkg
  BY DEF boardVars
<1>2. half \in [1..2 -> {"none", "torn", "whole"}] /\ exposed \in BOOLEAN
  BY DEF IInv, TypeOK
<1>3. Protected'
  BY <1>1, SameBoard DEF IInv, Protected, WorkPartWhole, Promises
<1> QED
  BY <1>1, <1>2, <1>3, StaysSettled

\* The burn writes the areas of the images only, and none is in the half in use.
LEMMA BurnInv ==
  ASSUME IInv, Burn
  PROVE  IInv'
<1>1. /\ phase = "burn" /\ phase' = "burning"
      /\ half' = [h \in 1..2 |->
                    IF \E f \in PlacedImages : Torn(place[f], alloc[f])[h] = "torn"
                    THEN "torn" ELSE half[h]]
      /\ UNCHANGED <<board, pkg, alloc, place, i, low, high, need, free, work, exposed>>
  BY DEF Burn, layoutVars
<1>2. /\ phase \in Accepted \ {"accepted"} /\ phase' \in Accepted /\ phase # "idle"
  BY <1>1 DEF Accepted
<1>3. /\ board \in Boards /\ work \in 0..2 /\ i \in Nat
      /\ alloc \in [Images -> Nat] /\ place \in [Images -> Int]
      /\ half \in [1..2 -> {"none", "torn", "whole"}]
  BY DEF IInv, TypeOK
<1>4. exposed \in BOOLEAN
  BY DEF IInv, TypeOK
<1>5. half' \in [1..2 -> {"none", "torn", "whole"}]
  BY <1>1, <1>3
<1>6. ASSUME work # 0, ~exposed PROVE half'[work] = "whole"
  <2>1. Promises(pkg) /\ half[work] = "whole" /\ Halves
    BY <1>2, <1>6 DEF IInv, Protected, WorkPartWhole
  <2>2. pkg \in Packages /\ work \in 1..2
    BY <1>2, <1>3, <1>6 DEF IInv, Begun
  <2>3. ~GapUncounted
    BY <2>1 DEF GapUncounted, Promises
  <2>4. ASSUME NEW f \in PlacedImages PROVE Torn(place[f], alloc[f])[work] # "torn"
    <3>1. Bottom(pkg) <= place[f] /\ place[f] + alloc[f] <= FirstHigh(pkg)
      BY <1>2, <2>3, <2>4, InvAreas DEF AreasDisjoint
    <3>2. PICK m \in 1..Len(Order(board, pkg)) : Order(board, pkg)[m].fw = f
      BY <1>2, <2>4, PlacedIs DEF IInv
    <3>3. place[f] \in Int /\ alloc[f] \in Int
      BY <1>3, <2>2, <3>2, OrderOnce
    <3>4. Torn(place[f], alloc[f])[work] = half[work]
      BY <1>6, <2>1, <2>2, <3>1, <3>3, KeepsHalf
    <3> QED
      BY <2>1, <3>4
  <2> QED
    BY <1>1, <2>1, <2>2, <2>4
<1>7. Protected'
  <2>1. WorkPartWhole'
    BY <1>1, <1>6 DEF WorkPartWhole
  <2>2. (work' # 0 => Halves') /\ (~exposed' => Promises(pkg)')
    BY <1>1, <1>2, SameBoard DEF IInv, Protected, Promises
  <2> QED
    BY <2>1, <2>2 DEF Protected
<1> QED
  BY <1>1, <1>2, <1>3, <1>4, <1>5, <1>7, StaysSettled

\* What a finished burn has made of the halves.
LEMMA BurnedHalf ==
  ASSUME IInv, Burned
  PROVE  /\ half' \in [1..2 -> {"none", "torn", "whole"}]
         /\ \A h \in 1..2 : half[h] = "whole" => half'[h] = "whole"
         /\ Halves /\ Promises(pkg) => half'[Target(work)] = "whole"
<1>1. half' = IF Halves /\ Promises(pkg) THEN [half EXCEPT ![Target(work)] = "whole"] ELSE half
  BY DEF Burned
<1>2. half \in [1..2 -> {"none", "torn", "whole"}]
  BY DEF IInv, TypeOK
<1>3. Target(work) \in 1..2
  BY DEF Target
<1> QED
  BY <1>1, <1>2, <1>3

\* A complete install puts the half it has written into use.
LEMMA CompleteInv ==
  ASSUME IInv, Complete
  PROVE  IInv'
<1>1. /\ Burned /\ Exit /\ work' = NextWork(pkg)
      /\ exposed' = (Halves /\ pkg.safe_upgrade /\ pkg.partition_inverse)
  BY DEF Complete
<1>2. work' \in 0..2 /\ (work' # 0 => Halves /\ pkg.safe_upgrade /\ work' = Target(work))
  BY <1>1 DEF NextWork, Target
<1>3. pkg \in Packages
  BY <1>1 DEF Burned, IInv, Begun
<1>4. exposed' \in BOOLEAN
  BY <1>1 DEF Halves
<1>5. WorkPartWhole'
  <2> SUFFICES ASSUME work' # 0, ~exposed' PROVE half'[work'] = "whole"
    BY DEF WorkPartWhole
  <2>1. Halves /\ Promises(pkg)
    BY <1>1, <1>2 DEF Promises
  <2> QED
    BY <1>1, <1>2, <2>1, BurnedHalf
<1> QED
  BY <1>1, <1>2, <1>4, <1>5, BurnedHalf, ExitInv

\* A table that is lost leaves the old half in use, which is whole as before.
LEMMA TableLostInv ==
  ASSUME IInv, TableLost
  PROVE  IInv'
<1>1. Burned /\ Exit /\ work' = work /\ exposed' = exposed
  BY DEF TableLost
<1>2. work \in 0..2 /\ (work # 0 => Halves)
  BY DEF IInv, TypeOK, Protected
<1>3. exposed \in BOOLEAN
  BY DEF IInv, TypeOK
<1>4. WorkPartWhole'
  <2> SUFFICES ASSUME work # 0, ~exposed PROVE half'[work] = "whole"
    BY <1>1 DEF WorkPartWhole
  <2>1. half[work] = "whole" /\ work \in 1..2
    BY <1>2 DEF IInv, Protected, WorkPartWhole
  <2> QED
    BY <1>1, <2>1, BurnedHalf
<1> QED
  BY <1>1, <1>2, <1>3, <1>4, BurnedHalf, ExitInv

\* Every step keeps the invariant.
LEMMA StepInv ==
  ASSUME IInv, [Next]_vars
  PROVE  IInv'
<1>1. ASSUME NEW p \in Packages, Fill(p) PROVE IInv'
  BY <1>1, FillInv
<1>2. CASE PlaceUp \/ PlaceDown \/ LeaveUnplaced
  BY <1>2, PlaceUpInv, PlaceDownInv, LeaveUnplacedInv
<1>3. CASE Accept \/ Start \/ Burn \/ Complete \/ TableLost
  BY <1>3, AcceptInv, StartInv, BurnInv, CompleteInv, TableLostInv
<1>4. CASE Reject \/ Fail
  <2>1. Exit /\ UNCHANGED boardVars
    BY <1>4 DEF Reject, Fail, boardVars
  <2> QED
    BY <2>1, LeftAlone
<1>5. CASE SumRooms \/ FirstTable \/ NextEntry \/ FirstWrite \/ WriteTable \/ FirstFormat \/ FormatPart \/ Formatted
  <2>1. i \in Nat
    BY DEF IInv, TypeOK
  <2>2. i' \in Nat
    BY <1>5, <2>1
       DEF SumRooms, FirstTable, NextEntry, FirstWrite, WriteTable, FirstFormat, FormatPart, Formatted, layoutVars
  <2>3. /\ phase \in Accepted \ {"accepted"} /\ phase' \in Accepted \ {"accepted"}
        /\ UNCHANGED <<board, pkg, alloc, place, low, high, need, free, boardVars>>
    BY <1>5 DEF SumRooms, FirstTable, NextEntry, FirstWrite, WriteTable, FirstFormat, FormatPart, Formatted,
                layoutVars, Accepted
  <2> QED
    BY <2>2, <2>3, TablesInv
<1>6. CASE UNCHANGED vars
  <2>1. UNCHANGED <<board, pkg, phase, alloc, place, i, low, high, need, free, work, half, exposed>>
    BY <1>6 DEF vars, layoutVars, boardVars
  <2>2. TypeOK'
    BY <2>1 DEF IInv, TypeOK
  <2>3. /\ Bottom(pkg)' = Bottom(pkg) /\ FirstHigh(pkg)' = FirstHigh(pkg) /\ Top(pkg)' = Top(pkg)
        /\ BootAlloc' = BootAlloc /\ Section' = Section /\ FwTable' = FwTable /\ Halves' = Halves
    BY <2>1, SameBoard
  <2>4. Begun'
    BY <2>1, <2>3 DEF IInv, Begun, Counted
  <2>5. Walk'
    BY <2>1, <2>3 DEF IInv, Walk, Laid, LaidApart, Apart
  <2>6. Settled'
    BY <2>1, <2>3 DEF IInv, Settled, Laid, LaidApart, Apart, Fits, FreeSpace
  <2>7. Protected'
    BY <2>1, <2>3 DEF IInv, Protected, WorkPartWhole, Promises
  <2> QED
    BY <2>2, <2>4, <2>5, <2>6, <2>7 DEF IInv
<1> QED
  BY <1>1, <1>2, <1>3, <1>4, <1>5, <1>6 DEF Next

\* The invariant holds in every behaviour.
LEMMA InvAlways == Spec => []IInv
<1>1. Init => IInv
  BY InitInv
<1>2. IInv /\ [Next]_vars => IInv'
  BY StepInv
<1> QED
  BY <1>1, <1>2, PTL DEF Spec

-----------------------------------------------------------------------------
(* The partitions of an eMMC: the inductive invariant of their places and  *)
(* their tables.                                                           *)

OnEmmc == board.flash_type = "emmc"
Fw(k) == pkg.parts[k].fw

\* Where partition k begins, and behind the last of them the flash ends.
Edge(k) == IF k = Partitions + 1 THEN board.flash_size ELSE place[Fw(k)]

\* The last j partitions are placed, each right below the one after it.
Stack(j) ==
  /\ high = Edge(Partitions + 1 - j)
  /\ \A k \in 1..Partitions : k > Partitions - j => Edge(k) + alloc[Fw(k)] = Edge(k + 1)

\* How many of the first n images of the order are partitions.
Down9(n) == IF n <= 9 THEN 0 ELSE IF n <= 9 + Partitions THEN n - 9 ELSE Partitions

Stacked ==
  OnEmmc =>
    /\ phase = "place" => Stack(Down9(i - 1))
    /\ phase \in Accepted => Stack(Partitions)

\* Partitions are larger than what the tables reserve, and no more than these hold.
Roomy ==
  OnEmmc /\ phase # "idle" =>
    Partitions <= 9 /\ \A k \in 1..Partitions : Room(k) \in Nat /\ Room(k) > Reserve

\* S is the room of the first partitions, for all of the first n.
Totals == [0..9 -> Nat]
Sums(S, n) == S[0] = 0 /\ \A k \in 1..n : S[k] = S[k - 1] + Room(k)

\* The partitions are no lower in the flash than the sums say, and exactly there if their
\* sizes are whole numbers of sectors.
Even == \A k \in DOMAIN pkg.parts : alloc[Fw(k)] % board.mtd_erasesize = 0
Heights(S, n) ==
  \A k \in 0..n : /\ high + S[k] * board.mtd_erasesize <= Edge(k + 1)
                  /\ Even => high + S[k] * board.mtd_erasesize = Edge(k + 1)

Ids     == {"none", "linux", "extended"}
Entries == [id : Ids, start : Int, num : Int]
Tables  == [0..7 -> [0..3 -> Entries]]
Blank   == mbr = NoTables /\ at = [Origin EXCEPT !.parted = at.parted]

Summing ==
  /\ phase \in {"idle", "place", "accepted"} => Blank /\ at.parted = 0
  /\ phase \in {"sum", "entries", "write", "format"} => OnEmmc
  /\ phase = "sum" =>
       /\ i \in 1..(Partitions + 1) /\ Blank
       /\ \E S \in Totals : Sums(S, i - 1) /\ Heights(S, i - 1) /\ at.parted = S[i - 1]

\* The tables of the first j partitions, and where they lead to.
Described(S, j) ==
  /\ at.count = j + 1
  /\ at.table = (IF j >= 4 /\ Partitions > 4 THEN j - 3 ELSE 0)
  /\ at.part = (IF j >= 4 /\ Partitions > 4 THEN 1 ELSE j)
  /\ \A k \in 1..j :
       LET e == IF Logical(k, Partitions) THEN mbr[k - 3][0] ELSE mbr[0][k - 1] IN
       /\ e.id = "linux" /\ e.num = Room(k) - Reserve
       /\ Logical(k, Partitions) => e.start = Reserve
  /\ \A k \in 1..(j + 1) : k <= Partitions =>
       /\ k <= 4 => mbr[0][k - 1].start = Kernel(All) + S[k - 1]
       /\ k >= 5 => mbr[k - 4][1].start = S[k - 1] - S[3]

\* The first n tables are in the flash.
Chained(n) == \A t \in 0..(n - 1) : chain[Place(t)] = mbr[t]

Whole(S) ==
  /\ Sums(S, Partitions) /\ Heights(S, Partitions)
  /\ at.parted = S[Partitions] /\ S[Partitions] < All

Tabled ==
  /\ OnEmmc /\ phase = "entries" =>
       i \in 1..(Partitions + 1) /\ \E S \in Totals : Whole(S) /\ Described(S, i - 1)
  /\ OnEmmc /\ phase = "write" =>
       i \in 0..(at.table + 1) /\ \E S \in Totals : Whole(S) /\ Described(S, Partitions) /\ Chained(i)
  /\ OnEmmc /\ phase \in {"format", "burn", "burning"} =>
       /\ phase = "format" => i \in 1..(Partitions + 1)
       /\ \E S \in Totals : Whole(S) /\ Described(S, Partitions) /\ Chained(at.table + 1)

MbrType ==
  /\ mbr \in Tables /\ chain \in [0..(Sectors - 1) -> [0..3 -> Entries]]
  /\ at \in [table : Nat, part : Nat, count : Nat, acc : Int, parted : Nat]

DInv == MbrType /\ Stacked /\ Roomy /\ Summing /\ Tabled

-----------------------------------------------------------------------------
(* The order in which the images of an eMMC are placed.                    *)

\* A list put behind another.
LEMMA Joined ==
  ASSUME NEW S, NEW q \in Seq(S), NEW r \in Seq(S)
  PROVE  /\ q \o r \in Seq(S) /\ Len(q \o r) = Len(q) + Len(r)
         /\ \A j \in 1..(Len(q) + Len(r)) :
              (q \o r)[j] = IF j <= Len(q) THEN q[j] ELSE r[j - Len(q)]
OBVIOUS

\* A list of some things is a list of more.
LEMMA SeqIn ==
  ASSUME NEW S, NEW T, S \subseteq T, NEW q \in Seq(S)
  PROVE  q \in Seq(T)
OBVIOUS

\* The order of the images on an eMMC.
LEMMA EmmcOrder ==
  ASSUME board \in Boards, pkg \in Packages, OnEmmc
  PROVE  /\ Partitions \in Nat /\ DOMAIN pkg.parts = 1..Partitions
         /\ Len(Order(board, pkg)) = Partitions + 16
         /\ \A m \in 1..(Partitions + 16) :
              /\ Order(board, pkg)[m].way = "up" => m <= 9
              /\ Order(board, pkg)[m].way = "down" => 9 < m /\ m <= 9 + Partitions
              /\ Order(board, pkg)[m].way = "none" => m > 9 + Partitions
              /\ 9 < m /\ m <= 9 + Partitions => Order(board, pkg)[m].fw = Fw(10 + Partitions - m)
<1> DEFINE O == Order(board, pkg)
           P == Partitions
           T == TopDown(pkg)
<1>1. pkg.parts \in Seq(Part) /\ P \in Nat /\ DOMAIN pkg.parts = 1..P
  BY PackageType DEF Partitions
<1>2. Len(T) = P /\ T \in Seq([fw : Parts, way : {"down"}])
      /\ \A n \in 1..P : T[n].fw = Fw(P + 1 - n) /\ T[n].way = "down"
  <2>1. T = [n \in 1..P |-> Down(pkg.parts[P + 1 - n].fw)]
    BY <1>1 DEF TopDown, Partitions
  <2>2. \A n \in 1..P : Down(pkg.parts[P + 1 - n].fw) \in [fw : Parts, way : {"down"}]
    <3> SUFFICES ASSUME NEW n \in 1..P
                 PROVE  Down(pkg.parts[P + 1 - n].fw) \in [fw : Parts, way : {"down"}]
      OBVIOUS
    <3>1. P + 1 - n \in 1..P
      BY <1>1
    <3>2. pkg.parts[P + 1 - n] \in Part
      BY <1>1, <3>1
    <3>3. QED BY <3>2 DEF Down, Part
  <2>3. T \in [1..P -> [fw : Parts, way : {"down"}]]
    BY <2>1, <2>2
  <2>4. T \in Seq([fw : Parts, way : {"down"}])
    BY <1>1, <2>3, ListOf
  <2>5. Len(T) = P
    BY <1>1, <2>1
  <2>6. \A n \in 1..P : T[n].fw = Fw(P + 1 - n) /\ T[n].way = "down"
    BY <2>1 DEF Down, Fw
  <2>7. QED BY <2>4, <2>5, <2>6
<1>3. O = BottomUp \o T \o Unplaced
  BY DEF Order, OnEmmc
<1>4. /\ Len(BottomUp) = 9 /\ BottomUp \in Seq([fw : Images, way : {"up"}])
      /\ \A n \in 1..9 : BottomUp[n].way = "up"
  BY DEF BottomUp, Up, Images, Firmware, Logos, BootFiles
<1>5. /\ Len(Unplaced) = 7 /\ Unplaced \in Seq([fw : Images, way : {"none"}])
      /\ \A n \in 1..7 : Unplaced[n].way = "none"
  BY DEF Unplaced, Left, Images, Firmware, Logos, BootFiles
<1> DEFINE B == BottomUp
           U == Unplaced
<1> HIDE DEF O, P, T, B, U
<1>6. /\ T \in Seq([fw : Parts, way : {"down"}]) /\ Len(T) = P
      /\ B \in Seq([fw : Images, way : {"up"}]) /\ Len(B) = 9
      /\ U \in Seq([fw : Images, way : {"none"}]) /\ Len(U) = 7
      /\ O = B \o T \o U /\ P \in Nat
  BY <1>1, <1>2, <1>3, <1>4, <1>5 DEF B, U
<1> DEFINE V == B \o T
<1>0. Parts \subseteq Images
  BY DEF Images
<1>61. B \in Seq(Step) /\ T \in Seq(Step) /\ U \in Seq(Step)
  <2>1. /\ [fw : Parts, way : {"down"}] \subseteq Step /\ [fw : Images, way : {"up"}] \subseteq Step
        /\ [fw : Images, way : {"none"}] \subseteq Step
    BY <1>0 DEF Step
  <2>2. QED BY <1>6, <2>1, SeqIn
<1>62. /\ V \in Seq(Step) /\ Len(V) = 9 + P
       /\ \A m \in 1..(9 + P) : V[m] = IF m <= 9 THEN B[m] ELSE T[m - 9]
  <2>1. /\ V \in Seq(Step) /\ Len(V) = Len(B) + Len(T)
        /\ \A m \in 1..(Len(B) + Len(T)) : V[m] = IF m <= Len(B) THEN B[m] ELSE T[m - Len(B)]
    BY <1>61, Joined
  <2>2. QED BY <1>6, <2>1
<1>63. O = V \o U
  BY <1>6, <1>61
<1> HIDE DEF V
<1>64. /\ Len(O) = (9 + P) + 7
       /\ \A m \in 1..((9 + P) + 7) : O[m] = IF m <= 9 + P THEN V[m] ELSE U[m - (9 + P)]
  <2>1. /\ Len(V \o U) = Len(V) + Len(U)
        /\ \A m \in 1..(Len(V) + Len(U)) :
             (V \o U)[m] = IF m <= Len(V) THEN V[m] ELSE U[m - Len(V)]
    BY <1>61, <1>62, Joined
  <2>2. QED BY <1>6, <1>62, <1>63, <2>1
<1>7. Len(O) = P + 16
  BY <1>6, <1>64
<1>9. ASSUME NEW m \in 1..(P + 16)
      PROVE  /\ O[m].way = "up" => m <= 9
             /\ O[m].way = "down" => 9 < m /\ m <= 9 + P
             /\ O[m].way = "none" => m > 9 + P
             /\ 9 < m /\ m <= 9 + P => O[m].fw = Fw(10 + P - m)
  <2>1. CASE m <= 9
    <3>0. m \in 1..(9 + P) /\ m \in 1..((9 + P) + 7) /\ m <= 9 + P
      BY <1>6, <2>1
    <3>1. O[m] = V[m] /\ V[m] = B[m]
      BY <1>62, <1>64, <2>1, <3>0
    <3>2. O[m].way = "up"
      BY <1>4, <2>1, <3>1 DEF B
    <3>3. QED BY <2>1, <3>2
  <2>2. CASE 9 < m /\ m <= 9 + P
    <3>1. m - 9 \in 1..P /\ P + 1 - (m - 9) = 10 + P - m
      BY <1>6, <2>2
    <3>2. O[m] = T[m - 9]
      BY <1>6, <1>62, <1>64, <2>2
    <3>3. O[m].way = "down" /\ O[m].fw = Fw(10 + P - m)
      BY <1>2, <3>1, <3>2
    <3>4. QED BY <2>2, <3>3
  <2>3. CASE m > 9 + P
    <3>1. m - (9 + P) \in 1..7 /\ m \in 1..((9 + P) + 7) /\ ~(m <= 9 + P)
      BY <1>6, <2>3
    <3>2. O[m] = U[m - (9 + P)]
      BY <1>64, <3>1
    <3>3. O[m].way = "none"
      BY <1>5, <3>1, <3>2 DEF U
    <3>4. QED BY <2>3, <3>1, <3>3
  <2>4. m <= 9 \/ (9 < m /\ m <= 9 + P) \/ m > 9 + P
    BY <1>6, <1>9
  <2>5. QED BY <2>1, <2>2, <2>3, <2>4
<1>10. P = Partitions /\ O = Order(board, pkg)
  BY DEF P, O
<1>11. QED BY <1>1, <1>6, <1>7, <1>9, <1>10

\* While they stay where they are, nothing about the partitions changes.
LEMMA SamePlaces ==
  ASSUME board' = board, pkg' = pkg, alloc' = alloc, place' = place, high' = high
  PROVE  /\ OnEmmc' = OnEmmc /\ Partitions' = Partitions /\ All' = All /\ Even' = Even
         /\ \A k : Fw(k)' = Fw(k) /\ Room(k)' = Room(k) /\ Edge(k)' = Edge(k)
         /\ \A j : Stack(j)' = Stack(j)
         /\ \A S, n : Sums(S, n)' = Sums(S, n) /\ Heights(S, n)' = Heights(S, n)
<1>1. OnEmmc' = OnEmmc /\ Partitions' = Partitions /\ All' = All
  BY DEF OnEmmc, Partitions, All, SectorsOf
<1>2. \A k : Fw(k)' = Fw(k) /\ Room(k)' = Room(k)
  BY DEF Fw, Room, SectorsOf
<1>3. \A k : Edge(k)' = Edge(k)
  BY <1>1, <1>2 DEF Edge
<1>4. Even' = Even
  BY <1>2 DEF Even
<1>5. \A j : Stack(j)' = Stack(j)
  BY <1>1, <1>2, <1>3 DEF Stack
<1>6. \A S, n : Sums(S, n)' = Sums(S, n) /\ Heights(S, n)' = Heights(S, n)
  BY <1>2, <1>3, <1>4 DEF Sums, Heights
<1>7. QED BY <1>1, <1>2, <1>3, <1>4, <1>5, <1>6

\* The partitions are different images, each with an allocation.
LEMMA PartsKnown ==
  ASSUME TypeOK, pkg \in Packages, OnEmmc
  PROVE  /\ Partitions \in Nat
         /\ \A k \in 1..Partitions :
              Fw(k) \in Parts /\ Fw(k) \in Images /\ alloc[Fw(k)] \in Nat /\ place[Fw(k)] \in Int
         /\ \A k, m \in 1..Partitions : Fw(k) = Fw(m) => k = m
         /\ \A k \in 1..Partitions, m \in 1..(Partitions + 16) :
              Fw(k) = Order(board, pkg)[m].fw => m = 10 + Partitions - k
         /\ \A k \in 1..(Partitions + 1) : Edge(k) \in Int
<1>1. board \in Boards /\ alloc \in [Images -> Nat] /\ place \in [Images -> Int]
  BY DEF TypeOK
<1>2. /\ Partitions \in Nat /\ DOMAIN pkg.parts = 1..Partitions
      /\ Len(Order(board, pkg)) = Partitions + 16
      /\ \A m \in 1..(Partitions + 16) :
           9 < m /\ m <= 9 + Partitions => Order(board, pkg)[m].fw = Fw(10 + Partitions - m)
  BY <1>1, EmmcOrder
<1>3. \A k \in 1..Partitions : Fw(k) \in Parts
  <2>1. \A k \in 1..Partitions : pkg.parts[k] \in Part
    BY <1>2, PackageType
  <2>2. QED BY <2>1 DEF Fw, Part
<1>4. \A k \in 1..Partitions : Order(board, pkg)[10 + Partitions - k].fw = Fw(k)
  <2>1. TAKE k \in 1..Partitions
  <2>2. /\ 10 + Partitions - k \in 1..(Partitions + 16) /\ 9 < 10 + Partitions - k
        /\ 10 + Partitions - k <= 9 + Partitions /\ 10 + Partitions - (10 + Partitions - k) = k
    BY <1>2
  <2>3. QED BY <1>2, <2>2
<1>5. \A m, n \in 1..(Partitions + 16) :
        Order(board, pkg)[m].fw = Order(board, pkg)[n].fw => m = n
  BY <1>1, <1>2, OrderOnce
<1>6. \A k \in 1..Partitions, m \in 1..(Partitions + 16) :
        Fw(k) = Order(board, pkg)[m].fw => m = 10 + Partitions - k
  <2>1. TAKE k \in 1..Partitions, m \in 1..(Partitions + 16)
  <2>2. 10 + Partitions - k \in 1..(Partitions + 16)
    BY <1>2
  <2>3. QED BY <1>4, <1>5, <2>2
<1>7. \A k, m \in 1..Partitions : Fw(k) = Fw(m) => k = m
  <2>1. TAKE k, m \in 1..Partitions
  <2>2. 10 + Partitions - m \in 1..(Partitions + 16) /\ Order(board, pkg)[10 + Partitions - m].fw = Fw(m)
    BY <1>2, <1>4
  <2>3. Fw(k) = Fw(m) => 10 + Partitions - m = 10 + Partitions - k
    BY <1>6, <2>2
  <2>4. QED BY <1>2, <2>3
<1>8. \A k \in 1..Partitions : Fw(k) \in Images /\ alloc[Fw(k)] \in Nat /\ place[Fw(k)] \in Int
  BY <1>1, <1>3 DEF Images
<1>9. \A k \in 1..(Partitions + 1) : Edge(k) \in Int
  BY <1>1, <1>2, <1>8, BoardType DEF Edge
<1>10. QED BY <1>2, <1>3, <1>6, <1>7, <1>8, <1>9

\* Before the first partition is placed the stack is empty.
LEMMA StackBegins ==
  ASSUME TypeOK, NEW p \in Packages, Fill(p), OnEmmc'
  PROVE  Stack(Down9(i - 1))'
<1>1. board' = board /\ high' = FirstHigh(p) /\ pkg' = p /\ i' = 1 /\ board.flash_type = "emmc"
  BY DEF Fill, OnEmmc
<1>2. FirstHigh(p) = board.flash_size
  BY <1>1 DEF FirstHigh, Top, Halves
<1>3. Partitions' \in Nat
  BY <1>1, PackageType DEF Partitions
<1>4. Down9(0)' = 0 /\ i' - 1 = 0
  BY <1>1 DEF Down9
<1>5. Edge(Partitions + 1)' = high'
  BY <1>1, <1>2 DEF Edge
<1>6. Partitions' + 1 - 0 = Partitions' + 1 /\ \A k \in 1..Partitions' : ~(k > Partitions' - 0)
  <2>1. \A n \in Nat : n + 1 - 0 = n + 1 /\ \A k \in 1..n : ~(k > n - 0)
    OBVIOUS
  <2>2. QED BY <1>3, <2>1
<1>7. Stack(0)'
  BY <1>5, <1>6 DEF Stack
<1>8. QED BY <1>4, <1>7 DEF Down9

\* An image placed from the bottom is no partition, and one without a place has none.
LEMMA StackStays ==
  ASSUME IInv, OnEmmc, Stack(Down9(i - 1)), PlaceUp \/ LeaveUnplaced
  PROVE  Stack(Down9(i - 1))'
<1>1. /\ pkg \in Packages /\ board \in Boards /\ i \in 1..(Len(Order(board, pkg)) + 1)
      /\ phase = "place" /\ i <= Len(Order(board, pkg))
  BY DEF IInv, Begun, Walk, TypeOK, PlaceUp, LeaveUnplaced, Placing
<1>2. /\ board' = board /\ pkg' = pkg /\ alloc' = alloc /\ high' = high /\ i' = i + 1
      /\ phase' = phase
  BY DEF PlaceUp, LeaveUnplaced, Placing
<1>3. /\ Partitions \in Nat /\ Len(Order(board, pkg)) = Partitions + 16
      /\ \A m \in 1..(Partitions + 16) :
           /\ Order(board, pkg)[m].way = "up" => m <= 9
           /\ Order(board, pkg)[m].way = "none" => m > 9 + Partitions
  BY <1>1, EmmcOrder
<1>4. i \in 1..(Partitions + 16)
  BY <1>1, <1>3
<1>5. Partitions' = Partitions /\ \A k : Fw(k)' = Fw(k)
  BY <1>2 DEF Partitions, Fw
<1>6. CASE PlaceUp
  <2>1. Order(board, pkg)[i].way = "up" /\ place' = [place EXCEPT ![Image] = low]
    BY <1>6 DEF PlaceUp, Placing
  <2>2. i <= 9
    BY <1>3, <1>4, <2>1
  <2>3. Down9(i - 1) = 0 /\ Down9(i - 1)' = 0
    BY <1>2, <1>4, <2>2 DEF Down9
  <2>4. \A k \in 1..Partitions : Fw(k) # Image
    <3>1. TAKE k \in 1..Partitions
    <3>2. i # 10 + Partitions - k
      BY <1>3, <2>2
    <3>3. QED BY <1>1, <1>4, <3>2, PartsKnown DEF Image, IInv
  <2>5. \A k \in 1..Partitions : place'[Fw(k)] = place[Fw(k)]
    <3>1. place \in [Images -> Int] /\ \A k \in 1..Partitions : Fw(k) \in Images
      BY <1>1, PartsKnown DEF IInv, TypeOK
    <3>2. QED BY <2>1, <2>4, <3>1
  <2>6. \A k \in 1..(Partitions + 1) : Edge(k)' = Edge(k)
    BY <1>2, <1>3, <1>5, <2>5 DEF Edge
  <2>7. Stack(0)
    BY <2>3
  <2>8. Stack(0)'
    <3>1. Partitions + 1 - 0 \in 1..(Partitions + 1) /\ \A k \in 1..Partitions : ~(k > Partitions - 0)
      BY <1>3
    <3>2. high = Edge(Partitions + 1 - 0)
      BY <2>7 DEF Stack
    <3>3. high' = Edge(Partitions + 1 - 0)'
      BY <1>2, <1>5, <2>6, <3>1, <3>2
    <3>4. QED BY <1>5, <3>1, <3>3 DEF Stack
  <2>9. QED BY <2>3, <2>8
<1>7. CASE LeaveUnplaced
  <2>1. Order(board, pkg)[i].way = "none" /\ place' = place
    BY <1>7 DEF LeaveUnplaced, Placing
  <2>2. i > 9 + Partitions
    BY <1>3, <1>4, <2>1
  <2>3. Down9(i - 1) = Partitions /\ Down9(i - 1)' = Partitions
    BY <1>2, <1>3, <1>4, <1>5, <2>2 DEF Down9
  <2>4. Stack(Partitions)
    BY <2>3
  <2>5. Stack(Partitions)' = Stack(Partitions)
    BY <1>2, <2>1, SamePlaces
  <2>6. QED BY <2>3, <2>4, <2>5, <1>5
<1>8. QED BY <1>6, <1>7

\* A partition placed from the top lies right below the one placed before.
LEMMA StackGrows ==
  ASSUME IInv, OnEmmc, Stack(Down9(i - 1)), PlaceDown
  PROVE  Stack(Down9(i - 1))'
<1>1. /\ pkg \in Packages /\ board \in Boards /\ i \in 1..(Len(Order(board, pkg)) + 1)
      /\ phase = "place" /\ i <= Len(Order(board, pkg))
  BY DEF IInv, Begun, Walk, TypeOK, PlaceDown, Placing
<1>2. /\ board' = board /\ pkg' = pkg /\ alloc' = alloc /\ i' = i + 1
      /\ high' = high - alloc[Image] /\ place' = [place EXCEPT ![Image] = high - alloc[Image]]
      /\ Order(board, pkg)[i].way = "down"
  BY DEF PlaceDown, Placing
<1>3. /\ Partitions \in Nat /\ Len(Order(board, pkg)) = Partitions + 16
      /\ \A m \in 1..(Partitions + 16) :
           /\ Order(board, pkg)[m].way = "down" => 9 < m /\ m <= 9 + Partitions
           /\ 9 < m /\ m <= 9 + Partitions => Order(board, pkg)[m].fw = Fw(10 + Partitions - m)
  BY <1>1, EmmcOrder
<1>4. i \in 1..(Partitions + 16)
  BY <1>1, <1>3
<1>5. Partitions' = Partitions /\ \A k : Fw(k)' = Fw(k)
  BY <1>2 DEF Partitions, Fw
<1>6. PICK c \in 1..Partitions : 9 < i /\ i <= 9 + Partitions /\ Image = Fw(c) /\ c = 10 + Partitions - i
  <2>1. 9 < i /\ i <= 9 + Partitions /\ Image = Fw(10 + Partitions - i)
    BY <1>2, <1>3, <1>4 DEF Image
  <2>2. 10 + Partitions - i \in 1..Partitions
    BY <1>3, <1>4, <2>1
  <2>3. QED BY <2>1, <2>2
<1>7. /\ c \in 1..Partitions /\ Partitions - c = i - 10 /\ c + 1 \in 1..(Partitions + 1) /\ c # c + 1
      /\ c \in 1..(Partitions + 1)
  BY <1>3, <1>4, <1>6
<1>8. Down9(i - 1) = Partitions - c /\ Down9(i - 1)' = Partitions - c + 1
  <2>1. Down9(i - 1) = i - 10
    BY <1>3, <1>4, <1>6 DEF Down9
  <2>2. Down9(i - 1)' = i - 9
    BY <1>2, <1>3, <1>4, <1>5, <1>6 DEF Down9
  <2>3. QED BY <1>4, <1>7, <2>1, <2>2
<1>9. /\ \A k \in 1..Partitions : Fw(k) \in Images /\ alloc[Fw(k)] \in Nat
      /\ \A k, m \in 1..Partitions : Fw(k) = Fw(m) => k = m
      /\ place \in [Images -> Int] /\ high \in Int
      /\ \A k \in 1..(Partitions + 1) : Edge(k) \in Int
  BY <1>1, PartsKnown DEF IInv, TypeOK
<1>10. /\ place'[Fw(c)] = high - alloc[Fw(c)]
       /\ \A k \in 1..Partitions \ {c} : place'[Fw(k)] = place[Fw(k)]
  <2>1. place' = [place EXCEPT ![Fw(c)] = high - alloc[Fw(c)]]
    BY <1>2, <1>6
  <2>2. Fw(c) \in Images /\ \A k \in 1..Partitions \ {c} : Fw(k) # Fw(c) /\ Fw(k) \in Images
    BY <1>7, <1>9
  <2>3. QED BY <1>9, <2>1, <2>2
<1>11. high' = high - alloc[Fw(c)] /\ alloc' = alloc
  BY <1>2, <1>6
<1>12. Edge(c)' = high' /\ \A k \in 1..(Partitions + 1) \ {c} : Edge(k)' = Edge(k)
  <2>1. c # Partitions + 1 /\ \A k \in 1..(Partitions + 1) \ {c} :
                                k = Partitions + 1 \/ k \in 1..Partitions \ {c}
    BY <1>3, <1>7
  <2>2. Edge(c)' = place'[Fw(c)]
    BY <1>5, <2>1 DEF Edge
  <2>3. \A k \in 1..(Partitions + 1) \ {c} : Edge(k)' = Edge(k)
    BY <1>2, <1>5, <1>10, <2>1 DEF Edge
  <2>4. QED BY <1>10, <1>11, <2>2, <2>3
<1>13. high = Edge(c + 1) /\ \A k \in 1..Partitions : k > c => Edge(k) + alloc[Fw(k)] = Edge(k + 1)
  <2>1. Stack(Partitions - c)
    BY <1>8
  <2>2. Partitions + 1 - (Partitions - c) = c + 1 /\ Partitions - (Partitions - c) = c
    BY <1>3, <1>7
  <2>3. QED BY <2>1, <2>2 DEF Stack
<1>14. \A k \in 1..Partitions : k >= c => Edge(k)' + alloc'[Fw(k)'] = Edge(k + 1)'
  <2>1. TAKE k \in 1..Partitions
  <2>2. CASE k = c
    <3>1. Edge(c)' + alloc[Fw(c)] = high
      BY <1>7, <1>9, <1>11, <1>12
    <3>2. Edge(c + 1)' = high
      BY <1>7, <1>12, <1>13
    <3>3. QED BY <1>5, <1>11, <2>2, <3>1, <3>2
  <2>3. CASE k > c
    <3>1. k \in 1..(Partitions + 1) \ {c} /\ k + 1 \in 1..(Partitions + 1) \ {c}
      BY <1>3, <1>7, <2>3
    <3>2. Edge(k)' = Edge(k) /\ Edge(k + 1)' = Edge(k + 1)
      BY <1>12, <3>1
    <3>3. QED BY <1>5, <1>11, <1>13, <2>3, <3>2
  <2>4. QED BY <1>7, <2>2, <2>3
<1>15. Stack(Partitions - c + 1)'
  <2>1. Partitions + 1 - (Partitions - c + 1) = c /\ Partitions - (Partitions - c + 1) = c - 1
    BY <1>3, <1>7
  <2>2. \A k \in 1..Partitions : k > c - 1 => k >= c
    BY <1>3, <1>7
  <2>3. high' = Edge(Partitions + 1 - (Partitions - c + 1))'
    BY <1>5, <1>12, <2>1
  <2>4. QED BY <1>5, <1>14, <2>1, <2>2, <2>3 DEF Stack
<1>16. QED BY <1>5, <1>8, <1>15

\* When all images have been placed the stack holds all partitions.
LEMMA StackAccepted ==
  ASSUME IInv, OnEmmc, Stack(Down9(i - 1)), Accept
  PROVE  Stack(Partitions)'
<1>1. /\ pkg \in Packages /\ board \in Boards /\ i \in 1..(Len(Order(board, pkg)) + 1)
      /\ phase = "place" /\ i > Len(Order(board, pkg))
  BY DEF IInv, Begun, Walk, TypeOK, Accept, Placed
<1>2. Partitions \in Nat /\ Len(Order(board, pkg)) = Partitions + 16
  BY <1>1, EmmcOrder
<1>3. i - 1 = Partitions + 16
  BY <1>1, <1>2
<1>4. Down9(i - 1) = Partitions
  BY <1>2, <1>3 DEF Down9
<1>5. Stack(Partitions)
  BY <1>4
<1>6. Stack(Partitions)' = Stack(Partitions)
  BY SamePlaces DEF Accept
<1>7. QED BY <1>5, <1>6

-----------------------------------------------------------------------------
(* Sectors and bytes.                                                      *)

\* A size is its whole sectors and a rest.
LEMMA Division ==
  ASSUME NEW x \in Nat, NEW e \in Nat \ {0}
  PROVE  x \div e \in Nat /\ x = (x \div e) * e + (x % e) /\ x % e >= 0 /\ x % e < e
OBVIOUS

\* A number of sectors takes in more bytes the larger it is.
LEMMA Larger ==
  ASSUME NEW a \in Int, NEW b \in Int, NEW e \in Nat \ {0}
  PROVE  (a <= b <=> a * e <= b * e) /\ (a < b <=> a * e < b * e)
         /\ a * e \in Int /\ b * e \in Int /\ (a + b) * e = a * e + b * e /\ (a - b) * e = a * e - b * e
OBVIOUS

\* A size of so many sectors has so many.
LEMMA AtLeast ==
  ASSUME NEW x \in Nat, NEW e \in Nat \ {0}, NEW r \in Nat, x >= r * e
  PROVE  x \div e >= r
<1>1. x \div e \in Nat /\ x = (x \div e) * e + (x % e) /\ x % e >= 0 /\ x % e < e
  BY Division
<1> DEFINE q == x \div e
<1> HIDE DEF q
<1>2. ASSUME q + 1 <= r PROVE FALSE
  <2>1. q \in Nat /\ q + 1 \in Int /\ (q + 1) * e <= r * e /\ (q + 1) * e = q * e + 1 * e
    BY <1>1, <1>2, Larger DEF q
  <2>2. QED BY <1>1, <2>1 DEF q
<1>3. QED BY <1>1, <1>2 DEF q

\* Multiples of a size.
LEMMA Multiple ==
  ASSUME NEW n \in Nat, NEW e \in Nat \ {0}
  PROVE  (n * e) \div e = n
<1>1. n * e \in Nat /\ n * e >= n * e
  OBVIOUS
<1>2. (n * e) \div e >= n /\ (n * e) \div e \in Nat
  BY <1>1, AtLeast, Division
<1>3. ((n * e) \div e) * e <= n * e
  BY <1>1, Division
<1> DEFINE q == (n * e) \div e
<1> HIDE DEF q
<1>4. q \in Nat /\ q >= n /\ q * e <= n * e
  BY <1>2, <1>3 DEF q
<1>5. q <= n
  BY <1>4, Larger
<1>6. q = n
  BY <1>4, <1>5
<1>7. QED BY <1>6 DEF q

-----------------------------------------------------------------------------
(* The parts of the invariant, step by step.                               *)

\* The allocation of a partition of an eMMC is its minimum.
LEMMA PartMinimum ==
  ASSUME board \in Boards, OnEmmc, NEW p \in Packages, Suits(p), NEW n \in DOMAIN p.parts
  PROVE  Allocated(p)[p.parts[n].fw] >= (Reserve + 1) * board.mtd_erasesize
<1> DEFINE f == p.parts[n].fw
<1>1. \A m \in DOMAIN p.parts : p.parts[m] \in Part
  BY PackageType
<1>2. f \in Parts /\ f \in Configured(p)
  BY <1>1 DEF Part, Configured
<1>3. f \in Images /\ f \notin Firmware
  BY <1>2 DEF Images, Parts, Firmware, BootFiles, Logos
<1>4. Allocated(p)[f] = PartAlloc(PartOf(p, f))
  BY <1>2, <1>3 DEF Allocated
<1>5. PICK m \in DOMAIN p.parts : PartOf(p, f) = p.parts[m]
  BY DEF PartOf
<1>6. p.parts[m].efs = "ext4" /\ p.parts[m].min >= (Reserve + 1) * board.mtd_erasesize
  BY DEF Suits, OnEmmc
<1>7. PartAlloc(p.parts[m]) = p.parts[m].min
  BY <1>6 DEF PartAlloc
<1>8. QED BY <1>4, <1>5, <1>6, <1>7

\* The partitions of a package that suits an eMMC are large enough.
LEMMA RoomyBegins ==
  ASSUME TypeOK, NEW p \in Packages, Fill(p)
  PROVE  Roomy'
<1> SUFFICES ASSUME OnEmmc'
             PROVE  (Partitions <= 9 /\ \A k \in 1..Partitions : Room(k) \in Nat /\ Room(k) > Reserve)'
  BY DEF Roomy
<1>1. /\ board \in Boards /\ board' = board /\ pkg' = p /\ alloc' = Allocated(p) /\ Suits(p) /\ OnEmmc
  BY DEF TypeOK, Fill, OnEmmc
<1>2. p.parts \in Seq(Part) /\ Partitions' = Len(p.parts) /\ DOMAIN p.parts = 1..Len(p.parts)
  BY <1>1, PackageType DEF Partitions
<1>3. Partitions' <= 9
  BY <1>1, <1>2 DEF Suits, OnEmmc
<1>4. ASSUME NEW k \in 1..Partitions' PROVE Room(k)' \in Nat /\ Room(k)' > Reserve
  <2> DEFINE a == Allocated(p)[p.parts[k].fw]
  <2>1. k \in DOMAIN p.parts
    BY <1>2
  <2>2. p.parts[k].fw \in Images
    <3>1. p.parts[k] \in Part
      BY <1>2, <2>1
    <3>2. QED BY <3>1 DEF Part, Images
  <2>3. a \in Nat
    BY <1>1, <2>2, AllocatedType
  <2>4. a >= (Reserve + 1) * board.mtd_erasesize
    BY <1>1, <2>1, PartMinimum
  <2>5. Room(k)' = a \div board.mtd_erasesize
    BY <1>1, <1>2 DEF Room, SectorsOf
  <2> HIDE DEF a
  <2>6. Reserve + 1 \in Nat /\ board.mtd_erasesize \in Nat \ {0}
    BY <1>1, BoardType, MbrAssumption
  <2>7. a \div board.mtd_erasesize >= Reserve + 1 /\ a \div board.mtd_erasesize \in Nat
    BY <2>3, <2>4, <2>6, AtLeast, Division
  <2>8. QED BY <2>5, <2>6, <2>7, MbrAssumption
<1>5. QED BY <1>3, <1>4

\* Nothing changes about the partitions of a package that is being installed.
LEMMA RoomyStays ==
  ASSUME Roomy, board' = board, pkg' = pkg, alloc' = alloc, phase # "idle"
  PROVE  Roomy'
<1>1. OnEmmc' = OnEmmc /\ Partitions' = Partitions /\ \A k : Room(k)' = Room(k)
  BY DEF OnEmmc, Partitions, Room, SectorsOf
<1>2. QED BY <1>1 DEF Roomy

\* Without a package, or before its partitions are added up, there are no tables.
LEMMA NothingYet ==
  ASSUME MbrType, phase' \in {"idle", "place", "accepted"}, mbr' = NoTables, at' = Origin,
         chain' = chain
  PROVE  MbrType' /\ Summing' /\ Tabled'
<1>1. mbr' \in Tables
  BY DEF NoTables, NoTable, NoEntry, Tables, Entries, Ids
<1>2. at' \in [table : Nat, part : Nat, count : Nat, acc : Int, parted : Nat]
  BY DEF Origin
<1>3. MbrType'
  BY <1>1, <1>2 DEF MbrType
<1>4. at'.parted = 0 /\ at' = [Origin EXCEPT !.parted = at'.parted]
  BY DEF Origin
<1>5. Summing'
  BY <1>4 DEF Summing, Blank
<1>6. Tabled'
  BY DEF Tabled
<1>7. QED BY <1>3, <1>5, <1>6

\* The program ends.
LEMMA ExitDInv ==
  ASSUME DInv, Exit, chain' = chain
  PROVE  DInv'
<1>1. phase' = "idle" /\ mbr' = NoTables /\ at' = Origin
  BY DEF Exit, MbrForgotten
<1>2. MbrType' /\ Summing' /\ Tabled'
  BY <1>1, NothingYet DEF DInv
<1>3. Stacked' /\ Roomy'
  BY <1>1 DEF Stacked, Roomy, Accepted
<1>4. QED BY <1>2, <1>3 DEF DInv

\* The steps before a layout is accepted.
LEMMA PlacingDInv ==
  ASSUME IInv, DInv,
         (\E p \in Packages : Fill(p)) \/ PlaceUp \/ PlaceDown \/ LeaveUnplaced \/ Accept
  PROVE  DInv'
<1>1. /\ phase \in {"idle", "place"} /\ phase' \in {"place", "accepted"} /\ board' = board
      /\ mbr' = mbr /\ at' = at /\ chain' = chain
  BY DEF Fill, PlaceUp, PlaceDown, LeaveUnplaced, Accept, Placing, Placed, mbrVars
<1>2. mbr = NoTables /\ at = Origin
  <2>1. Blank /\ at.parted = 0
    BY <1>1 DEF DInv, Summing
  <2>2. at = [Origin EXCEPT !.parted = 0] /\ mbr = NoTables
    BY <2>1 DEF Blank
  <2>3. QED BY <2>2 DEF Origin
<1>3. MbrType' /\ Summing' /\ Tabled'
  BY <1>1, <1>2, NothingYet DEF DInv
<1>4. Roomy'
  <2>1. CASE \E p \in Packages : Fill(p)
    BY <2>1, RoomyBegins DEF IInv
  <2>2. CASE PlaceUp \/ PlaceDown \/ LeaveUnplaced \/ Accept
    <3>1. board' = board /\ pkg' = pkg /\ alloc' = alloc /\ phase # "idle"
      BY <2>2 DEF PlaceUp, PlaceDown, LeaveUnplaced, Accept, Placing, Placed
    <3>2. QED BY <3>1, RoomyStays DEF DInv
  <2>3. QED BY <2>1, <2>2
<1>5. Stacked'
  <2> SUFFICES ASSUME OnEmmc'
               PROVE  /\ phase' = "place" => Stack(Down9(i - 1))'
                      /\ phase' \in Accepted => Stack(Partitions)'
    BY DEF Stacked
  <2>1. OnEmmc
    BY <1>1 DEF OnEmmc
  <2>2. CASE \E p \in Packages : Fill(p)
    <3>1. PICK p \in Packages : Fill(p)
      BY <2>2
    <3>2. phase' = "place" /\ Stack(Down9(i - 1))'
      BY <3>1, StackBegins DEF IInv, Fill
    <3>3. QED BY <3>2 DEF Accepted
  <2>3. CASE PlaceUp \/ PlaceDown \/ LeaveUnplaced
    <3>1. phase = "place" /\ phase' = "place"
      BY <2>3 DEF PlaceUp, PlaceDown, LeaveUnplaced, Placing
    <3>2. Stack(Down9(i - 1))
      BY <2>1, <3>1 DEF DInv, Stacked
    <3>3. Stack(Down9(i - 1))'
      BY <2>1, <2>3, <3>2, StackStays, StackGrows
    <3>4. QED BY <3>1, <3>3 DEF Accepted
  <2>4. CASE Accept
    <3>1. phase = "place" /\ phase' = "accepted"
      BY <2>4 DEF Accept, Placed
    <3>2. Stack(Down9(i - 1))
      BY <2>1, <3>1 DEF DInv, Stacked
    <3>3. Stack(Partitions)'
      BY <2>1, <2>4, <3>2, StackAccepted
    <3>4. QED BY <3>1, <3>3
  <2>5. QED BY <2>2, <2>3, <2>4
<1>6. QED BY <1>3, <1>4, <1>5 DEF DInv

\* An accepted layout stays as it is.
LEMMA StaysStacked ==
  ASSUME DInv, phase \in Accepted, phase' \in Accepted,
         UNCHANGED <<board, pkg, alloc, place, high>>
  PROVE  Stacked' /\ Roomy'
<1>1. phase # "idle" /\ phase' # "place"
  BY DEF Accepted
<1>2. Roomy'
  BY <1>1, RoomyStays DEF DInv
<1>3. OnEmmc' = OnEmmc /\ Partitions' = Partitions /\ \A j : Stack(j)' = Stack(j)
  BY SamePlaces
<1>4. Stacked'
  <2> SUFFICES ASSUME OnEmmc' PROVE Stack(Partitions)'
    BY <1>1 DEF Stacked
  <2>1. OnEmmc /\ Stack(Partitions)
    BY <1>3 DEF DInv, Stacked
  <2>2. QED BY <1>3, <2>1
<1>5. QED BY <1>2, <1>4

\* The adding up begins with nothing.
LEMMA StartDInv ==
  ASSUME IInv, DInv, Start
  PROVE  DInv'
<1>1. /\ phase = "accepted" /\ phase' = (IF board.flash_type = "emmc" THEN "sum" ELSE "burn")
      /\ i' = 1 /\ UNCHANGED <<board, pkg, alloc, place, high>> /\ UNCHANGED <<mbr, at, chain>>
  BY DEF Start, mbrVars
<1>2. Stacked' /\ Roomy'
  BY <1>1, StaysStacked DEF Accepted
<1>3. MbrType'
  BY <1>1 DEF DInv, MbrType
<1>4. OnEmmc' = OnEmmc
  BY <1>1 DEF OnEmmc
<1>5. CASE ~OnEmmc
  <2>1. phase' = "burn"
    BY <1>1, <1>5 DEF OnEmmc
  <2>2. Summing' /\ Tabled'
    BY <1>4, <1>5, <2>1 DEF Summing, Tabled
  <2>3. QED BY <1>2, <1>3, <2>2 DEF DInv
<1>6. CASE OnEmmc
  <2>1. phase' = "sum"
    BY <1>1, <1>6 DEF OnEmmc
  <2>2. Blank' /\ at'.parted = 0
    BY <1>1 DEF DInv, Summing, Blank
  <2>3. pkg \in Packages /\ board \in Boards
    BY <1>1 DEF IInv, Begun, TypeOK
  <2>4. Partitions \in Nat
    BY <1>6, <2>3, EmmcOrder
  <2> DEFINE S == [k \in 0..9 |-> 0]
  <2>5. S \in Totals /\ Sums(S, 0)
    BY DEF Totals, Sums
  <2>6. high = Edge(1) /\ high \in Int
    <3>1. Stack(Partitions)
      BY <1>1, <1>6 DEF DInv, Stacked, Accepted
    <3>2. Partitions + 1 - Partitions = 1
      BY <2>4
    <3>3. QED BY <3>1, <3>2 DEF Stack, IInv, TypeOK
  <2>7. Heights(S, 0)
    <3>1. 0 * board.mtd_erasesize = 0
      BY <2>3, BoardType
    <3>2. \A k \in 0..0 : k + 1 = 1 /\ S[k] = 0
      OBVIOUS
    <3>3. QED BY <2>6, <3>1, <3>2 DEF Heights
  <2>8. Sums(S, 0)' /\ Heights(S, 0)'
    BY <1>1, <2>5, <2>7, SamePlaces
  <2>9. Partitions' = Partitions
    BY <1>1 DEF Partitions
  <2>10. Summing'
    <3>1. i' - 1 = 0 /\ i' \in 1..(Partitions' + 1)
      BY <1>1, <2>4, <2>9
    <3>2. S[0] = 0
      OBVIOUS
    <3> HIDE DEF S
    <3>3. QED BY <1>4, <1>6, <2>1, <2>2, <2>5, <2>8, <3>1, <3>2 DEF Summing
  <2>11. Tabled'
    BY <2>1 DEF Tabled
  <2>12. QED BY <1>2, <1>3, <2>10, <2>11 DEF DInv
<1>7. QED BY <1>5, <1>6

\* What is known of the partitions once the layout is accepted.
LEMMA Known ==
  ASSUME IInv, DInv, OnEmmc, phase \in Accepted
  PROVE  /\ board \in Boards /\ pkg \in Packages
         /\ Partitions \in Nat /\ Partitions <= 9 /\ DOMAIN pkg.parts = 1..Partitions
         /\ board.mtd_erasesize \in Nat \ {0} /\ Reserve \in Nat /\ Reserve > 0
         /\ high \in Int /\ All \in Nat /\ All <= Sectors /\ Sectors \in Nat /\ Sectors > 0
         /\ board.flash_size = All * board.mtd_erasesize
         /\ \A k \in 1..Partitions :
              /\ Room(k) \in Nat /\ Room(k) > Reserve
              /\ alloc[Fw(k)] \in Nat /\ Room(k) = alloc[Fw(k)] \div board.mtd_erasesize
         /\ \A k \in 1..(Partitions + 1) : Edge(k) \in Int
         /\ \A k \in 1..Partitions : Edge(k) + alloc[Fw(k)] = Edge(k + 1)
         /\ Edge(Partitions + 1) = board.flash_size
<1>1. board \in Boards /\ pkg \in Packages /\ high \in Int /\ phase # "idle"
  BY DEF IInv, TypeOK, Begun, Accepted
<1>2. Partitions \in Nat /\ DOMAIN pkg.parts = 1..Partitions
  BY <1>1, EmmcOrder
<1>3. Partitions <= 9 /\ \A k \in 1..Partitions : Room(k) \in Nat /\ Room(k) > Reserve
  BY <1>1 DEF DInv, Roomy
<1>4. board.mtd_erasesize \in Nat \ {0} /\ board.flash_size \in Nat
  BY <1>1, BoardType
<1>5. Reserve \in Nat /\ Reserve > 0 /\ Sectors \in Nat /\ Sectors > 0
  BY MbrAssumption
<1>6. All \in Nat /\ All <= Sectors /\ board.flash_size = All * board.mtd_erasesize
  <2>1. PICK n \in 0..Sectors : board.flash_size = n * board.mtd_erasesize
    <3>1. \E n \in 0..Sectors : board.flash_size = n * board.mtd_erasesize
      BY <1>1, LayoutAssumption DEF OnEmmc
    <3>2. QED BY <3>1
  <2>2. n \in Nat /\ n <= Sectors
    BY <1>5
  <2>3. (n * board.mtd_erasesize) \div board.mtd_erasesize = n
    BY <1>4, <2>2, Multiple
  <2>4. All = n
    BY <2>1, <2>3 DEF All, SectorsOf
  <2>5. QED BY <2>1, <2>2, <2>4
<1>7. \A k \in 1..Partitions : alloc[Fw(k)] \in Nat /\ Room(k) = alloc[Fw(k)] \div board.mtd_erasesize
  BY <1>1, PartsKnown DEF IInv, Room, SectorsOf, Fw
<1>8. \A k \in 1..(Partitions + 1) : Edge(k) \in Int
  BY <1>1, PartsKnown DEF IInv
<1>9. \A k \in 1..Partitions : Edge(k) + alloc[Fw(k)] = Edge(k + 1)
  <2>1. Stack(Partitions)
    BY DEF DInv, Stacked
  <2>2. \A k \in 1..Partitions : k > Partitions - Partitions
    BY <1>2
  <2>3. QED BY <2>1, <2>2 DEF Stack
<1>10. Edge(Partitions + 1) = board.flash_size
  BY DEF Edge
<1>11. QED BY <1>1, <1>2, <1>3, <1>4, <1>5, <1>6, <1>7, <1>8, <1>9, <1>10

\* One turn of the loop that adds up the partitions.
LEMMA SumRoomsDInv ==
  ASSUME IInv, DInv, SumRooms
  PROVE  DInv'
<1>1. /\ phase = "sum" /\ phase' = "sum" /\ i' = i + 1 /\ i <= Partitions
      /\ at' = [at EXCEPT !.parted = @ + Room(i)] /\ mbr' = mbr /\ chain' = chain
      /\ UNCHANGED <<board, pkg, alloc, place, high>>
  BY DEF SumRooms, AddRoom
<1>2. Stacked' /\ Roomy'
  BY <1>1, StaysStacked DEF Accepted
<1>3. OnEmmc /\ i \in 1..(Partitions + 1) /\ Blank
  BY <1>1 DEF DInv, Summing
<1>4. PICK S \in Totals : Sums(S, i - 1) /\ Heights(S, i - 1) /\ at.parted = S[i - 1]
  BY <1>1 DEF DInv, Summing
<1>5. /\ Partitions \in Nat /\ Partitions <= 9 /\ board.mtd_erasesize \in Nat \ {0} /\ high \in Int
      /\ \A k \in 1..Partitions :
           /\ Room(k) \in Nat /\ alloc[Fw(k)] \in Nat
           /\ Room(k) = alloc[Fw(k)] \div board.mtd_erasesize
      /\ \A k \in 1..(Partitions + 1) : Edge(k) \in Int
      /\ \A k \in 1..Partitions : Edge(k) + alloc[Fw(k)] = Edge(k + 1)
      /\ DOMAIN pkg.parts = 1..Partitions
  BY <1>1, <1>3, Known DEF Accepted
<1>6. PICK n \in 1..9 : n = i
  <2>1. i \in 1..(Partitions + 1) /\ i <= Partitions /\ Partitions \in Nat /\ Partitions <= 9
    BY <1>1, <1>3, <1>5
  <2>2. QED BY ONLY <2>1
<1>7. /\ n \in 1..Partitions /\ n - 1 \in 0..9 /\ n \in 0..9 /\ n - 1 # n
      /\ n \in 1..(Partitions + 1) /\ n + 1 \in 1..(Partitions + 1)
  <2>1. n <= Partitions
    BY <1>1, <1>6
  <2>2. Partitions \in Nat /\ n \in 1..9
    BY <1>5
  <2>3. QED BY ONLY <2>1, <2>2
<1>8. S \in [0..9 -> Nat] /\ S[n - 1] \in Nat /\ Room(n) \in Nat
  <2>1. S \in [0..9 -> Nat]
    BY <1>4 DEF Totals
  <2>2. QED BY <1>5, <1>7, <2>1
<1>9. PICK T \in Totals : T[n] = S[n - 1] + Room(n) /\ \A k \in 0..9 \ {n} : T[k] = S[k]
  <2> DEFINE T == [S EXCEPT ![n] = S[n - 1] + Room(n)]
  <2>1. T \in Totals /\ T[n] = S[n - 1] + Room(n) /\ \A k \in 0..9 \ {n} : T[k] = S[k]
    <3>1. S[n - 1] + Room(n) \in Nat
      BY <1>8
    <3>2. QED BY <1>7, <1>8, <3>1 DEF Totals
  <2> HIDE DEF T
  <2>2. QED BY <2>1
<1>10. Sums(T, n)
  <2>1. T[0] = 0
    BY <1>4, <1>7, <1>9 DEF Sums
  <2>2. ASSUME NEW k \in 1..n PROVE T[k] = T[k - 1] + Room(k)
    <3>1. k - 1 \in 0..9 \ {n} /\ k \in 0..9
      BY <1>7, <2>2
    <3>2. CASE k = n
      BY <1>7, <1>9, <3>1, <3>2
    <3>3. CASE k # n
      <4>1. k \in 1..(i - 1) /\ k \in 0..9 \ {n}
        BY <1>6, <1>7, <2>2, <3>3
      <4>2. S[k] = S[k - 1] + Room(k)
        BY <1>4, <4>1 DEF Sums
      <4>3. T[k] = S[k] /\ T[k - 1] = S[k - 1]
        BY <1>9, <3>1, <4>1
      <4>4. QED BY <4>2, <4>3
    <3>4. QED BY <3>2, <3>3
  <2>3. QED BY <2>1, <2>2 DEF Sums
<1> DEFINE E == board.mtd_erasesize
<1>11. Heights(T, n)
  <2>1. ASSUME NEW k \in 0..n
        PROVE  /\ high + T[k] * E <= Edge(k + 1)
               /\ Even => high + T[k] * E = Edge(k + 1)
    <3>1. CASE k # n
      <4>1. k \in 0..(i - 1) /\ k \in 0..9 \ {n}
        BY <1>6, <1>7, <2>1, <3>1
      <4>2. T[k] = S[k]
        BY <1>9, <4>1
      <4>3. QED BY <1>4, <4>1, <4>2 DEF Heights
    <3>2. CASE k = n
      <4>1. n - 1 \in 0..(i - 1) /\ n - 1 + 1 = n
        BY <1>6, <1>7
      <4>2. /\ high + S[n - 1] * E <= Edge(n)
            /\ Even => high + S[n - 1] * E = Edge(n)
        BY <1>4, <4>1 DEF Heights
      <4> DEFINE a == alloc[Fw(n)]
      <4>3. a \in Nat /\ Room(n) = a \div E /\ Edge(n) + a = Edge(n + 1)
        BY <1>5, <1>7
      <4>4. a = Room(n) * E + (a % E) /\ a % E >= 0 /\ a % E \in Nat
        <5>1. /\ E \in Nat \ {0} /\ a \in Nat
          BY <1>5, <4>3
        <5> HIDE DEF a, E
        <5>2. QED BY <4>3, <5>1, Division, Remainder
      <4>5. Even => a % E = 0
        BY <1>5, <1>7 DEF Even
      <4>6. T[n] * E = S[n - 1] * E + Room(n) * E /\ S[n - 1] * E \in Int /\ Room(n) * E \in Int
        <5>0. S[n - 1] \in Int /\ Room(n) \in Int
          BY <1>8
        <5>1. S[n - 1] \in Int /\ Room(n) \in Int /\ E \in Nat \ {0}
          BY <1>5, <5>0
        <5>2. T[n] = S[n - 1] + Room(n)
          BY <1>9
        <5> HIDE DEF E
        <5>3. QED BY <5>1, <5>2, Larger
      <4>7. Edge(n) \in Int /\ Edge(n + 1) \in Int /\ high \in Int
        BY <1>5, <1>7
      <4> HIDE DEF a, E
      <4>8. high + T[n] * E <= Edge(n + 1)
        BY <4>2, <4>3, <4>4, <4>6, <4>7
      <4>9. ASSUME Even PROVE high + T[n] * E = Edge(n + 1)
        <5>1. high + S[n - 1] * E = Edge(n) /\ a % E = 0
          BY <4>2, <4>5, <4>9
        <5>2. QED BY <4>3, <4>4, <4>6, <4>7, <5>1
      <4>10. QED BY <3>2, <4>8, <4>9
    <3>3. QED BY <3>1, <3>2
  <2>2. QED BY <2>1 DEF Heights
<1> HIDE DEF E
<1>12. /\ Sums(T, n)' /\ Heights(T, n)' /\ Partitions' = Partitions /\ OnEmmc' = OnEmmc
  <2>1. \A Q, m : Sums(Q, m)' = Sums(Q, m) /\ Heights(Q, m)' = Heights(Q, m)
    BY <1>1, SamePlaces
  <2>2. QED BY <1>1, <1>10, <1>11, <2>1, SamePlaces
<1>13. MbrType' /\ Blank' /\ at'.parted = T[n]
  <2>1. at \in [table : Nat, part : Nat, count : Nat, acc : Int, parted : Nat]
    BY DEF DInv, MbrType
  <2>2. at.parted = S[n - 1]
    BY <1>4, <1>6
  <2>3. at'.parted = T[n]
    BY <1>1, <1>6, <1>9, <2>1, <2>2
  <2>4. T[n] \in Nat
    BY <1>8, <1>9
  <2>5. at' \in [table : Nat, part : Nat, count : Nat, acc : Int, parted : Nat]
    BY <1>1, <2>1, <2>3, <2>4
  <2>6. MbrType'
    BY <1>1, <2>5 DEF DInv, MbrType
  <2>7. at' = [Origin EXCEPT !.parted = at'.parted]
    BY <1>1, <1>3, <2>1 DEF Blank, Origin
  <2>8. Blank'
    BY <1>1, <1>3, <2>7 DEF Blank
  <2>9. QED BY <2>3, <2>6, <2>8
<1>14. Summing'
  <2>1. i' - 1 = n /\ i' \in 1..(Partitions' + 1)
    BY <1>1, <1>6, <1>7, <1>12
  <2>2. QED BY <1>1, <1>3, <1>9, <1>12, <1>13, <2>1 DEF Summing
<1>15. Tabled'
  BY <1>1 DEF Tabled
<1>16. QED BY <1>2, <1>13, <1>14, <1>15 DEF DInv

\* One field of one entry is set.
WithId(tb, t, p, v)    == [tb EXCEPT ![t][p].id = v]
WithStart(tb, t, p, v) == [tb EXCEPT ![t][p].start = v]
WithNum(tb, t, p, v)   == [tb EXCEPT ![t][p].num = v]

\* All other entries of a table are what they were.
SameBut(r, tb, t, p) == \A s \in 0..7, q \in 0..3 : s # t \/ q # p => r[s][q] = tb[s][q]

\* The start of an entry.
LEMMA SetStart ==
  ASSUME NEW tb \in Tables, NEW t \in 0..7, NEW p \in 0..3, NEW v \in Int
  PROVE  LET r == WithStart(tb, t, p, v) IN
         /\ r \in Tables /\ r[t][p].id = tb[t][p].id /\ r[t][p].start = v /\ r[t][p].num = tb[t][p].num
         /\ SameBut(r, tb, t, p)
BY DEF Tables, Entries, WithStart, SameBut

\* The sectors of an entry.
LEMMA SetNum ==
  ASSUME NEW tb \in Tables, NEW t \in 0..7, NEW p \in 0..3, NEW v \in Int
  PROVE  LET r == WithNum(tb, t, p, v) IN
         /\ r \in Tables /\ r[t][p].id = tb[t][p].id /\ r[t][p].num = v
         /\ r[t][p].start = tb[t][p].start
         /\ SameBut(r, tb, t, p)
BY DEF Tables, Entries, WithNum, SameBut

\* The kind of an entry.
LEMMA SetId ==
  ASSUME NEW tb \in Tables, NEW t \in 0..7, NEW p \in 0..3, NEW v \in Ids
  PROVE  LET r == WithId(tb, t, p, v) IN
         /\ r \in Tables /\ r[t][p].id = v /\ r[t][p].start = tb[t][p].start
         /\ r[t][p].num = tb[t][p].num
         /\ SameBut(r, tb, t, p)
BY DEF Tables, Entries, WithId, SameBut

\* The sums stay what they are while the tables are made, and the kernel's room with them.
LEMMA WholeStays ==
  ASSUME UNCHANGED <<board, pkg, alloc, place, high>>, at'.parted = at.parted
  PROVE  /\ OnEmmc' = OnEmmc /\ Partitions' = Partitions /\ All' = All
         /\ Kernel(All)' = Kernel(All) /\ \A k : Room(k)' = Room(k)
         /\ \A S : Whole(S)' = Whole(S)
         /\ \A k : Logical(k, Partitions)' = Logical(k, Partitions)
<1>1. /\ OnEmmc' = OnEmmc /\ Partitions' = Partitions /\ All' = All
      /\ \A k : Room(k)' = Room(k)
      /\ \A S, n : Sums(S, n)' = Sums(S, n) /\ Heights(S, n)' = Heights(S, n)
  BY SamePlaces
<1>2. Kernel(All)' = Kernel(All)
  BY <1>1 DEF Kernel
<1>3. \A S : Whole(S)' = Whole(S)
  BY <1>1 DEF Whole
<1>4. \A k : Logical(k, Partitions)' = Logical(k, Partitions)
  BY <1>1 DEF Logical
<1>5. QED BY <1>1, <1>2, <1>3, <1>4

\* The first entry begins behind the firmware.
LEMMA FirstTableDInv ==
  ASSUME IInv, DInv, FirstTable
  PROVE  DInv'
<1>1. /\ phase = "sum" /\ phase' = "entries" /\ i' = 1 /\ i > Partitions /\ All > at.parted
      /\ mbr' = [NoTables EXCEPT ![0][0].start = Kernel(All)] /\ at' = at /\ chain' = chain
      /\ UNCHANGED <<board, pkg, alloc, place, high>>
  BY DEF FirstTable, Fresh, TablesFit
<1>2. Stacked' /\ Roomy'
  BY <1>1, StaysStacked DEF Accepted
<1>3. OnEmmc /\ i \in 1..(Partitions + 1) /\ Blank
  BY <1>1 DEF DInv, Summing
<1>4. PICK S \in Totals : Sums(S, i - 1) /\ Heights(S, i - 1) /\ at.parted = S[i - 1]
  BY <1>1 DEF DInv, Summing
<1>5. /\ Partitions \in Nat /\ Partitions <= 9 /\ All \in Nat
      /\ at \in [table : Nat, part : Nat, count : Nat, acc : Int, parted : Nat]
  BY <1>1, <1>3, Known DEF Accepted, DInv, MbrType
<1>6. i - 1 = Partitions
  BY <1>1, <1>3, <1>5
<1>7. Whole(S)
  BY <1>1, <1>4, <1>6 DEF Whole
<1>8. Kernel(All) \in Int
  BY <1>5 DEF Kernel
<1>9. NoTables \in Tables
  BY DEF NoTables, NoTable, NoEntry, Tables, Entries, Ids
<1>10. mbr' \in Tables /\ mbr'[0][0].start = Kernel(All)
  <2> DEFINE r == [NoTables EXCEPT ![0][0].start = Kernel(All)]
  <2>1. 0 \in 0..7 /\ 0 \in 0..3
    OBVIOUS
  <2>2. r \in Tables /\ r[0][0].start = Kernel(All)
    BY <1>8, <1>9 DEF Tables, Entries
  <2>3. QED BY <1>1, <2>2
<1>11. MbrType'
  BY <1>1, <1>10 DEF DInv, MbrType
<1>12. /\ OnEmmc' = OnEmmc /\ Partitions' = Partitions /\ Kernel(All)' = Kernel(All)
       /\ Whole(S)'
  BY <1>1, <1>7, WholeStays
<1>13. Summing'
  BY <1>1, <1>3, <1>12 DEF Summing
<1>14. Described(S, 0)'
  <2>1. at'.count = 0 + 1 /\ at'.table = 0 /\ at'.part = 0
    BY <1>1, <1>3 DEF Blank, Origin
  <2>2. S[0] = 0
    BY <1>4 DEF Sums
  <2>3. mbr'[0][1 - 1].start = Kernel(All)' + S[1 - 1]
    BY <1>8, <1>10, <1>12, <2>2
  <2>4. ASSUME NEW k \in 1..(0 + 1), k <= Partitions'
        PROVE  /\ k <= 4 => mbr'[0][k - 1].start = Kernel(All)' + S[k - 1]
               /\ k >= 5 => mbr'[k - 4][1].start = S[k - 1] - S[3]
    <3>1. k = 1
      BY <2>4
    <3>2. QED BY <2>3, <3>1
  <2>5. ~(0 >= 4) /\ \A k \in 1..0 : FALSE
    OBVIOUS
  <2>6. QED BY <2>1, <2>4, <2>5 DEF Described
<1>15. Tabled'
  <2>1. i' - 1 = 0 /\ i' \in 1..(Partitions' + 1)
    BY <1>1, <1>5, <1>12
  <2>2. \E Q \in Totals : Whole(Q)' /\ Described(Q, i - 1)'
    BY <1>12, <1>14, <2>1
  <2>3. QED BY <1>1, <2>1, <2>2 DEF Tabled
<1>16. QED BY <1>2, <1>11, <1>13, <1>15 DEF DInv

\* What an extended partition changes.
Opened(tb, t, p, v, w) ==
  [tb EXCEPT ![t][p].id = "extended", ![t][p].num = v, ![t + 1][0].start = w]
OpenedOnly(r, tb, t, p) ==
  \A s \in 0..7, q \in 0..3 :
    (s # t \/ q # p) /\ (s # t + 1 \/ q # 0) => r[s][q] = tb[s][q]

\* Only the entry that is extended and the first start of the new table change.
LEMMA ExtendedIs ==
  ASSUME NEW tb \in Tables, NEW t \in 0..6, NEW p \in 0..3, NEW v \in Int, NEW w \in Int
  PROVE  LET r == Opened(tb, t, p, v, w) IN
         /\ r \in Tables /\ r[t][p].start = tb[t][p].start /\ r[t + 1][0].start = w
         /\ OpenedOnly(r, tb, t, p)
<1> DEFINE a == WithId(tb, t, p, "extended")
           b == WithNum(a, t, p, v)
           r == WithStart(b, t + 1, 0, w)
           x == Opened(tb, t, p, v, w)
<1>1. x = r
  BY DEF Opened, WithId, WithNum, WithStart
<1> HIDE DEF x
<1>2. t \in 0..7 /\ t + 1 \in 0..7 /\ 0 \in 0..3 /\ "extended" \in Ids /\ t + 1 # t
  BY DEF Ids
<1>3. a \in Tables /\ a[t][p].start = tb[t][p].start /\ SameBut(a, tb, t, p)
  BY <1>2, SetId
<1> HIDE DEF a
<1>4. b \in Tables /\ b[t][p].start = a[t][p].start /\ SameBut(b, a, t, p)
  BY <1>2, <1>3, SetNum
<1> HIDE DEF b
<1>5. r \in Tables /\ r[t + 1][0].start = w /\ SameBut(r, b, t + 1, 0)
  BY <1>2, <1>4, SetStart
<1> HIDE DEF r
<1>6. r[t][p].start = tb[t][p].start
  BY <1>2, <1>3, <1>4, <1>5 DEF SameBut
<1>7. x \in Tables /\ x[t][p].start = tb[t][p].start /\ x[t + 1][0].start = w
  BY <1>1, <1>5, <1>6
<1>8. OpenedOnly(x, tb, t, p)
  BY <1>1, <1>3, <1>4, <1>5 DEF SameBut, OpenedOnly
<1>9. QED BY <1>7, <1>8 DEF x

\* What the entry of the partition itself changes.
LEMMA EntryIs ==
  ASSUME NEW tb \in Tables, NEW t \in 0..7, NEW p \in 0..3, NEW sectors \in Int
  PROVE  LET r == Entry(tb, t, p, sectors) IN
         /\ r \in Tables /\ r[t][p].id = "linux" /\ r[t][p].num = sectors - Reserve
         /\ r[t][p].start = tb[t][p].start
         /\ SameBut(r, tb, t, p)
<1> DEFINE a == WithId(tb, t, p, "linux")
           r == WithNum(a, t, p, sectors - Reserve)
<1>1. Entry(tb, t, p, sectors) = r
  BY DEF WithId, WithNum, Entry
<1>2. "linux" \in Ids /\ sectors - Reserve \in Int
  BY MbrAssumption DEF Ids
<1>3. a \in Tables /\ a[t][p].start = tb[t][p].start /\ a[t][p].id = "linux" /\ SameBut(a, tb, t, p)
  BY <1>2, SetId
<1> HIDE DEF a
<1>4. /\ r \in Tables /\ r[t][p].start = a[t][p].start /\ r[t][p].id = a[t][p].id
      /\ r[t][p].num = sectors - Reserve /\ SameBut(r, a, t, p)
  <2>1. a \in Tables /\ t \in 0..7 /\ p \in 0..3 /\ sectors - Reserve \in Int
    BY <1>2, <1>3
  <2>2. QED BY ONLY <2>1, SetNum, Zenon
<1> HIDE DEF r
<1>5. SameBut(r, tb, t, p)
  <2>1. SameBut(r, a, t, p) /\ SameBut(a, tb, t, p)
    BY <1>3, <1>4
  <2>2. QED BY ONLY <2>1, Zenon DEF SameBut
<1>6. /\ r \in Tables /\ r[t][p].id = "linux" /\ r[t][p].num = sectors - Reserve
      /\ r[t][p].start = tb[t][p].start
  BY <1>3, <1>4
<1>7. QED BY ONLY <1>1, <1>5, <1>6, Zenon

\* The number of the partition whose entry is made, and the sums up to there.
LEMMA EntryBegins ==
  ASSUME IInv, DInv, NextEntry
  PROVE  /\ OnEmmc /\ Partitions \in Nat /\ Partitions <= 9 /\ i \in 1..Partitions
         /\ mbr \in Tables /\ All \in Nat /\ Kernel(All) \in Int
         /\ at \in [table : Nat, part : Nat, count : Nat, acc : Int, parted : Nat]
         /\ Reserve \in Nat /\ Reserve > 0 /\ Room(i) \in Nat
         /\ \E S \in Totals :
              /\ Whole(S) /\ Described(S, i - 1)
              /\ S \in [0..9 -> Nat] /\ S[i] = S[i - 1] + Room(i) /\ S[0] = 0
<1>1. phase = "entries" /\ i <= Partitions
  BY DEF NextEntry
<1>2. OnEmmc
  BY <1>1 DEF DInv, Summing
<1>3. /\ Partitions \in Nat /\ Partitions <= 9 /\ All \in Nat /\ Reserve \in Nat /\ Reserve > 0
      /\ \A k \in 1..Partitions : Room(k) \in Nat
  BY <1>1, <1>2, Known DEF Accepted
<1>4. i \in 1..(Partitions + 1) /\ \E S \in Totals : Whole(S) /\ Described(S, i - 1)
  BY <1>1, <1>2 DEF DInv, Tabled
<1>5. i \in 1..Partitions
  BY <1>1, <1>3, <1>4
<1>6. mbr \in Tables /\ at \in [table : Nat, part : Nat, count : Nat, acc : Int, parted : Nat]
  BY DEF DInv, MbrType
<1>7. Kernel(All) \in Int
  BY <1>3, <1>6 DEF Kernel
<1>8. PICK S \in Totals : Whole(S) /\ Described(S, i - 1)
  BY <1>4
<1>9. S[0] = 0 /\ S[i] = S[i - 1] + Room(i)
  BY <1>5, <1>8 DEF Whole, Sums
<1>10. S \in [0..9 -> Nat]
  BY DEF Totals
<1>11. QED BY <1>2, <1>3, <1>5, <1>6, <1>7, <1>8, <1>9, <1>10

\* The entry of a primary partition.
LEMMA PrimaryEntry ==
  ASSUME IInv, DInv, NextEntry, ~Logical(i, Partitions), NEW S \in Totals,
         Whole(S), Described(S, i - 1), S \in [0..9 -> Nat], S[i] = S[i - 1] + Room(i)
  PROVE  mbr' \in Tables /\ Described(S, i - 1)'
<1>1. /\ Partitions \in Nat /\ Partitions <= 9 /\ i \in 1..Partitions
      /\ mbr \in Tables /\ All \in Nat /\ Kernel(All) \in Int
      /\ at \in [table : Nat, part : Nat, count : Nat, acc : Int, parted : Nat]
      /\ Reserve \in Nat /\ Room(i) \in Nat
  BY EntryBegins
<1>2. PICK n \in 1..9 : n = i
  BY <1>1
<1>3. n < 4 \/ Partitions <= 4
  BY <1>1, <1>2 DEF Logical
<1>4. n <= 4 /\ n - 1 \in 0..3 /\ n <= Partitions /\ (n < Partitions => n \in 1..3)
  BY <1>1, <1>2, <1>3
<1>5. at.count = n /\ at.table = 0 /\ at.part = n - 1
  <2>1. ~(n - 1 >= 4)
    BY <1>4
  <2>2. at.count = n - 1 + 1 /\ at.table = 0 /\ at.part = n - 1
    BY <1>2, <2>1 DEF Described
  <2>3. QED BY <2>2
<1> DEFINE e == Entry(mbr, 0, n - 1, Room(i))
<1>6. /\ mbr' = Linked(e, 0, n - 1, Room(i), Partitions)
      /\ at'.table = 0 /\ at'.part = n - 1 + 1 /\ at'.count = n + 1 /\ at'.parted = at.parted
  <2>1. ~Logical(at.count, Partitions)
    BY <1>2, <1>5
  <2>2. /\ mbr' = Linked(Entry(Extended(mbr, Room(i), Partitions, All), 0, n - 1, Room(i)),
                         0, n - 1, Room(i), Partitions)
        /\ at' = [at EXCEPT !.table = 0, !.part = n - 1 + 1, !.count = @ + 1, !.acc = @ + Room(i)]
    BY <1>5, <2>1 DEF NextEntry, AddEntry
  <2>3. Extended(mbr, Room(i), Partitions, All) = mbr
    BY <2>1 DEF Extended
  <2>4. QED BY <1>1, <1>5, <2>2, <2>3
<1>7. 0 \in 0..7 /\ Room(i) \in Int /\ n - 1 + 1 = n
  BY <1>1, <1>2
<1>8. /\ e \in Tables /\ e[0][n - 1].id = "linux" /\ e[0][n - 1].num = Room(i) - Reserve
      /\ e[0][n - 1].start = mbr[0][n - 1].start
      /\ SameBut(e, mbr, 0, n - 1)
  BY <1>1, <1>4, <1>7, EntryIs
<1> HIDE DEF e
<1> DEFINE v == e[0][n - 1].start + Room(i)
<1>9. mbr' = IF n < Partitions THEN WithStart(e, 0, n, v) ELSE e
  <2>1. NextStart(e, 0, n - 1, Room(i)) = v
    BY DEF NextStart
  <2> HIDE DEF v
  <2>2. mbr' = IF n < Partitions THEN [e EXCEPT ![0][n].start = v] ELSE e
    BY <1>5, <1>6, <1>7, <2>1 DEF Linked
  <2>3. QED BY <2>2 DEF WithStart
<1>10. /\ mbr' \in Tables /\ mbr'[0][n - 1].id = "linux" /\ mbr'[0][n - 1].num = Room(i) - Reserve
       /\ mbr'[0][n - 1].start = mbr[0][n - 1].start
       /\ \A q \in 0..3 : q < n - 1 => mbr'[0][q] = mbr[0][q]
       /\ n < Partitions => mbr'[0][n].start = v
  <2>1. CASE ~(n < Partitions)
    <3>1. \A q \in 0..3 : q < n - 1 => mbr'[0][q] = mbr[0][q]
      BY <1>7, <1>8, <1>9, <2>1 DEF SameBut
    <3>2. QED BY <1>8, <1>9, <2>1, <3>1
  <2>2. CASE n < Partitions
    <3>1. v \in Int
      <4>1. e[0][n - 1].start \in Int
        BY <1>4, <1>7, <1>8 DEF Tables, Entries
      <4>2. QED BY <1>7, <4>1
    <3>2. n \in 0..3 /\ mbr' = WithStart(e, 0, n, v)
      BY <1>4, <1>9, <2>2
    <3> HIDE DEF v
    <3>3. mbr' \in Tables /\ mbr'[0][n].start = v /\ SameBut(mbr', e, 0, n)
      BY <1>7, <1>8, <3>1, <3>2, SetStart
    <3>4. n - 1 # n /\ \A q \in 0..3 : q < n - 1 => q # n /\ q # n - 1
      OBVIOUS
    <3>5. mbr'[0][n - 1] = e[0][n - 1]
      BY <1>4, <1>7, <3>3, <3>4 DEF SameBut
    <3>6. \A q \in 0..3 : q < n - 1 => mbr'[0][q] = mbr[0][q]
      BY <1>7, <1>8, <3>3, <3>4 DEF SameBut
    <3>7. QED BY <1>8, <3>3, <3>5, <3>6
  <2>3. QED BY <2>1, <2>2
<1>11. /\ Partitions' = Partitions /\ Kernel(All)' = Kernel(All) /\ i' = n + 1
       /\ \A k : Room(k)' = Room(k) /\ Logical(k, Partitions)' = Logical(k, Partitions)
  <2>1. UNCHANGED <<board, pkg, alloc, place, high>> /\ i' = i + 1
    BY DEF NextEntry
  <2>2. QED BY <1>2, <1>6, <2>1, WholeStays
<1>12. ASSUME NEW k \in 1..n
       PROVE  /\ ~Logical(k, Partitions)
              /\ mbr'[0][k - 1].id = "linux" /\ mbr'[0][k - 1].num = Room(k) - Reserve
              /\ mbr'[0][k - 1].start = mbr[0][k - 1].start
  <2>1. ~Logical(k, Partitions)
    BY <1>1, <1>3, <1>4 DEF Logical
  <2>2. CASE k = n
    BY <1>2, <1>10, <2>1, <2>2
  <2>3. CASE k # n
    <3>1. k \in 1..(n - 1) /\ k - 1 \in 0..3 /\ k - 1 < n - 1
      BY <1>4, <2>3
    <3>2. mbr[0][k - 1].id = "linux" /\ mbr[0][k - 1].num = Room(k) - Reserve
      BY <1>2, <2>1, <3>1 DEF Described
    <3>3. mbr'[0][k - 1] = mbr[0][k - 1]
      BY <1>10, <3>1
    <3>4. QED BY <2>1, <3>2, <3>3
  <2>4. QED BY <2>2, <2>3
<1>13. ASSUME NEW k \in 1..(n + 1), k <= Partitions
       PROVE  k <= 4 /\ mbr'[0][k - 1].start = Kernel(All) + S[k - 1]
  <2>1. k <= 4
    BY <1>1, <1>3, <1>4, <1>13
  <2>2. CASE k <= n
    <3>1. k \in 1..n /\ k \in 1..(n - 1 + 1)
      BY <2>2
    <3>2. mbr[0][k - 1].start = Kernel(All) + S[k - 1]
      BY <1>2, <1>13, <2>1, <3>1 DEF Described
    <3>3. QED BY <1>12, <2>1, <3>1, <3>2
  <2>3. CASE k = n + 1
    <3>1. n < Partitions /\ k - 1 = n /\ n \in 1..(n - 1 + 1) /\ n <= Partitions /\ n <= 4
      BY <1>1, <1>4, <1>13, <2>3
    <3>2. mbr[0][n - 1].start = Kernel(All) + S[n - 1]
      BY <1>2, <3>1 DEF Described
    <3>3. mbr'[0][n].start = mbr[0][n - 1].start + Room(i)
      BY <1>8, <1>10, <3>1
    <3>4. Kernel(All) \in Int /\ S[n - 1] \in Int /\ Room(i) \in Int /\ S[n] = S[n - 1] + Room(i)
      <4>1. n - 1 \in 0..9
        OBVIOUS
      <4>2. QED BY <1>1, <1>2, <1>7, <4>1
    <3>5. mbr'[0][n].start = Kernel(All) + S[n]
      BY <3>2, <3>3, <3>4
    <3>6. QED BY <2>1, <3>1, <3>5
  <2>4. QED BY <2>2, <2>3
<1>14. Described(S, n)'
  <2>1. ~(n >= 4 /\ Partitions > 4)
    BY <1>1, <1>3
  <2>2. at'.count = n + 1 /\ at'.table = 0 /\ at'.part = n
    BY <1>6, <1>7
  <2>3. \A k \in 1..n : ~Logical(k, Partitions)' /\ Room(k)' = Room(k)
    BY <1>11, <1>12
  <2>4. \A k \in 1..(n + 1) : k <= Partitions =>
          /\ k <= 4 => mbr'[0][k - 1].start = Kernel(All)' + S[k - 1]
          /\ k >= 5 => mbr'[k - 4][1].start = S[k - 1] - S[3]
    <3>1. TAKE k \in 1..(n + 1)
    <3>2. HAVE k <= Partitions
    <3>3. k <= 4 /\ mbr'[0][k - 1].start = Kernel(All) + S[k - 1]
      BY <1>13, <3>2
    <3>4. ~(k >= 5)
      BY <3>3
    <3>5. QED BY <1>11, <3>3, <3>4
  <2>5. QED BY <1>11, <1>12, <2>1, <2>2, <2>3, <2>4 DEF Described
<1>15. i' - 1 = n
  BY <1>11
<1>16. QED BY <1>10, <1>14, <1>15

\* The entry of a partition that is reached through a table of its own.
LEMMA LogicalEntry ==
  ASSUME IInv, DInv, NextEntry, Logical(i, Partitions), NEW S \in Totals,
         Whole(S), Described(S, i - 1), S \in [0..9 -> Nat], S[i] = S[i - 1] + Room(i)
  PROVE  mbr' \in Tables /\ Described(S, i - 1)'
<1>1. /\ Partitions \in Nat /\ Partitions <= 9 /\ i \in 1..Partitions
      /\ mbr \in Tables /\ All \in Nat /\ Kernel(All) \in Int
      /\ at \in [table : Nat, part : Nat, count : Nat, acc : Int, parted : Nat]
      /\ Reserve \in Nat /\ Room(i) \in Nat
  BY EntryBegins
<1>2. PICK n \in 1..9 : n = i
  BY <1>1
<1>3. n >= 4 /\ Partitions > 4
  BY <1>1, <1>2 DEF Logical
<1>4. n <= Partitions
  BY <1>1, <1>2
<1>5. PICK t \in 0..5 : t = n - 4
  BY <1>3
<1>6. PICK p \in {1, 3} : p = IF n = 4 THEN 3 ELSE 1
  OBVIOUS
<1>7. at.count = n /\ at.table = t /\ at.part = p
  <2>1. at.count = n - 1 + 1 /\ at.table = (IF n - 1 >= 4 THEN n - 1 - 3 ELSE 0)
        /\ at.part = (IF n - 1 >= 4 THEN 1 ELSE n - 1)
    BY <1>2, <1>3 DEF Described
  <2>2. CASE n = 4
    <3>1. n - 1 = 3 /\ ~(3 >= 4) /\ t = 0 /\ p = 3
      BY <1>5, <1>6, <2>2
    <3>2. QED BY <2>1, <2>2, <3>1
  <2>3. CASE n # 4
    <3>1. n - 1 >= 4 /\ n - 1 - 3 = t /\ p = 1
      BY <1>3, <1>5, <1>6, <2>3
    <3>2. QED BY <2>1, <3>1
  <2>4. QED BY <2>2, <2>3
<1>8. /\ t \in 0..6 /\ t \in 0..7 /\ p \in 0..3 /\ t + 1 \in 0..7 /\ t + 1 # t /\ t + 1 = n - 3
      /\ 0 \in 0..3 /\ 1 \in 0..3
  BY <1>3, <1>5, <1>6
<1> DEFINE u == IF n = 4 THEN All - at.acc - Kernel(All) ELSE Room(i)
           x == Opened(mbr, t, p, u, Reserve)
           e == Entry(x, t + 1, 0, Room(i))
<1>9. /\ mbr' = Linked(e, t + 1, 0, Room(i), Partitions)
      /\ at'.table = t + 1 /\ at'.part = 1 /\ at'.count = n + 1 /\ at'.parted = at.parted
  <2>1. Logical(at.count, Partitions)
    BY <1>2, <1>7
  <2>2. Extended(mbr, Room(i), Partitions, All) = x
    BY <1>7, <2>1 DEF Extended, Opened
  <2> HIDE DEF x
  <2>3. /\ mbr' = Linked(Entry(Extended(mbr, Room(i), Partitions, All), t + 1, 0, Room(i)),
                         t + 1, 0, Room(i), Partitions)
        /\ at' = [at EXCEPT !.table = t + 1, !.part = 0 + 1, !.count = @ + 1, !.acc = @ + Room(i)]
    BY <1>7, <2>1 DEF NextEntry, AddEntry
  <2>4. mbr' = Linked(e, t + 1, 0, Room(i), Partitions)
    BY <2>2, <2>3
  <2>5. QED BY <1>1, <1>7, <2>3, <2>4
<1>10. u \in Int
  BY <1>1
<1>11. /\ x \in Tables /\ x[t][p].start = mbr[t][p].start /\ x[t + 1][0].start = Reserve
       /\ OpenedOnly(x, mbr, t, p)
  <2> HIDE DEF u
  <2>1. Reserve \in Int
    BY <1>1
  <2>2. QED BY <1>1, <1>8, <1>10, <2>1, ExtendedIs
<1> HIDE DEF x
<1>12. /\ e \in Tables /\ e[t + 1][0].id = "linux" /\ e[t + 1][0].num = Room(i) - Reserve
       /\ e[t + 1][0].start = Reserve
       /\ SameBut(e, x, t + 1, 0)
  <2>1. Room(i) \in Int
    BY <1>1
  <2>2. QED BY <1>8, <1>11, <2>1, EntryIs
<1> HIDE DEF e
<1> DEFINE v == NextStart(e, t + 1, 0, Room(i))
<1>13. v = IF n = 4 THEN Room(i) ELSE Room(i) + mbr[t][1].start
  <2>1. CASE n = 4
    <3>1. t + 1 = 1
      BY <1>5, <2>1
    <3>2. v = e[1][0].start + e[1][0].num
      BY <3>1 DEF NextStart
    <3>3. e[1][0].start = Reserve /\ e[1][0].num = Room(i) - Reserve
      BY <1>12, <3>1
    <3>4. v = Room(i)
      <4> HIDE DEF v
      <4>1. QED BY <1>1, <3>2, <3>3
    <3>5. QED BY <2>1, <3>4
  <2>2. CASE n # 4
    <3>1. t + 1 > 1 /\ t + 1 - 1 = t /\ p = 1
      BY <1>3, <1>5, <1>6, <2>2
    <3>2. v = Room(i) + e[t][1].start
      BY <3>1 DEF NextStart
    <3>3. e[t][1].start = x[t][1].start
      BY <1>8, <1>12 DEF SameBut
    <3>4. x[t][1].start = mbr[t][1].start
      BY <1>11, <3>1 DEF OpenedOnly
    <3>5. QED BY <2>2, <3>2, <3>3, <3>4
  <2>3. QED BY <2>1, <2>2
<1>14. v \in Int
  <2>1. mbr[t][1].start \in Int
    BY <1>1, <1>8 DEF Tables, Entries
  <2> HIDE DEF v
  <2>2. QED BY <1>1, <1>13, <2>1
<1> HIDE DEF v
<1>15. mbr' = IF n < Partitions THEN WithStart(e, t + 1, 1, v) ELSE e
  <2>1. mbr' = IF n < Partitions THEN [e EXCEPT ![t + 1][1].start = v] ELSE e
    BY <1>7, <1>9 DEF Linked, v
  <2>2. QED BY <2>1 DEF WithStart
<1>16. /\ mbr' \in Tables /\ mbr'[t + 1][0] = e[t + 1][0]
       /\ \A s \in 0..7, q \in 0..3 : s # t + 1 => mbr'[s][q] = e[s][q]
       /\ n < Partitions => mbr'[t + 1][1].start = v
  <2>1. CASE ~(n < Partitions)
    <3>1. mbr' = e
      BY <1>15, <2>1
    <3>2. QED BY <1>12, <2>1, <3>1
  <2>2. CASE n < Partitions
    <3>1. mbr' = WithStart(e, t + 1, 1, v)
      BY <1>15, <2>2
    <3>2. mbr' \in Tables /\ mbr'[t + 1][1].start = v /\ SameBut(mbr', e, t + 1, 1)
      <4>1. e \in Tables /\ t + 1 \in 0..7 /\ 1 \in 0..3 /\ v \in Int
        BY <1>8, <1>12, <1>14
      <4>2. QED BY ONLY <3>1, <4>1, SetStart, Zenon
    <3>3. t + 1 \in 0..7 /\ 0 \in 0..3 /\ 0 # 1
      BY <1>8
    <3>4. QED BY <2>2, <3>2, <3>3, Zenon DEF SameBut
  <2>3. QED BY <2>1, <2>2
<1>17. \A s \in 0..7, q \in 0..3 :
         s # t + 1 => mbr'[s][q].start = mbr[s][q].start /\ (s # t \/ q # p => mbr'[s][q] = mbr[s][q])
  <2>1. TAKE s \in 0..7, q \in 0..3
  <2>2. HAVE s # t + 1
  <2>3. mbr'[s][q] = x[s][q]
    BY <1>12, <1>16, <2>2 DEF SameBut
  <2>4. x[s][q].start = mbr[s][q].start
    BY <1>11, <2>2 DEF OpenedOnly
  <2>5. s # t \/ q # p => x[s][q] = mbr[s][q]
    BY <1>11, <2>2 DEF OpenedOnly
  <2>6. QED BY <2>3, <2>4, <2>5
<1>18. /\ mbr'[t + 1][0].id = "linux" /\ mbr'[t + 1][0].num = Room(i) - Reserve
       /\ mbr'[t + 1][0].start = Reserve
  BY <1>12, <1>16
<1>19. /\ Partitions' = Partitions /\ Kernel(All)' = Kernel(All) /\ i' = n + 1
       /\ \A k : Room(k)' = Room(k) /\ Logical(k, Partitions)' = Logical(k, Partitions)
  <2>1. UNCHANGED <<board, pkg, alloc, place, high>> /\ i' = i + 1
    BY DEF NextEntry
  <2>2. QED BY <1>2, <1>9, <2>1, WholeStays
<1>20. \A k \in 1..n : Logical(k, Partitions) <=> k >= 4
  BY <1>1, <1>3 DEF Logical
<1>21. ASSUME NEW k \in 1..n, k >= 4
       PROVE  mbr'[k - 3][0].id = "linux" /\ mbr'[k - 3][0].num = Room(k) - Reserve
              /\ mbr'[k - 3][0].start = Reserve
  <2>1. CASE k = n
    BY <1>2, <1>8, <1>18, <2>1
  <2>2. CASE k # n
    <3>1. k \in 1..(n - 1) /\ k - 3 \in 0..7 /\ k - 3 # t + 1 /\ 0 # p
      BY <1>6, <1>8, <1>21, <2>2
    <3>2. mbr'[k - 3][0] = mbr[k - 3][0]
      BY <1>8, <1>17, <3>1
    <3>3. Logical(k, Partitions)
      BY <1>20, <1>21
    <3>4. /\ mbr[k - 3][0].id = "linux" /\ mbr[k - 3][0].num = Room(k) - Reserve
          /\ mbr[k - 3][0].start = Reserve
      BY <1>2, <3>1, <3>3 DEF Described
    <3>5. QED BY <3>2, <3>4
  <2>3. QED BY <2>1, <2>2
<1>22. ASSUME NEW k \in 1..n, ~(k >= 4)
       PROVE  mbr'[0][k - 1].id = "linux" /\ mbr'[0][k - 1].num = Room(k) - Reserve
  <2>1. /\ k \in 1..(n - 1) /\ k - 1 \in 0..3 /\ 0 \in 0..7 /\ 0 # t + 1 /\ (0 # t \/ k - 1 # p)
    BY <1>3, <1>5, <1>6, <1>22
  <2>2. mbr'[0][k - 1] = mbr[0][k - 1]
    BY <1>17, <2>1
  <2>3. ~Logical(k, Partitions)
    BY <1>20, <1>22
  <2>4. mbr[0][k - 1].id = "linux" /\ mbr[0][k - 1].num = Room(k) - Reserve
    BY <1>2, <2>1, <2>3 DEF Described
  <2>5. QED BY <2>2, <2>4
<1>23. ASSUME NEW k \in 1..(n + 1), k <= 4
       PROVE  mbr'[0][k - 1].start = Kernel(All) + S[k - 1]
  <2>1. k \in 1..(n - 1 + 1) /\ k <= Partitions /\ k - 1 \in 0..3 /\ 0 \in 0..7 /\ 0 # t + 1
    BY <1>1, <1>3, <1>5, <1>23
  <2>2. mbr[0][k - 1].start = Kernel(All) + S[k - 1]
    BY <1>2, <1>23, <2>1 DEF Described
  <2>3. mbr'[0][k - 1].start = mbr[0][k - 1].start
    BY <1>17, <2>1
  <2>4. QED BY <2>2, <2>3
<1>24. ASSUME NEW k \in 1..(n + 1), k <= Partitions, k >= 5
       PROVE  mbr'[k - 4][1].start = S[k - 1] - S[3]
  <2>1. CASE k <= n
    <3>1. k \in 1..(n - 1 + 1) /\ k - 4 \in 0..7 /\ k - 4 # t + 1
      BY <1>5, <1>24, <2>1
    <3>2. mbr[k - 4][1].start = S[k - 1] - S[3]
      BY <1>2, <1>24, <3>1 DEF Described
    <3>3. mbr'[k - 4][1].start = mbr[k - 4][1].start
      BY <1>8, <1>17, <3>1
    <3>4. QED BY <3>2, <3>3
  <2>2. CASE k = n + 1
    <3>1. k - 4 = t + 1 /\ k - 1 = n /\ n < Partitions
      BY <1>1, <1>5, <1>24, <2>2
    <3>2. mbr'[k - 4][1].start = v
      BY <1>16, <3>1
    <3>3. S[n] = S[n - 1] + Room(i) /\ S[n - 1] \in Int /\ S[3] \in Int /\ Room(i) \in Int
      <4>1. n - 1 \in 0..9 /\ 3 \in 0..9
        OBVIOUS
      <4>2. S[n - 1] \in Int /\ S[3] \in Int
        BY <4>1
      <4>3. QED BY <1>1, <1>2, <4>2
    <3>4. v = S[n] - S[3]
      <4>1. CASE n = 4
        <5>1. S[n - 1] = S[3]
          BY <4>1
        <5>2. v = Room(i)
          BY <1>13, <4>1
        <5>3. QED BY <3>3, <5>1, <5>2
      <4>2. CASE n # 4
        <5>1. n \in 1..(n - 1 + 1) /\ n >= 5 /\ n <= Partitions /\ n - 4 = t
          BY <1>3, <1>4, <1>5, <4>2
        <5>2. mbr[t][1].start = S[n - 1] - S[3]
          BY <1>2, <5>1 DEF Described
        <5>3. v = Room(i) + mbr[t][1].start
          BY <1>13, <4>2
        <5>4. QED BY <3>3, <5>2, <5>3
      <4>3. QED BY <4>1, <4>2
    <3>5. QED BY <3>1, <3>2, <3>4
  <2>3. QED BY <2>1, <2>2
<1>25. Described(S, n)'
  <2>1. at'.count = n + 1 /\ at'.table = n - 3 /\ at'.part = 1 /\ n >= 4 /\ Partitions > 4
    BY <1>3, <1>8, <1>9
  <2>2. ASSUME NEW k \in 1..n
        PROVE  LET q == IF Logical(k, Partitions)' THEN mbr'[k - 3][0] ELSE mbr'[0][k - 1] IN
               /\ q.id = "linux" /\ q.num = Room(k)' - Reserve
               /\ Logical(k, Partitions)' => q.start = Reserve
    <3>1. (Logical(k, Partitions)' <=> k >= 4) /\ Room(k)' = Room(k)
      BY <1>19, <1>20
    <3>2. CASE k >= 4
      BY <1>21, <3>1, <3>2
    <3>3. CASE ~(k >= 4)
      BY <1>22, <3>1, <3>3
    <3>4. QED BY <3>2, <3>3
  <2>3. \A k \in 1..(n + 1) : k <= Partitions =>
          /\ k <= 4 => mbr'[0][k - 1].start = Kernel(All)' + S[k - 1]
          /\ k >= 5 => mbr'[k - 4][1].start = S[k - 1] - S[3]
    BY <1>19, <1>23, <1>24
  <2>4. QED BY <1>19, <2>1, <2>2, <2>3 DEF Described
<1>26. i' - 1 = n
  BY <1>19
<1>27. QED BY <1>16, <1>25, <1>26

\* One turn of the loop that makes the tables.
LEMMA NextEntryDInv ==
  ASSUME IInv, DInv, NextEntry
  PROVE  DInv'
<1>1. /\ phase = "entries" /\ phase' = "entries" /\ i' = i + 1 /\ i <= Partitions
      /\ chain' = chain /\ UNCHANGED <<board, pkg, alloc, place, high>>
  BY DEF NextEntry, AddEntry
<1>2. Stacked' /\ Roomy'
  BY <1>1, StaysStacked DEF Accepted
<1>3. /\ OnEmmc /\ Partitions \in Nat /\ i \in 1..Partitions /\ Room(i) \in Nat
      /\ at \in [table : Nat, part : Nat, count : Nat, acc : Int, parted : Nat]
      /\ \E S \in Totals :
           /\ Whole(S) /\ Described(S, i - 1)
           /\ S \in [0..9 -> Nat] /\ S[i] = S[i - 1] + Room(i) /\ S[0] = 0
  BY EntryBegins
<1>4. PICK S \in Totals :
           /\ Whole(S) /\ Described(S, i - 1)
           /\ S \in [0..9 -> Nat] /\ S[i] = S[i - 1] + Room(i) /\ S[0] = 0
  BY <1>3
<1>5. mbr' \in Tables /\ Described(S, i - 1)'
  BY <1>4, PrimaryEntry, LogicalEntry
<1>6. /\ at' \in [table : Nat, part : Nat, count : Nat, acc : Int, parted : Nat]
      /\ at'.parted = at.parted
  <2>1. PICK t \in Nat, p \in Nat :
          at' = [at EXCEPT !.table = t, !.part = p, !.count = @ + 1, !.acc = @ + Room(i)]
    <3>1. at.table \in Nat /\ at.part \in Nat
      BY <1>3
    <3>2. at.table + 1 \in Nat /\ at.part + 1 \in Nat /\ 0 + 1 \in Nat
      BY <3>1
    <3>3. CASE Logical(at.count, Partitions)
      BY <3>2, <3>3 DEF NextEntry, AddEntry
    <3>4. CASE ~Logical(at.count, Partitions)
      BY <3>1, <3>2, <3>4 DEF NextEntry, AddEntry
    <3>5. QED BY <3>3, <3>4
  <2>2. at.count + 1 \in Nat /\ at.acc + Room(i) \in Int
    BY <1>3
  <2>3. QED BY <1>3, <2>1, <2>2
<1>7. MbrType'
  BY <1>1, <1>5, <1>6 DEF DInv, MbrType
<1>8. OnEmmc' = OnEmmc /\ Partitions' = Partitions /\ Whole(S)'
  BY <1>1, <1>4, <1>6, WholeStays
<1>9. Summing'
  BY <1>1, <1>3, <1>8 DEF Summing
<1>10. Tabled'
  <2>1. i' \in 1..(Partitions' + 1)
    BY <1>1, <1>3, <1>8
  <2>2. QED BY <1>1, <1>4, <1>5, <1>8, <2>1 DEF Tabled
<1>11. QED BY <1>2, <1>7, <1>9, <1>10 DEF DInv

-----------------------------------------------------------------------------
(* Where the tables go, and what they say.                                 *)

\* Each partition takes more than the reserve.
LEMMA Rising ==
  ASSUME NEW S \in Totals, NEW P \in 0..9, Reserve \in Nat,
         NEW R, \A k \in 1..P : R[k] \in Nat /\ R[k] > Reserve /\ S[k] = S[k - 1] + R[k]
  PROVE  \A a, b \in 0..P : a < b => S[a] + Reserve < S[b]
<1> DEFINE Above(k) == k <= P => \A a \in 0..P : a < k => S[a] + Reserve < S[k]
<1>1. \A k \in 0..9 : S[k] \in Nat
  BY DEF Totals
<1>2. ASSUME NEW k \in 0..8, Above(k) PROVE Above(k + 1)
  <2>1. SUFFICES ASSUME k + 1 <= P, NEW a \in 0..P, a < k + 1
                 PROVE  S[a] + Reserve < S[k + 1]
    OBVIOUS
  <2>2. k + 1 \in 1..P /\ k \in 0..9 /\ k + 1 \in 0..9 /\ a \in 0..9 /\ k + 1 - 1 = k /\ k <= P
    BY <2>1
  <2>3. R[k + 1] \in Nat /\ R[k + 1] > Reserve /\ S[k + 1] = S[k] + R[k + 1]
    BY <2>2
  <2>4. CASE a = k
    BY <1>1, <2>2, <2>3, <2>4
  <2>5. CASE a < k
    <3>1. S[a] + Reserve < S[k]
      BY <1>2, <2>2, <2>5
    <3>2. S[a] \in Nat /\ S[k] \in Nat
      BY <1>1, <2>2
    <3>3. QED BY <2>3, <3>1, <3>2
  <2>6. QED BY <2>1, <2>2, <2>4, <2>5
<1>3. Above(0)
  OBVIOUS
<1> HIDE DEF Above
<1>4. Above(0 + 1) /\ Above(1 + 1) /\ Above(2 + 1)
  <2>1. Above(0 + 1)
    BY <1>2, <1>3
  <2>2. Above(1 + 1)
    BY <1>2, <2>1
  <2>3. Above(2 + 1)
    BY <1>2, <2>2
  <2>4. QED BY <2>1, <2>2, <2>3
<1>5. Above(3 + 1) /\ Above(4 + 1) /\ Above(5 + 1)
  <2>1. Above(3 + 1)
    BY <1>2, <1>4
  <2>2. Above(4 + 1)
    BY <1>2, <2>1
  <2>3. Above(5 + 1)
    BY <1>2, <2>2
  <2>4. QED BY <2>1, <2>2, <2>3
<1>6. Above(6 + 1) /\ Above(7 + 1) /\ Above(8 + 1)
  <2>1. Above(6 + 1)
    BY <1>2, <1>5
  <2>2. Above(7 + 1)
    BY <1>2, <2>1
  <2>3. Above(8 + 1)
    BY <1>2, <2>2
  <2>4. QED BY <2>1, <2>2, <2>3
<1>7. \A k \in 0..9 : k = 0 \/ k = 0 + 1 \/ k = 1 + 1 \/ k = 2 + 1 \/ k = 3 + 1 \/ k = 4 + 1
                      \/ k = 5 + 1 \/ k = 6 + 1 \/ k = 7 + 1 \/ k = 8 + 1
  OBVIOUS
<1>8. \A k \in 0..9 : Above(k)
  BY <1>3, <1>4, <1>5, <1>6, <1>7
<1>9. QED
  <2>1. SUFFICES ASSUME NEW a \in 0..P, NEW b \in 0..P, a < b PROVE S[a] + Reserve < S[b]
    OBVIOUS
  <2>2. b \in 0..9 /\ b <= P
    OBVIOUS
  <2>3. QED BY <1>8, <2>1, <2>2 DEF Above

\* The tables have each a sector of their own, at the start of the room of a partition.
LEMMA Places ==
  ASSUME IInv, DInv, OnEmmc, phase \in Accepted, NEW S \in Totals,
         Whole(S), Described(S, Partitions)
  PROVE  /\ at.table \in 0..6 /\ (at.table # 0 => Partitions > 4 /\ at.table = Partitions - 3)
         /\ (Partitions > 4 => at.table = Partitions - 3)
         /\ Kernel(All) \in Nat /\ Kernel(All) > 0 /\ Kernel(All) + S[Partitions] = All
         /\ \A a \in 0..9 : S[a] \in Nat
         /\ \A a, b \in 0..Partitions : a < b => S[a] + Reserve < S[b]
         /\ Place(0) = 0
         /\ \A t \in 1..at.table : t + 2 < Partitions /\ Place(t) = Kernel(All) + S[t + 2]
         /\ \A t \in 0..at.table : Place(t) \in 0..(Sectors - 1)
         /\ \A s, t \in 0..at.table : s < t => Place(s) < Place(t)
<1>1. /\ Partitions \in Nat /\ Partitions <= 9 /\ Reserve \in Nat /\ Reserve > 0
      /\ All \in Nat /\ All <= Sectors /\ Sectors \in Nat
      /\ \A k \in 1..Partitions : Room(k) \in Nat /\ Room(k) > Reserve
  BY Known
<1>2. PICK P \in 0..9 : P = Partitions
  BY <1>1
<1>3. \A a \in 0..9 : S[a] \in Nat
  BY DEF Totals
<1>4. at.table = IF P > 4 THEN P - 3 ELSE 0
  <2>1. at.table = IF P >= 4 /\ P > 4 THEN P - 3 ELSE 0
    BY <1>2 DEF Described
  <2>2. QED BY <2>1
<1>5. at.table \in 0..6 /\ (at.table # 0 => P > 4) /\ (at.table # 0 => at.table = P - 3)
  BY <1>2, <1>4
<1>6. \A a, b \in 0..P : a < b => S[a] + Reserve < S[b]
  <2> DEFINE R == [k \in 1..P |-> Room(k)]
  <2>1. \A k \in 1..P : R[k] \in Nat /\ R[k] > Reserve /\ S[k] = S[k - 1] + R[k]
    BY <1>1, <1>2 DEF Whole, Sums
  <2> HIDE DEF R
  <2>2. QED BY <1>1, <2>1, Rising
<1>7. Kernel(All) \in Nat /\ Kernel(All) > 0 /\ Kernel(All) + S[P] = All
  <2>1. Kernel(All) = All - S[P] /\ S[P] < All
    BY <1>2 DEF Whole, Kernel
  <2>2. S[P] \in Nat
    BY <1>3
  <2>3. QED BY <1>1, <2>1, <2>2
<1> DEFINE K == Kernel(All)
<1> HIDE DEF K
<1>8. K \in Nat /\ K > 0 /\ K + S[P] = All
  BY <1>7 DEF K
<1>9. Place(0) = 0
  BY DEF Place
<1>10. ASSUME NEW t \in 1..6, t <= at.table
       PROVE  t + 2 < P /\ Place(t) = K + S[t + 2]
  <2>1. P > 4 /\ t <= P - 3
    BY <1>4, <1>5, <1>10
  <2>2. t + 2 < P /\ 4 \in 1..(P + 1)
    BY <2>1
  <2>3. mbr[0][4 - 1].start = K + S[4 - 1]
    BY <1>2, <2>1, <2>2 DEF Described, K
  <2>4. mbr[0][3].start = K + S[3]
    BY <2>3
  <2>5. CASE t = 1
    <3>1. Place(1) = mbr[0][3].start
      BY DEF Place
    <3>2. QED BY <2>2, <2>4, <2>5, <3>1
  <2>6. CASE t # 1
    <3>1. t - 1 = (t + 3) - 4 /\ t + 3 \in 1..(P + 1) /\ t + 3 <= P /\ t + 3 >= 5 /\ (t + 3) - 1 = t + 2
      BY <2>1, <2>6
    <3>2. mbr[(t + 3) - 4][1].start = S[(t + 3) - 1] - S[3]
      BY <1>2, <3>1 DEF Described
    <3>3. Place(t) = mbr[t - 1][1].start + mbr[0][3].start
      BY <2>6 DEF Place
    <3>4. S[t + 2] \in Nat /\ S[3] \in Nat
      <4>1. t + 2 \in 0..9 /\ 3 \in 0..9
        OBVIOUS
      <4>2. QED BY <1>3, <4>1
    <3>5. Place(t) = (S[t + 2] - S[3]) + (K + S[3])
      BY <2>4, <3>1, <3>2, <3>3
    <3>6. QED BY <1>8, <2>2, <3>4, <3>5
  <2>7. QED BY <2>5, <2>6
<1>11. \A t \in 1..at.table : t + 2 < P /\ Place(t) = K + S[t + 2]
  <2>1. \A t \in 1..at.table : t \in 1..6 /\ t <= at.table
    BY <1>5
  <2>2. QED BY <1>10, <2>1
<1>12. \A t \in 0..at.table : Place(t) \in 0..(Sectors - 1)
  <2>1. TAKE t \in 0..at.table
  <2>2. CASE t = 0
    BY <1>1, <1>3, <1>8, <1>9, <2>2
  <2>3. CASE t # 0
    <3>1. t \in 1..at.table /\ t \in 1..6
      BY <1>5, <2>3
    <3>2. t + 2 < P /\ Place(t) = K + S[t + 2]
      BY <1>11, <3>1
    <3>3. t + 2 \in 0..P /\ P \in 0..P /\ t + 2 \in 0..9
      BY <3>1, <3>2
    <3>4. S[t + 2] + Reserve < S[P] /\ S[t + 2] \in Nat /\ S[P] \in Nat
      BY <1>3, <1>6, <3>2, <3>3
    <3>5. QED BY <1>1, <1>8, <3>2, <3>4
  <2>4. QED BY <2>2, <2>3
<1>13. ASSUME NEW s \in 0..at.table, NEW t \in 0..at.table, s < t PROVE Place(s) < Place(t)
  <2>1. t \in 1..at.table /\ t \in 1..6
    BY <1>5, <1>13
  <2>2. t + 2 < P /\ Place(t) = K + S[t + 2] /\ t + 2 \in 0..9 /\ t + 2 \in 0..P
    BY <1>11, <2>1
  <2>3. S[t + 2] \in Nat
    BY <1>3, <2>2
  <2>4. CASE s = 0
    BY <1>8, <1>9, <2>2, <2>3, <2>4
  <2>5. CASE s # 0
    <3>1. s \in 1..at.table /\ s \in 1..6
      BY <1>5, <2>5
    <3>2. Place(s) = K + S[s + 2] /\ s + 2 \in 0..9 /\ s + 2 \in 0..P /\ s + 2 < t + 2
      BY <1>11, <1>13, <2>1, <3>1
    <3>3. S[s + 2] \in Nat /\ S[s + 2] + Reserve < S[t + 2]
      BY <1>3, <1>6, <2>2, <3>2
    <3>4. QED BY <1>1, <1>8, <2>2, <2>3, <3>2, <3>3
  <2>6. QED BY <2>4, <2>5
<1>14. QED BY <1>2, <1>3, <1>4, <1>5, <1>6, <1>7, <1>9, <1>11, <1>12, <1>13 DEF K

\* While the tables in memory stay, so does what they say.
LEMMA SaysTheSame ==
  ASSUME UNCHANGED <<board, pkg, alloc, place, high, mbr, at>>
  PROVE  /\ OnEmmc' = OnEmmc /\ Partitions' = Partitions /\ at'.table = at.table
         /\ \A S : Whole(S)' = Whole(S)
         /\ \A S, n : Described(S, n)' = Described(S, n)
         /\ \A t : Place(t)' = Place(t)
<1>1. /\ OnEmmc' = OnEmmc /\ Partitions' = Partitions /\ All' = All
      /\ Kernel(All)' = Kernel(All) /\ \A k : Room(k)' = Room(k)
      /\ \A S : Whole(S)' = Whole(S)
      /\ \A k : Logical(k, Partitions)' = Logical(k, Partitions)
  BY WholeStays
<1>2. \A S, n : Described(S, n)' = Described(S, n)
  BY <1>1 DEF Described
<1>3. \A t : Place(t)' = Place(t)
  BY DEF Place
<1>4. QED BY <1>1, <1>2, <1>3

\* The steps that leave the tables alone.
LEMMA BetweenDInv ==
  ASSUME IInv, DInv, FirstWrite \/ FirstFormat \/ Formatted \/ Burn
  PROVE  DInv'
<1>1. /\ UNCHANGED <<board, pkg, alloc, place, high>> /\ mbr' = mbr /\ at' = at /\ chain' = chain
      /\ phase \in Accepted /\ phase' \in Accepted
  BY DEF FirstWrite, FirstFormat, Formatted, Burn, mbrVars, layoutVars, Accepted
<1>2. Stacked' /\ Roomy'
  BY <1>1, StaysStacked
<1>3. MbrType'
  BY <1>1 DEF DInv, MbrType
<1>4. /\ OnEmmc' = OnEmmc /\ Partitions' = Partitions /\ at'.table = at.table
      /\ \A S : Whole(S)' = Whole(S)
      /\ \A S, n : Described(S, n)' = Described(S, n)
      /\ \A t : Place(t)' = Place(t)
  BY <1>1, SaysTheSame
<1>5. Summing'
  BY <1>4 DEF FirstWrite, FirstFormat, Formatted, Burn, DInv, Summing
<1>6. \A n : Chained(n)' = Chained(n)
  BY <1>1, <1>4 DEF Chained
<1>7. ASSUME OnEmmc PROVE Partitions \in Nat /\ at.table \in Nat
  BY <1>1, <1>7, Known DEF DInv, MbrType
<1>8. Tabled'
  <2> SUFFICES ASSUME OnEmmc' PROVE Tabled'
    BY DEF Tabled
  <2>0. OnEmmc /\ Partitions \in Nat /\ at.table \in Nat
    BY <1>4, <1>7
  <2>1. CASE FirstWrite
    <3>1. phase = "entries" /\ i > Partitions /\ phase' = "write" /\ i' = 0
      BY <2>1 DEF FirstWrite
    <3>2. i \in 1..(Partitions + 1)
      BY <2>0, <3>1 DEF DInv, Tabled
    <3>3. PICK S \in Totals : Whole(S) /\ Described(S, i - 1)
      BY <2>0, <3>1 DEF DInv, Tabled
    <3>4. i - 1 = Partitions /\ 0 \in 0..(at.table + 1)
      BY <2>0, <3>1, <3>2
    <3>5. Chained(0)
      BY DEF Chained
    <3>6. Whole(S)' /\ Described(S, Partitions)' /\ Chained(0)'
      BY <1>4, <1>6, <3>3, <3>4, <3>5
    <3>7. i' \in 0..(at'.table + 1)
      BY <1>1, <3>1, <3>4
    <3>8. QED BY <3>1, <3>6, <3>7 DEF Tabled
  <2>2. CASE FirstFormat
    <3>1. phase = "write" /\ i > at.table /\ phase' = "format" /\ i' = 1
      BY <2>2 DEF FirstFormat
    <3>2. i \in 0..(at.table + 1)
      BY <2>0, <3>1 DEF DInv, Tabled
    <3>3. PICK S \in Totals : Whole(S) /\ Described(S, Partitions) /\ Chained(i)
      BY <2>0, <3>1 DEF DInv, Tabled
    <3>4. i = at.table + 1 /\ 1 \in 1..(Partitions + 1)
      BY <2>0, <3>1, <3>2
    <3>5. Whole(S)' /\ Described(S, Partitions)' /\ Chained(at.table + 1)'
      BY <1>4, <1>6, <3>3, <3>4
    <3>6. i' \in 1..(Partitions' + 1)
      BY <1>4, <3>1, <3>4
    <3>7. QED BY <3>1, <3>5, <3>6 DEF Tabled
  <2>3. CASE Formatted \/ Burn
    <3>1. phase \in {"format", "burn"} /\ phase' \in {"burn", "burning"}
      BY <2>3 DEF Formatted, Burn
    <3>2. PICK S \in Totals : Whole(S) /\ Described(S, Partitions) /\ Chained(at.table + 1)
      BY <2>0, <3>1 DEF DInv, Tabled
    <3>3. Whole(S)' /\ Described(S, Partitions)' /\ Chained(at.table + 1)'
      BY <1>4, <1>6, <3>2
    <3>4. QED BY <3>1, <3>3 DEF Tabled
  <2>4. QED BY <2>1, <2>2, <2>3
<1>9. QED BY <1>2, <1>3, <1>5, <1>8 DEF DInv

\* A table is written, over none that was written before.
LEMMA WriteTableDInv ==
  ASSUME IInv, DInv, WriteTable
  PROVE  DInv'
<1>1. /\ phase = "write" /\ phase' = "write" /\ i <= at.table /\ i' = i + 1
      /\ chain' = [chain EXCEPT ![Place(i)] = mbr[i]]
      /\ UNCHANGED <<board, pkg, alloc, place, high>> /\ mbr' = mbr /\ at' = at
      /\ phase \in Accepted /\ phase' \in Accepted
  BY DEF WriteTable, SetMbr, Accepted
<1>2. Stacked' /\ Roomy'
  BY <1>1, StaysStacked
<1>3. OnEmmc /\ i \in 0..(at.table + 1)
  BY <1>1 DEF DInv, Summing, Tabled
<1>4. PICK S \in Totals : Whole(S) /\ Described(S, Partitions) /\ Chained(i)
  BY <1>1, <1>3 DEF DInv, Tabled
<1>5. /\ at.table \in 0..6
      /\ \A t \in 0..at.table : Place(t) \in 0..(Sectors - 1)
      /\ \A s, t \in 0..at.table : s < t => Place(s) < Place(t)
  BY <1>1, <1>3, <1>4, Places
<1>6. PICK n \in 0..6 : n = i /\ n <= at.table /\ n \in 0..at.table
  BY <1>1, <1>3, <1>5
<1>7. Place(n) \in 0..(Sectors - 1) /\ chain \in [0..(Sectors - 1) -> [0..3 -> Entries]]
  BY <1>5, <1>6 DEF DInv, MbrType
<1>8. mbr[n] \in [0..3 -> Entries]
  <2>1. mbr \in Tables /\ n \in 0..7
    BY DEF DInv, MbrType
  <2>2. QED BY <2>1 DEF Tables
<1>9. chain' = [chain EXCEPT ![Place(n)] = mbr[n]]
  BY <1>1, <1>6
<1>10. MbrType'
  BY <1>1, <1>7, <1>8, <1>9 DEF DInv, MbrType
<1>11. chain'[Place(n)] = mbr[n] /\ \A x \in 0..(Sectors - 1) : x # Place(n) => chain'[x] = chain[x]
  BY <1>7, <1>9
<1>12. /\ OnEmmc' = OnEmmc /\ Partitions' = Partitions /\ at'.table = at.table
       /\ Whole(S)' /\ Described(S, Partitions)' /\ \A t : Place(t)' = Place(t)
  BY <1>1, <1>4, SaysTheSame
<1>13. Chained(n + 1)'
  <2>1. ASSUME NEW t \in 0..n PROVE chain'[Place(t)] = mbr[t]
    <3>1. CASE t = n
      BY <1>11, <3>1
    <3>2. CASE t # n
      <4>1. t < n /\ t \in 0..(n - 1) /\ t \in 0..at.table
        BY <1>5, <1>6, <3>2
      <4>2. chain[Place(t)] = mbr[t]
        BY <1>4, <1>6, <4>1 DEF Chained
      <4>3. Place(t) < Place(n) /\ Place(t) \in 0..(Sectors - 1)
        BY <1>5, <1>6, <4>1
      <4>4. Place(t) # Place(n)
        BY <1>7, <4>3
      <4>5. QED BY <1>11, <4>2, <4>3, <4>4
    <3>3. QED BY <3>1, <3>2
  <2>2. n + 1 - 1 = n
    OBVIOUS
  <2>3. QED BY <1>1, <1>12, <2>1, <2>2 DEF Chained
<1>14. Tabled'
  <2>1. i' = n + 1 /\ i' \in 0..(at'.table + 1)
    BY <1>1, <1>5, <1>6, <1>12
  <2>2. Chained(i)'
    BY <1>13, <2>1
  <2>3. QED BY <1>1, <1>12, <2>1, <2>2 DEF Tabled
<1>15. Summing'
  BY <1>1, <1>3, <1>12 DEF Summing
<1>16. QED BY <1>2, <1>10, <1>14, <1>15 DEF DInv

\* The recursive function that follows the chain is what its definition says.
LEMMA Following ==
  TableAt = [k \in 1..7 |-> IF k = 1 THEN chain[0][3].start
                            ELSE chain[0][3].start + chain[TableAt[k - 1]][1].start]
<1> DEFINE c == chain[0][3].start
           Next1(x) == c + chain[x][1].start
           F(f) == [k \in 1..7 |-> IF k = 1 THEN c ELSE c + chain[f[k - 1]][1].start]
           a2 == Next1(c)
           a3 == Next1(a2)
           a4 == Next1(a3)
           a5 == Next1(a4)
           a6 == Next1(a5)
           a7 == Next1(a6)
           w == <<c, a2, a3, a4, a5, a6, a7>>
<1> HIDE DEF c, a2, a3, a4, a5, a6, a7
<1>1. w = [k \in 1..7 |-> IF k = 1 THEN c ELSE IF k = 2 THEN a2 ELSE IF k = 3 THEN a3
                          ELSE IF k = 4 THEN a4 ELSE IF k = 5 THEN a5 ELSE IF k = 6 THEN a6 ELSE a7]
  OBVIOUS
<1>2. w[1] = c /\ w[2] = a2 /\ w[3] = a3 /\ w[4] = a4 /\ w[5] = a5 /\ w[6] = a6
  OBVIOUS
<1> HIDE DEF w
<1>3. \A k \in 1..7 : w[k] = IF k = 1 THEN c ELSE Next1(w[k - 1])
  <2>1. TAKE k \in 1..7
  <2>2. k = 1 \/ k = 2 \/ k = 3 \/ k = 4 \/ k = 5 \/ k = 6 \/ k = 7
    OBVIOUS
  <2>3. 2 - 1 = 1 /\ 3 - 1 = 2 /\ 4 - 1 = 3 /\ 5 - 1 = 4 /\ 6 - 1 = 5 /\ 7 - 1 = 6
    OBVIOUS
  <2> HIDE DEF Next1
  <2>4. w[1] = c /\ w[2] = Next1(w[1]) /\ w[3] = Next1(w[2]) /\ w[4] = Next1(w[3])
        /\ w[5] = Next1(w[4]) /\ w[6] = Next1(w[5]) /\ w[7] = Next1(w[6])
    BY <1>1, <1>2 DEF a2, a3, a4, a5, a6, a7
  <2>5. QED BY <2>2, <2>3, <2>4
<1>4. w = F(w)
  BY <1>1, <1>3
<1>5. TableAt = CHOOSE f : f = F(f)
  BY DEF TableAt, c
<1> HIDE DEF F
<1>6. TableAt = F(TableAt)
  BY <1>4, <1>5
<1>7. QED BY <1>6 DEF F, c

\* Linux finds each table where it was written.
LEMMA Found ==
  ASSUME IInv, DInv, OnEmmc, phase \in Accepted, NEW S \in Totals,
         Whole(S), Described(S, Partitions), Chained(at.table + 1)
  PROVE  /\ chain[0] = mbr[0]
         /\ \A t \in 1..at.table : TableAt[t] = Place(t) /\ chain[TableAt[t]] = mbr[t]
<1>1. at.table \in 0..6 /\ Place(0) = 0
  BY Places
<1>2. \A t \in 0..at.table : chain[Place(t)] = mbr[t]
  BY <1>1 DEF Chained
<1>3. chain[0] = mbr[0]
  BY <1>1, <1>2
<1>4. \A t \in 0..7, q \in 0..3 : mbr[t][q].start \in Int
  <2>1. mbr \in Tables
    BY DEF DInv, MbrType
  <2>2. QED BY <2>1 DEF Tables, Entries
<1>0. \A k \in 1..7 : TableAt[k] = IF k = 1 THEN chain[0][3].start
                                  ELSE chain[0][3].start + chain[TableAt[k - 1]][1].start
  <2> DEFINE F(f) == [k \in 1..7 |-> IF k = 1 THEN chain[0][3].start
                                    ELSE chain[0][3].start + chain[f[k - 1]][1].start]
  <2>1. \A f, k : k \in 1..7 =>
          F(f)[k] = IF k = 1 THEN chain[0][3].start
                    ELSE chain[0][3].start + chain[f[k - 1]][1].start
    OBVIOUS
  <2>2. TableAt = F(TableAt)
    BY Following
  <2> HIDE DEF F
  <2>3. QED BY <2>1, <2>2
<1>5. TableAt[1] = mbr[0][3].start
  BY <1>0, <1>3
<1>6. \A t \in 1..6 : TableAt[t + 1] = mbr[0][3].start + chain[TableAt[t]][1].start
  <2>1. TAKE t \in 1..6
  <2>2. t + 1 \in 1..7 /\ t + 1 # 1 /\ t + 1 - 1 = t
    OBVIOUS
  <2>3. TableAt[t + 1] = chain[0][3].start + chain[TableAt[t + 1 - 1]][1].start
    BY <1>0, <2>2
  <2>4. QED BY <1>3, <2>2, <2>3
<1> DEFINE Right(t) == t <= at.table => TableAt[t] = Place(t)
<1>7. Right(1)
  BY <1>5 DEF Place
<1>8. ASSUME NEW t \in 1..5, Right(t) PROVE Right(t + 1)
  <2>1. SUFFICES ASSUME t + 1 <= at.table PROVE TableAt[t + 1] = Place(t + 1)
    OBVIOUS
  <2>2. t <= at.table /\ t \in 0..at.table
    BY <1>1, <2>1
  <2>3. chain[TableAt[t]] = mbr[t]
    BY <1>2, <1>8, <2>2
  <2>4. TableAt[t + 1] = mbr[0][3].start + mbr[t][1].start
    BY <1>6, <2>3
  <2>5. t + 1 # 0 /\ t + 1 # 1 /\ t + 1 - 1 = t
    OBVIOUS
  <2>6. Place(t + 1) = mbr[t][1].start + mbr[0][3].start
    BY <2>5 DEF Place
  <2>7. mbr[t][1].start \in Int /\ mbr[0][3].start \in Int
    BY <1>4
  <2>8. QED BY <2>4, <2>6, <2>7
<1> HIDE DEF Right
<1>9. Right(1 + 1)
  BY <1>7, <1>8
<1>10. Right(2 + 1)
  BY <1>8, <1>9
<1>11. Right(3 + 1)
  BY <1>8, <1>10
<1>12. Right(4 + 1)
  BY <1>8, <1>11
<1>13. Right(5 + 1)
  BY <1>8, <1>12
<1>14. \A t \in 1..6 : Right(t)
  <2>1. \A t \in 1..6 : t = 1 \/ t = 1 + 1 \/ t = 2 + 1 \/ t = 3 + 1 \/ t = 4 + 1 \/ t = 5 + 1
    OBVIOUS
  <2>2. QED BY <1>7, <1>9, <1>10, <1>11, <1>12, <1>13, <2>1
<1>15. \A t \in 1..at.table : TableAt[t] = Place(t)
  BY <1>1, <1>14 DEF Right
<1>16. \A t \in 1..at.table : chain[TableAt[t]] = mbr[t]
  BY <1>1, <1>2, <1>15
<1>17. QED BY <1>3, <1>15, <1>16

\* The device of partition n is its room without the reserve.
LEMMA DevicesAre ==
  ASSUME IInv, DInv, OnEmmc, phase \in Accepted, NEW S \in Totals,
         Whole(S), Described(S, Partitions), Chained(at.table + 1)
  PROVE  \A n \in 1..Partitions :
           LET d == Device(MountDev(n, Partitions)) IN
           /\ d.id = "linux" /\ d.num = Room(n) - Reserve
           /\ d.start = Kernel(All) + S[n - 1] + (IF Logical(n, Partitions) THEN Reserve ELSE 0)
<1>1. TAKE n \in 1..Partitions
<1>2. /\ Partitions \in Nat /\ Partitions <= 9 /\ Reserve \in Nat
  BY Known
<1>3. n \in 1..9 /\ n <= Partitions /\ n \in 1..(Partitions + 1) /\ n - 1 \in 0..9
  BY <1>2
<1>4. /\ at.table \in 0..6 /\ (Partitions > 4 => at.table = Partitions - 3)
      /\ Kernel(All) \in Nat /\ S[n - 1] \in Nat
      /\ \A t \in 1..at.table : Place(t) = Kernel(All) + S[t + 2]
  BY <1>3, Places
<1>5. /\ chain[0] = mbr[0]
      /\ \A t \in 1..at.table : TableAt[t] = Place(t) /\ chain[TableAt[t]] = mbr[t]
  BY Found
<1>6. mbr \in Tables
  BY DEF DInv, MbrType
<1> DEFINE d == Device(MountDev(n, Partitions))
<1>7. CASE ~Logical(n, Partitions)
  <2>1. MountDev(n, Partitions) = n /\ n <= 4
    BY <1>2, <1>3, <1>7 DEF MountDev, Logical
  <2>2. d = mbr[0][n - 1]
    BY <1>5, <2>1 DEF Device
  <2> HIDE DEF d
  <2>3. d.id = "linux" /\ d.num = Room(n) - Reserve
    BY <1>7, <2>2 DEF Described
  <2>4. d.start = Kernel(All) + S[n - 1]
    BY <1>3, <2>1, <2>2 DEF Described
  <2>5. d.start = Kernel(All) + S[n - 1] + 0
    BY <1>4, <2>4
  <2>6. QED BY <1>7, <2>3, <2>5 DEF d
<1>8. CASE Logical(n, Partitions)
  <2>1. MountDev(n, Partitions) = n + 1 /\ ~(n + 1 <= 4) /\ n + 1 - 4 = n - 3 /\ n >= 4 /\ Partitions > 4
    BY <1>2, <1>3, <1>8 DEF MountDev, Logical
  <2>2. n - 3 \in 1..at.table /\ n - 3 \in 0..7 /\ 0 \in 0..3
    BY <1>2, <1>3, <1>4, <2>1
  <2>3. TableAt[n - 3] = Kernel(All) + S[n - 1] /\ chain[TableAt[n - 3]] = mbr[n - 3]
    <3>1. n - 3 + 2 = n - 1
      BY <1>3
    <3>2. QED BY <1>4, <1>5, <2>2, <3>1
  <2>4. d = [mbr[n - 3][0] EXCEPT !.start = @ + (Kernel(All) + S[n - 1])]
    BY <2>1, <2>3 DEF Device
  <2> HIDE DEF d
  <2>5. mbr[n - 3][0] \in Entries
    BY <1>6, <2>2 DEF Tables
  <2>6. /\ mbr[n - 3][0].id = "linux" /\ mbr[n - 3][0].num = Room(n) - Reserve
        /\ mbr[n - 3][0].start = Reserve
    BY <1>8 DEF Described
  <2>7. d.id = "linux" /\ d.num = Room(n) - Reserve /\ d.start = Reserve + (Kernel(All) + S[n - 1])
    BY <2>4, <2>5, <2>6 DEF Entries
  <2>8. d.start = Kernel(All) + S[n - 1] + Reserve
    BY <1>2, <1>4, <2>7
  <2>9. QED BY <1>8, <2>7, <2>8 DEF d
<1>9. QED BY <1>7, <1>8

\* A file system is made in a device: no table is there.
LEMMA FormatPartDInv ==
  ASSUME IInv, DInv, FormatPart
  PROVE  DInv'
<1> DEFINE d == Device(MountDev(i, Partitions))
<1>1. /\ phase = "format" /\ phase' = "format" /\ i <= Partitions /\ i' = i + 1
      /\ chain' = [s \in DOMAIN chain |->
                     IF s \in d.start..(d.start + d.num - 1) THEN NoTable ELSE chain[s]]
      /\ UNCHANGED <<board, pkg, alloc, place, high>> /\ mbr' = mbr /\ at' = at
      /\ phase \in Accepted /\ phase' \in Accepted
  BY DEF FormatPart, Format, Accepted
<1>2. Stacked' /\ Roomy'
  BY <1>1, StaysStacked
<1>3. OnEmmc
  BY <1>1 DEF DInv, Summing
<1>4. i \in 1..(Partitions + 1) /\ \E S \in Totals :
        Whole(S) /\ Described(S, Partitions) /\ Chained(at.table + 1)
  BY <1>1, <1>3 DEF DInv, Tabled
<1>5. PICK S \in Totals : Whole(S) /\ Described(S, Partitions) /\ Chained(at.table + 1)
  BY <1>4
<1>6. /\ Partitions \in Nat /\ Partitions <= 9 /\ Reserve \in Nat /\ Reserve > 0
      /\ \A k \in 1..Partitions : Room(k) \in Nat /\ Room(k) > Reserve
  BY <1>1, <1>3, Known
<1>7. PICK n \in 1..9 : n = i /\ n \in 1..Partitions /\ n <= Partitions
  BY <1>1, <1>4, <1>6
<1>8. /\ at.table \in 0..6 /\ (at.table # 0 => Partitions > 4)
      /\ Kernel(All) \in Nat /\ Kernel(All) > 0
      /\ \A a \in 0..9 : S[a] \in Nat
      /\ \A a, b \in 0..Partitions : a < b => S[a] + Reserve < S[b]
      /\ Place(0) = 0
      /\ \A t \in 1..at.table : t + 2 < Partitions /\ Place(t) = Kernel(All) + S[t + 2]
      /\ \A t \in 0..at.table : Place(t) \in 0..(Sectors - 1)
  BY <1>1, <1>3, <1>5, Places
<1> DEFINE K == Kernel(All)
           r == IF Logical(n, Partitions) THEN Reserve ELSE 0
<1>9. d.num = Room(n) - Reserve /\ d.start = K + S[n - 1] + r
  BY <1>1, <1>3, <1>5, <1>7, DevicesAre
<1>10. r \in Nat /\ r <= Reserve /\ (n >= 4 /\ Partitions > 4 => r = Reserve)
  BY <1>6 DEF Logical
<1>11. K \in Nat /\ K > 0 /\ S[n - 1] \in Nat /\ S[n] \in Nat /\ S[n] = S[n - 1] + Room(n)
       /\ Room(n) \in Nat
  <2>1. n - 1 \in 0..9 /\ n \in 0..9
    OBVIOUS
  <2>2. S[n] = S[n - 1] + Room(n)
    BY <1>5, <1>7 DEF Whole, Sums
  <2>3. QED BY <1>6, <1>7, <1>8, <2>1, <2>2
<1> HIDE DEF d, K, r
<1>12. ASSUME NEW t \in 0..6, t <= at.table
       PROVE  Place(t) \notin d.start..(d.start + d.num - 1)
  <2>1. CASE t = 0
    <3>1. Place(t) = 0
      BY <1>8, <2>1
    <3>2. d.start > 0 /\ d.start \in Nat
      BY <1>9, <1>10, <1>11
    <3>3. d.num \in Int
      BY <1>6, <1>9, <1>11
    <3>4. QED BY <3>1, <3>2, <3>3
  <2>2. CASE t # 0
    <3>1. t \in 1..at.table /\ Partitions > 4
      BY <1>8, <1>12, <2>2
    <3>2. t + 2 < Partitions /\ Place(t) = K + S[t + 2] /\ t + 2 \in 0..9
      BY <1>8, <3>1 DEF K
    <3>3. t + 2 \in 0..Partitions /\ n - 1 \in 0..Partitions /\ n \in 0..Partitions /\ S[t + 2] \in Nat
      BY <1>6, <1>7, <1>8, <3>2
    <3>4. d.start \in Int /\ d.num \in Int /\ Place(t) \in Int
      BY <1>6, <1>9, <1>10, <1>11, <3>2, <3>3
    <3>5. CASE t + 2 < n - 1
      <4>1. S[t + 2] + Reserve < S[n - 1]
        BY <1>8, <3>3, <3>5
      <4>2. Place(t) < d.start
        BY <1>6, <1>9, <1>10, <1>11, <3>2, <3>3, <4>1
      <4>3. QED BY <3>4, <4>2
    <3>6. CASE t + 2 = n - 1
      <4>1. n >= 4 /\ S[t + 2] = S[n - 1]
        BY <3>1, <3>6
      <4>2. r = Reserve
        BY <1>10, <3>1, <4>1
      <4>3. Place(t) < d.start
        BY <1>6, <1>9, <1>11, <3>2, <4>1, <4>2
      <4>4. QED BY <3>4, <4>3
    <3>7. CASE t + 2 > n - 1
      <4>1. S[t + 2] >= S[n]
        <5>1. CASE t + 2 = n
          BY <1>11, <5>1
        <5>2. CASE t + 2 > n
          <6>1. S[n] + Reserve < S[t + 2]
            BY <1>8, <3>3, <5>2
          <6>2. QED BY <1>6, <1>11, <3>3, <6>1
        <5>3. QED BY <3>7, <5>1, <5>2
      <4>2. d.start + d.num - 1 < Place(t)
        BY <1>6, <1>9, <1>10, <1>11, <3>2, <3>3, <4>1
      <4>3. QED BY <3>4, <4>2
    <3>8. QED BY <3>5, <3>6, <3>7
  <2>3. QED BY <2>1, <2>2
<1>13. chain \in [0..(Sectors - 1) -> [0..3 -> Entries]]
  BY DEF DInv, MbrType
<1>14. NoTable \in [0..3 -> Entries]
  BY DEF NoTable, NoEntry, Entries, Ids
<1>15. /\ chain' \in [0..(Sectors - 1) -> [0..3 -> Entries]]
       /\ \A s \in 0..(Sectors - 1) : s \notin d.start..(d.start + d.num - 1) => chain'[s] = chain[s]
  <2>1. chain' = [s \in 0..(Sectors - 1) |->
                    IF s \in d.start..(d.start + d.num - 1) THEN NoTable ELSE chain[s]]
    BY <1>1, <1>13
  <2>2. QED BY <1>13, <1>14, <2>1
<1>16. MbrType'
  BY <1>1, <1>15 DEF DInv, MbrType
<1>17. /\ OnEmmc' = OnEmmc /\ Partitions' = Partitions /\ at'.table = at.table
       /\ Whole(S)' /\ Described(S, Partitions)' /\ \A t : Place(t)' = Place(t)
  BY <1>1, <1>5, SaysTheSame
<1>18. Chained(at.table + 1)'
  <2>0. PICK T \in 0..6 : T = at.table
    BY <1>8
  <2>1. ASSUME NEW t \in 0..at.table PROVE chain'[Place(t)] = mbr[t]
    <3>1. t \in 0..6 /\ t <= at.table
      BY <1>8
    <3>2. Place(t) \notin d.start..(d.start + d.num - 1) /\ Place(t) \in 0..(Sectors - 1)
      BY <1>8, <1>12, <3>1
    <3>3. chain[Place(t)] = mbr[t]
      BY <1>5, <1>8 DEF Chained
    <3>4. QED BY <1>15, <3>2, <3>3
  <2>2. T + 1 - 1 = T
    OBVIOUS
  <2>3. Chained(T + 1)'
    <3>1. \A t \in 0..T : chain'[Place(t)'] = mbr'[t]
      BY <1>1, <1>17, <2>0, <2>1
    <3>2. QED BY <2>2, <3>1 DEF Chained
  <2>4. QED BY <1>17, <2>0, <2>3
<1>19. Tabled'
  <2>1. i' \in 1..(Partitions' + 1)
    BY <1>1, <1>4, <1>6, <1>17
  <2>2. QED BY <1>1, <1>17, <1>18, <2>1 DEF Tabled
<1>20. Summing'
  BY <1>1, <1>3, <1>17 DEF Summing
<1>21. QED BY <1>2, <1>16, <1>19, <1>20 DEF DInv

-----------------------------------------------------------------------------
(* The devices are the areas.                                              *)

\* Where the device of partition n lies between the sums.
LEMMA DeviceAt ==
  ASSUME IInv, DInv, OnEmmc, phase \in Accepted, NEW S \in Totals,
         Whole(S), Described(S, Partitions), Chained(at.table + 1), NEW n \in 1..Partitions
  PROVE  LET d == Device(MountDev(n, Partitions)) IN
         /\ d.start \in Int /\ d.num \in Int
         /\ Kernel(All) + S[n - 1] <= d.start /\ d.start + d.num <= Kernel(All) + S[n]
<1>1. /\ Partitions \in Nat /\ Partitions <= 9 /\ Reserve \in Nat /\ Room(n) \in Nat
  BY Known
<1>2. n \in 0..9 /\ n - 1 \in 0..9
  BY <1>1
<1>3. Kernel(All) \in Nat /\ S[n - 1] \in Nat /\ S[n] \in Nat
  BY <1>2, Places
<1>4. S[n] = S[n - 1] + Room(n)
  BY DEF Whole, Sums
<1> DEFINE d == Device(MountDev(n, Partitions))
           r == IF Logical(n, Partitions) THEN Reserve ELSE 0
<1>5. d.num = Room(n) - Reserve /\ d.start = Kernel(All) + S[n - 1] + r
  BY DevicesAre
<1>6. r \in Nat /\ r <= Reserve
  BY <1>1
<1> HIDE DEF d, r
<1>7. QED BY <1>1, <1>3, <1>4, <1>5, <1>6 DEF d

\* In every state the invariant holds in, the devices are the areas.
LEMMA InvDevices ==
  ASSUME IInv, DInv
  PROVE  DevicesAreAreas
<1> SUFFICES ASSUME OnEmmc, phase \in {"format", "burn", "burning"}, NEW n \in DOMAIN pkg.parts
             PROVE  LET d == Device(MountDev(n, Partitions))
                        f == pkg.parts[n].fw
                        E == board.mtd_erasesize
                    IN /\ d.id = "linux"
                       /\ (\A m \in DOMAIN pkg.parts : alloc[pkg.parts[m].fw] % E = 0) =>
                             /\ place[f] <= d.start * E
                             /\ (d.start + d.num) * E <= place[f] + alloc[f]
                             /\ d.num = Room(n) - Reserve
                       /\ ~GapUncounted => d.start * E >= low
                       /\ \A m \in DOMAIN pkg.parts \ {n} :
                            LET e == Device(MountDev(m, Partitions))
                            IN Apart(d.start, d.num, e.start, e.num)
  BY DEF DevicesAreAreas, OnEmmc
<1>1. phase \in Accepted
  BY DEF Accepted
<1>2. PICK S \in Totals : Whole(S) /\ Described(S, Partitions) /\ Chained(at.table + 1)
  BY DEF DInv, Tabled
<1>3. /\ Partitions \in Nat /\ Partitions <= 9 /\ DOMAIN pkg.parts = 1..Partitions
      /\ board.mtd_erasesize \in Nat \ {0} /\ high \in Int /\ All \in Nat
      /\ board.flash_size = All * board.mtd_erasesize
      /\ \A k \in 1..(Partitions + 1) : Edge(k) \in Int
      /\ \A k \in 1..Partitions : Edge(k) + alloc[Fw(k)] = Edge(k + 1)
      /\ Edge(Partitions + 1) = board.flash_size
  BY <1>1, Known
<1>31. Partitions \in Nat /\ Partitions <= 9 /\ high \in Int
  BY <1>3
<1>4. n \in 1..Partitions /\ n \in 0..Partitions /\ n - 1 \in 0..Partitions /\ n \in 1..(Partitions + 1)
      /\ n # Partitions + 1 /\ Partitions \in 0..Partitions
  BY <1>3
<1>5. /\ Kernel(All) \in Nat /\ Kernel(All) + S[Partitions] = All
      /\ \A a \in 0..9 : S[a] \in Nat
      /\ \A a, b \in 0..Partitions : a < b => S[a] + Reserve < S[b]
  BY <1>1, <1>2, Places
<1> DEFINE d == Device(MountDev(n, Partitions))
           E == board.mtd_erasesize
           K == Kernel(All)
<1>6. d.id = "linux" /\ d.num = Room(n) - Reserve
  BY <1>1, <1>2, <1>4, DevicesAre
<1>7. /\ d.start \in Int /\ d.num \in Int
      /\ K + S[n - 1] <= d.start /\ d.start + d.num <= K + S[n]
  BY <1>1, <1>2, <1>4, DeviceAt
<1>8. \A m \in 1..Partitions :
        LET e == Device(MountDev(m, Partitions)) IN
        /\ e.start \in Int /\ e.num \in Int
        /\ K + S[m - 1] <= e.start /\ e.start + e.num <= K + S[m]
  BY <1>1, <1>2, DeviceAt
<1>9. S[n - 1] \in Nat /\ S[n] \in Nat /\ S[Partitions] \in Nat
  <2>1. n - 1 \in 0..9 /\ n \in 0..9 /\ Partitions \in 0..9
    BY <1>4, <1>31
  <2>2. QED BY <1>5, <2>1
<1> HIDE DEF d, E, K
<1>10. K \in Nat /\ K + S[Partitions] = All /\ E \in Nat \ {0}
  BY <1>3, <1>5 DEF K, E
<1>11. /\ high + S[Partitions] * E <= All * E
       /\ Even => high + S[Partitions] * E = All * E
       /\ Even => high + S[n - 1] * E = Edge(n) /\ high + S[n] * E = Edge(n + 1)
  <2>1. Heights(S, Partitions)
    BY <1>2 DEF Whole
  <2>2. n - 1 + 1 = n
    BY <1>3
  <2>3. QED BY <1>3, <1>4, <2>1, <2>2 DEF Heights, E
<1>12. /\ All * E = K * E + S[Partitions] * E /\ K * E \in Int
       /\ S[Partitions] * E \in Int /\ S[n - 1] * E \in Int /\ S[n] * E \in Int
       /\ (K + S[n - 1]) * E = K * E + S[n - 1] * E /\ (K + S[n]) * E = K * E + S[n] * E
  <2>1. K \in Int /\ S[Partitions] \in Int /\ S[n - 1] \in Int /\ S[n] \in Int
    BY <1>9, <1>10
  <2>2. QED BY <1>10, <2>1, Larger
<1>13. K * E >= high /\ (Even => K * E = high)
  <2>1. K * E >= high
    <3>1. high + S[Partitions] * E <= All * E
      BY <1>11
    <3>2. \A a, b, c, h \in Int : c = a + b /\ h + b <= c => a >= h
      OBVIOUS
    <3>3. All * E = K * E + S[Partitions] * E /\ K * E \in Int /\ S[Partitions] * E \in Int
          /\ All * E \in Int
      BY <1>12
    <3>4. QED BY <1>31, <3>1, <3>2, <3>3
  <2>2. ASSUME Even PROVE K * E = high
    <3>1. high + S[Partitions] * E = All * E
      BY <1>11, <2>2
    <3>2. \A a, b, c, h \in Int : c = a + b /\ h + b = c => a = h
      OBVIOUS
    <3>3. All * E = K * E + S[Partitions] * E /\ K * E \in Int /\ S[Partitions] * E \in Int
          /\ All * E \in Int
      BY <1>12
    <3>4. QED BY <1>31, <3>1, <3>2, <3>3
  <2>3. QED BY <2>1, <2>2
<1>14. /\ (K + S[n - 1]) * E <= d.start * E /\ (d.start + d.num) * E <= (K + S[n]) * E
       /\ d.start * E \in Int /\ (d.start + d.num) * E \in Int
  <2>1. K + S[n - 1] \in Int /\ K + S[n] \in Int /\ d.start + d.num \in Int /\ d.start \in Int
    BY <1>7, <1>9, <1>10
  <2>2. QED BY <1>7, <1>10, <2>1, Larger
<1>15. ASSUME \A m \in DOMAIN pkg.parts : alloc[pkg.parts[m].fw] % board.mtd_erasesize = 0
       PROVE  /\ place[pkg.parts[n].fw] <= d.start * E
              /\ (d.start + d.num) * E <= place[pkg.parts[n].fw] + alloc[pkg.parts[n].fw]
  <2>1. Even
    BY <1>15 DEF Even, Fw
  <2>2. Edge(n) = place[pkg.parts[n].fw]
    BY <1>4 DEF Edge, Fw
  <2>3. Edge(n) + alloc[pkg.parts[n].fw] = Edge(n + 1)
    BY <1>3, <1>4 DEF Fw
  <2>4. (K + S[n - 1]) * E = Edge(n) /\ (K + S[n]) * E = Edge(n + 1)
    <3>1. high + S[n - 1] * E = Edge(n) /\ high + S[n] * E = Edge(n + 1) /\ K * E = high
      BY <1>11, <1>13, <2>1
    <3>2. (K + S[n - 1]) * E = K * E + S[n - 1] * E /\ (K + S[n]) * E = K * E + S[n] * E
      BY <1>12
    <3>3. QED BY ONLY <3>1, <3>2, Zenon
  <2>5. QED BY <1>14, <2>2, <2>3, <2>4
<1>16. ASSUME ~GapUncounted PROVE d.start * E >= low
  <2>1. low <= high /\ low \in Int
    BY <1>1, <1>16, Meet DEF IInv, TypeOK
  <2>2. S[n - 1] * E >= 0
    <3>1. 0 <= S[n - 1] /\ S[n - 1] \in Int /\ 0 \in Int
      BY <1>9
    <3>2. 0 * E <= S[n - 1] * E /\ 0 * E = 0
      BY <1>10, <3>1, Larger
    <3>3. QED BY <1>12, <3>2
  <2>3. \A a, b, c, h, l, s \in Int : c = a + b /\ a >= h /\ b >= 0 /\ c <= s /\ l <= h => s >= l
    OBVIOUS
  <2>4. (K + S[n - 1]) * E \in Int /\ (K + S[n - 1]) * E = K * E + S[n - 1] * E
        /\ K * E \in Int /\ S[n - 1] * E \in Int
    BY <1>12
  <2>5. K * E >= high /\ (K + S[n - 1]) * E <= d.start * E /\ d.start * E \in Int
    BY <1>13, <1>14
  <2>6. QED BY ONLY <1>31, <2>1, <2>2, <2>3, <2>4, <2>5
<1>17. ASSUME NEW m \in 1..Partitions, m # n
       PROVE  LET e == Device(MountDev(m, Partitions))
              IN Apart(d.start, d.num, e.start, e.num)
  <2> DEFINE e == Device(MountDev(m, Partitions))
  <2>1. /\ e.start \in Int /\ e.num \in Int
        /\ K + S[m - 1] <= e.start /\ e.start + e.num <= K + S[m]
    BY <1>8, <1>17
  <2> HIDE DEF e
  <2>2. S[m - 1] \in Nat /\ S[m] \in Nat /\ Reserve \in Nat
    <3>1. m - 1 \in 0..9 /\ m \in 0..9
      BY <1>3
    <3>2. QED BY <1>5, <3>1, MbrAssumption
  <2>3. CASE m < n
    <3>1. S[m] <= S[n - 1]
      <4>1. CASE m = n - 1
        BY <1>9, <4>1
      <4>2. CASE m # n - 1
        <5>1. m < n - 1 /\ m \in 0..Partitions
          BY <1>4, <1>17, <1>31, <2>3, <4>2
        <5>2. S[m] + Reserve < S[n - 1]
          BY <1>4, <1>5, <5>1
        <5>3. QED BY <1>9, <2>2, <5>2
      <4>3. QED BY <4>1, <4>2
    <3>2. e.start + e.num <= d.start
      BY <1>7, <1>9, <1>10, <2>1, <2>2, <3>1
    <3>3. QED BY <3>2 DEF Apart, e
  <2>4. CASE n < m
    <3>1. S[n] <= S[m - 1]
      <4>1. CASE n = m - 1
        BY <1>9, <4>1
      <4>2. CASE n # m - 1
        <5>1. n < m - 1 /\ m - 1 \in 0..Partitions
          BY <1>4, <1>17, <1>31, <2>4, <4>2
        <5>2. S[n] + Reserve < S[m - 1]
          BY <1>4, <1>5, <5>1
        <5>3. QED BY <1>9, <2>2, <5>2
      <4>3. QED BY <4>1, <4>2
    <3>2. d.start + d.num <= e.start
      BY <1>7, <1>9, <1>10, <2>1, <2>2, <3>1
    <3>3. QED BY <3>2 DEF Apart, e
  <2>5. QED BY <1>3, <1>4, <1>17, <2>3, <2>4
<1>18. QED BY <1>3, <1>6, <1>15, <1>16, <1>17 DEF d, E

-----------------------------------------------------------------------------
(* The tables in every behaviour.                                          *)

\* At the start there are none.
LEMMA InitDInv ==
  ASSUME Init
  PROVE  DInv
<1>1. phase = "idle" /\ mbr = NoTables /\ at = Origin /\ chain = [s \in 0..(Sectors - 1) |-> NoTable]
  BY DEF Init, MbrInit
<1>2. NoTable \in [0..3 -> Entries] /\ mbr \in Tables
  BY <1>1 DEF NoTables, NoTable, NoEntry, Tables, Entries, Ids
<1>3. at \in [table : Nat, part : Nat, count : Nat, acc : Int, parted : Nat]
      /\ at.parted = 0 /\ at = [Origin EXCEPT !.parted = at.parted]
  BY <1>1 DEF Origin
<1>4. MbrType
  BY <1>1, <1>2, <1>3 DEF MbrType
<1>5. Summing
  BY <1>1, <1>3 DEF Summing, Blank
<1>6. Stacked /\ Roomy /\ Tabled
  BY <1>1 DEF Stacked, Roomy, Tabled, Accepted
<1>7. QED BY <1>4, <1>5, <1>6 DEF DInv

\* A step that changes nothing.
LEMMA StillDInv ==
  ASSUME DInv, UNCHANGED vars
  PROVE  DInv'
<1>1. UNCHANGED <<board, pkg, alloc, place, high, mbr, at>> /\ i' = i /\ phase' = phase /\ chain' = chain
  BY DEF vars, layoutVars, mbrVars
<1>2. /\ OnEmmc' = OnEmmc /\ Partitions' = Partitions /\ at'.table = at.table
      /\ \A S : Whole(S)' = Whole(S)
      /\ \A S, n : Described(S, n)' = Described(S, n)
      /\ \A t : Place(t)' = Place(t)
  BY <1>1, SaysTheSame
<1>3. /\ \A S, n : Sums(S, n)' = Sums(S, n) /\ Heights(S, n)' = Heights(S, n)
      /\ \A j : Stack(j)' = Stack(j) /\ \A k : Room(k)' = Room(k)
  BY <1>1, SamePlaces
<1>4. MbrType'
  BY <1>1 DEF DInv, MbrType
<1>5. Stacked'
  <2>1. Down9(i - 1)' = Down9(i - 1)
    BY <1>1, <1>2 DEF Down9
  <2>2. Stack(Down9(i - 1))' = Stack(Down9(i - 1)) /\ Stack(Partitions)' = Stack(Partitions)
    BY <1>2, <1>3, <2>1
  <2>3. QED BY <1>1, <1>2, <2>2 DEF DInv, Stacked
<1>6. Roomy'
  BY <1>1, <1>2, <1>3 DEF DInv, Roomy
<1>7. Blank' = Blank
  BY <1>1 DEF Blank
<1>8. Summing'
  BY <1>1, <1>2, <1>3, <1>7 DEF DInv, Summing
<1>9. \A n : Chained(n)' = Chained(n)
  BY <1>1, <1>2 DEF Chained
<1>10. Tabled'
  BY <1>1, <1>2, <1>9 DEF DInv, Tabled
<1>11. QED BY <1>4, <1>5, <1>6, <1>8, <1>10 DEF DInv

\* Every step keeps it.
LEMMA StepDInv ==
  ASSUME IInv, DInv, [Next]_vars
  PROVE  DInv'
<1>1. CASE (\E p \in Packages : Fill(p)) \/ PlaceUp \/ PlaceDown \/ LeaveUnplaced \/ Accept
  BY <1>1, PlacingDInv
<1>2. CASE Reject \/ Complete \/ TableLost \/ Fail
  <2>1. Exit /\ chain' = chain
    BY <1>2 DEF Reject, Complete, TableLost, Fail
  <2>2. QED BY <2>1, ExitDInv
<1>3. CASE Start \/ SumRooms \/ FirstTable
  BY <1>3, StartDInv, SumRoomsDInv, FirstTableDInv
<1>4. CASE NextEntry \/ WriteTable \/ FormatPart
  BY <1>4, NextEntryDInv, WriteTableDInv, FormatPartDInv
<1>5. CASE FirstWrite \/ FirstFormat \/ Formatted \/ Burn
  BY <1>5, BetweenDInv
<1>6. CASE UNCHANGED vars
  BY <1>6, StillDInv
<1>7. QED BY <1>1, <1>2, <1>3, <1>4, <1>5, <1>6 DEF Next

\* The invariant of the tables holds in every behaviour.
LEMMA DInvAlways == Spec => []DInv
<1>1. Init => DInv
  BY InitDInv
<1>2. IInv /\ DInv /\ [Next]_vars => DInv'
  BY StepDInv
<1>3. QED BY <1>1, <1>2, InvAlways, PTL DEF Spec

-----------------------------------------------------------------------------
(* The properties.                                                         *)

\* The variables keep their types: for any boards and packages, every allocation is a
\* number, and an accepted layout has places for its images.
THEOREM TypeCorrect == Spec => []TypeOK
<1>1. IInv => TypeOK
  BY DEF IInv
<1> QED
  BY <1>1, InvAlways, PTL

\* The space checks of fill_rtkimgdesc_layout are enough: whatever the sizes, an accepted
\* layout gives no two images the same room (but for the gap below a backup).
THEOREM AreasDisjointAlways == Spec => []AreasDisjoint
<1>1. IInv => AreasDisjoint
  BY InvAreas
<1> QED
  BY <1>1, InvAlways, PTL

\* The free space that the driver erases is no image's room.
THEOREM FreeSpaceFreeAlways == Spec => []FreeSpaceFree
<1>1. IInv => FreeSpaceFree
  BY InvFree
<1> QED
  BY <1>1, InvAlways, PTL

\* Whatever installs fail, a safe upgrade leaves the half in use whole.
THEOREM WorkPartWholeAlways == Spec => []WorkPartWhole
<1>1. IInv => WorkPartWhole
  BY DEF IInv, Protected
<1> QED
  BY <1>1, InvAlways, PTL

\* The tables that write_boottable_emmc makes and rtk_set_mbr writes lead Linux to the
\* areas of the layout: for any partitions of an eMMC package the device of each is its
\* room without the reserve, the devices are apart and above the firmware, and no
\* file system that is made destroys a table.
THEOREM DevicesAreAreasAlways == Spec => []DevicesAreAreas
<1>1. IInv /\ DInv => DevicesAreAreas
  BY InvDevices
<1>2. QED BY <1>1, InvAlways, DInvAlways, PTL
=============================================================================
