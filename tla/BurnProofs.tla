----------------------------- MODULE BurnProofs -----------------------------
(* Theorems about Burn, for any packages, any flash and any number of runs.  *)
EXTENDS Burn, FiniteSetTheorems, SequenceTheorems, TLAPS

-----------------------------------------------------------------------------
(* The steps of a burn.                                                      *)

Parts == {Part(x) : x \in {"hw", "boot", "reset", "rescue"}}
Names == Parts \cup {Name(i) : i \in Nat}

AnyStep ==
  [op : {"call", "tools", "return"}, ret : {-1, 0}]
  \cup [op : {"erase"}, at : Nat, n : 0..FlashSize]
  \cup [op : {"copy"}, name : Names, at : Nat, n : 0..FlashSize, mode : {"checked", "pipe", "fs"}]
  \cup [op : {"verify"}, name : Names, at : Nat, n : 0..FlashSize]

\* The i-th image, or for 0 the boot code, can be the one that is burned.
Burnable(p, i) == i \in 0..Len(p.images) /\ (i = 0 => p.with_boot)

\* The blocks that a burn may change, and the exceptions.
First(p, i)   == IF i = 0 THEN 0 ELSE p.images[i].at
Behind(p, i)  == IF i = 0 THEN p.boot.room ELSE p.images[i].at + p.images[i].alloc
Outside(p, i) == IF i = 0 THEN ~BootFits(p) ELSE Overruns(p, p.images[i])

\* What a burn reports as burned without having written it: an empty partition when the
\* utilities are missing, and an image that is skipped.
MayEnd(m, op) ==
  \/ op = "tools" /\ m.kind = "yaffs" /\ m.file = "none"
  \/ op = "return" /\ m.kind \in {"raw", "squash"} /\ m.mode = "skip"

\* The images whose source may end early unnoticed.
MayLapse(p, m, mode) ==
  \/ m.kind \in {"raw", "squash"} /\ p.flash = "nand" /\ mode = "pipe"
  \/ m.kind = "ext4"

\* The steps of a burn name what is burned, and write where it may.
Allowed(p, i) ==
  {s \in AnyStep :
     /\ s.op \in {"erase", "copy"} => Outside(p, i) \/ (First(p, i) <= s.at /\ s.at + s.n <= Behind(p, i))
     /\ s.op \in {"copy", "verify"} => IF i = 0 THEN s.name \in Parts ELSE s.name = Name(i)
     /\ s.op = "copy" /\ i # 0 => Outside(p, i) \/ s.at = First(p, i)
     /\ s.op \in {"call", "tools", "return"} => s.ret = -1 \/ (i # 0 /\ MayEnd(p.images[i], s.op))
     /\ s.op = "copy" => s.mode = "checked" \/ (i # 0 /\ MayLapse(p, p.images[i], s.mode))}

LEMMA PackageIs ==
  ASSUME NEW p \in Packages
  PROVE  /\ p \in Package /\ LaidOut(p)
         /\ p.flash \in {"nand", "nor", "emmc"} /\ p.verify \in BOOLEAN /\ p.protect \in BOOLEAN
         /\ p.keep_etc \in BOOLEAN /\ p.big \in BOOLEAN /\ p.with_boot \in BOOLEAN
         /\ p.boot.hw \in 1..FlashSize /\ p.boot.boot \in 1..FlashSize /\ p.boot.rescue \in 0..FlashSize
         /\ p.boot.room \in 1..FlashSize /\ p.boot.reserved \in 1..FlashSize
         /\ FlashSize \in Nat \ {0} /\ Wrap \in 1..FlashSize
         /\ p.images \in Seq(Image) /\ Len(p.images) \in Nat
<1>1. p \in Package /\ LaidOut(p) /\ FlashSize \in Nat \ {0} /\ Wrap \in 1..FlashSize
  BY BurnAssumption
<1>2. p.boot \in Bootcode /\ p.images \in Seq(Image)
  BY <1>1 DEF Package
<1>3. QED BY <1>1, <1>2 DEF Package, Bootcode

LEMMA ImageIs ==
  ASSUME NEW p \in Packages, NEW i \in 1..Len(p.images)
  PROVE  LET m == p.images[i] IN
         /\ m \in Image
         /\ m.kind \in Kinds /\ m.file \in {"none", "img", "bz2", "tar", "bin", "other"}
         /\ m.mode \in {"update", "backup", "skip"} /\ m.tail \in BOOLEAN
         /\ m.size \in 0..FlashSize /\ m.at \in 0..FlashSize /\ m.alloc \in 0..FlashSize
         /\ p.boot.reserved <= m.at /\ m.at + m.alloc <= FlashSize
         /\ m.kind \in {"raw", "squash", "ubifs"} => m.size <= m.alloc
         /\ m.mode # "update" => m.kind \in {"raw", "squash"}
         /\ m.kind = "ext4" => p.flash = "emmc"
         /\ m.tail => m.size > 0
<1>1. p.images[i] \in Image
  BY PackageIs
<1>2. LaidOut(p)
  BY PackageIs
<1>3. QED BY <1>1, <1>2 DEF Image, LaidOut

LEMMA LowIs ==
  ASSUME NEW at \in Nat
  PROVE  Low(at) \in Nat /\ Low(at) <= at
BY BurnAssumption DEF Low

LEMMA NamesAre ==
  /\ Part("hw") \in Parts /\ Part("boot") \in Parts /\ Part("reset") \in Parts /\ Part("rescue") \in Parts
  /\ Parts \subseteq Names
  /\ \A i \in Nat : Name(i) \in Names
BY DEF Names, Parts

LEMMA AnyAre ==
  /\ \A r \in {-1, 0} : Call(r) \in AnyStep /\ Tools(r) \in AnyStep /\ Return(r) \in AnyStep
  /\ \A at \in Nat, n \in 0..FlashSize : Erase(at, n) \in AnyStep
  /\ \A name \in Names, at \in Nat, n \in 0..FlashSize, mode \in {"checked", "pipe", "fs"} : Copy(name, at, n, mode) \in AnyStep
  /\ \A name \in Names, at \in Nat, n \in 0..FlashSize : Verify(name, at, n) \in AnyStep
<1>1. \A r \in {-1, 0} : Call(r) \in AnyStep /\ Tools(r) \in AnyStep /\ Return(r) \in AnyStep
  BY DEF Call, Tools, Return, AnyStep
<1>2. \A at \in Nat, n \in 0..FlashSize : Erase(at, n) \in AnyStep
  BY DEF Erase, AnyStep
<1>3. \A name \in Names, at \in Nat, n \in 0..FlashSize, mode \in {"checked", "pipe", "fs"} : Copy(name, at, n, mode) \in AnyStep
  BY DEF Copy, AnyStep
<1>4. \A name \in Names, at \in Nat, n \in 0..FlashSize : Verify(name, at, n) \in AnyStep
  BY DEF Verify, AnyStep
<1>5. QED BY <1>1, <1>2, <1>3, <1>4

\* The constructors of the steps.
LEMMA StepsAre ==
  /\ \A p \in Packages, i \in Nat : Call(-1) \in Allowed(p, i) /\ Tools(-1) \in Allowed(p, i) /\ Return(-1) \in Allowed(p, i)
  /\ \A p \in Packages, i \in Nat : i # 0 /\ MayEnd(p.images[i], "tools") => Tools(0) \in Allowed(p, i)
  /\ \A p \in Packages, i \in Nat : i # 0 /\ MayEnd(p.images[i], "return") => Return(0) \in Allowed(p, i)
  /\ \A p \in Packages, i \in Nat, at \in Nat, n \in 0..FlashSize :
       Outside(p, i) \/ (First(p, i) <= at /\ at + n <= Behind(p, i)) => Erase(at, n) \in Allowed(p, i)
  /\ \A p \in Packages, i \in Nat, name \in Names, at \in Nat, n \in 0..FlashSize, mode \in {"checked", "pipe", "fs"} :
       /\ Outside(p, i) \/ (First(p, i) <= at /\ at + n <= Behind(p, i))
       /\ IF i = 0 THEN name \in Parts ELSE name = Name(i)
       /\ i # 0 => Outside(p, i) \/ at = First(p, i)
       /\ mode = "checked" \/ (i # 0 /\ MayLapse(p, p.images[i], mode))
       => Copy(name, at, n, mode) \in Allowed(p, i)
  /\ \A p \in Packages, i \in Nat, name \in Names, at \in Nat, n \in 0..FlashSize :
       (IF i = 0 THEN name \in Parts ELSE name = Name(i)) => Verify(name, at, n) \in Allowed(p, i)
<1>1. /\ \A p \in Packages, i \in Nat : Call(-1) \in Allowed(p, i) /\ Tools(-1) \in Allowed(p, i) /\ Return(-1) \in Allowed(p, i)
      /\ \A p \in Packages, i \in Nat : i # 0 /\ MayEnd(p.images[i], "tools") => Tools(0) \in Allowed(p, i)
      /\ \A p \in Packages, i \in Nat : i # 0 /\ MayEnd(p.images[i], "return") => Return(0) \in Allowed(p, i)
  BY AnyAre DEF Call, Tools, Return, Allowed
<1>2. \A p \in Packages, i \in Nat, at \in Nat, n \in 0..FlashSize :
       Outside(p, i) \/ (First(p, i) <= at /\ at + n <= Behind(p, i)) => Erase(at, n) \in Allowed(p, i)
  BY AnyAre DEF Erase, Allowed
<1>3. \A p \in Packages, i \in Nat, name \in Names, at \in Nat, n \in 0..FlashSize, mode \in {"checked", "pipe", "fs"} :
       /\ Outside(p, i) \/ (First(p, i) <= at /\ at + n <= Behind(p, i))
       /\ IF i = 0 THEN name \in Parts ELSE name = Name(i)
       /\ i # 0 => Outside(p, i) \/ at = First(p, i)
       /\ mode = "checked" \/ (i # 0 /\ MayLapse(p, p.images[i], mode))
       => Copy(name, at, n, mode) \in Allowed(p, i)
  <2> SUFFICES ASSUME NEW p \in Packages, NEW i \in Nat, NEW name \in Names, NEW at \in Nat,
                      NEW n \in 0..FlashSize, NEW mode \in {"checked", "pipe", "fs"},
                      Outside(p, i) \/ (First(p, i) <= at /\ at + n <= Behind(p, i)),
                      IF i = 0 THEN name \in Parts ELSE name = Name(i),
                      i # 0 => Outside(p, i) \/ at = First(p, i),
                      mode = "checked" \/ (i # 0 /\ MayLapse(p, p.images[i], mode))
               PROVE  Copy(name, at, n, mode) \in Allowed(p, i)
    OBVIOUS
  <2>1. Copy(name, at, n, mode) \in AnyStep
    BY AnyAre
  <2>2. QED BY <2>1 DEF Copy, Allowed
<1>4. \A p \in Packages, i \in Nat, name \in Names, at \in Nat, n \in 0..FlashSize :
       (IF i = 0 THEN name \in Parts ELSE name = Name(i)) => Verify(name, at, n) \in Allowed(p, i)
  BY AnyAre DEF Verify, Allowed
<1>5. QED BY <1>1, <1>2, <1>3, <1>4

\* Sequences of such steps, put together.
LEMMA SeqsAre ==
  ASSUME NEW S
  PROVE  /\ <<>> \in Seq(S)
         /\ \A a \in S : <<a>> \in Seq(S)
         /\ \A a, b \in S : <<a, b>> \in Seq(S)
         /\ \A a, b, c \in S : <<a, b, c>> \in Seq(S)
         /\ \A s, t \in Seq(S) : s \o t \in Seq(S)
         /\ \A p \in Packages, a \in S : IfVerify(p, <<a>>) \in Seq(S)
BY DEF IfVerify

\* Whatever stands for an image is copied to its own area.
LEMMA ImageSteps ==
  ASSUME NEW p \in Packages, NEW i \in 1..Len(p.images)
  PROVE  BurnPart(p, p.images[i], Name(i)) \in Seq(Allowed(p, i))
<1> DEFINE m == p.images[i]
           S == Allowed(p, i)
           name == Name(i)
<1> SUFFICES BurnPart(p, m, name) \in Seq(S)
  OBVIOUS
<1>1. /\ m.kind \in Kinds /\ m.file \in {"none", "img", "bz2", "tar", "bin", "other"}
      /\ m.mode \in {"update", "backup", "skip"} /\ m.tail \in BOOLEAN
      /\ m.size \in 0..FlashSize /\ m.at \in Nat /\ m.alloc \in 0..FlashSize
      /\ p.boot.reserved <= m.at /\ m.at + m.alloc <= FlashSize
      /\ m.kind \in {"raw", "squash", "ubifs"} => m.size <= m.alloc
      /\ m.tail => m.size > 0
  BY ImageIs
<1>2. i \in Nat /\ i # 0 /\ First(p, i) = m.at /\ Behind(p, i) = m.at + m.alloc /\ Outside(p, i) = Overruns(p, m)
  BY PackageIs DEF First, Behind, Outside
<1>3. /\ Call(-1) \in S /\ Tools(-1) \in S /\ Return(-1) \in S
      /\ m.kind = "yaffs" /\ m.file = "none" => Tools(0) \in S
      /\ m.kind \in {"raw", "squash"} /\ m.mode = "skip" => Return(0) \in S
      /\ \A at \in Nat, n \in 0..FlashSize : Verify(name, at, n) \in S
  BY <1>2, StepsAre, NamesAre DEF MayEnd
<1>4. Erase(m.at, m.alloc) \in S
  <2>1. First(p, i) <= m.at /\ m.at + m.alloc <= Behind(p, i)
    BY <1>1, <1>2
  <2>2. QED BY <1>1, <1>2, <2>1, StepsAre
<1>5. ASSUME NEW n \in 0..FlashSize, n <= m.alloc \/ Overruns(p, m)
      PROVE  \A mode \in {"checked", "pipe", "fs"} :
               mode = "checked" \/ MayLapse(p, m, mode) => Copy(name, m.at, n, mode) \in S
  <2>1. Outside(p, i) \/ (First(p, i) <= m.at /\ m.at + n <= Behind(p, i))
    BY <1>1, <1>2, <1>5
  <2>2. QED BY <1>1, <1>2, <2>1, StepsAre, NamesAre
<1>6. Low(m.at) \in Nat
  BY <1>1, LowIs
<1>7. ASSUME NEW n \in 0..FlashSize, n <= m.alloc \/ Overruns(p, m), Low(m.at) = m.at \/ Overruns(p, m)
      PROVE  CopyPbc(p, name, m.at, m.alloc, n) \in Seq(S)
  <2>1. Erase(Low(m.at), m.alloc) \in S
    <3>1. Outside(p, i) \/ (First(p, i) <= Low(m.at) /\ Low(m.at) + m.alloc <= Behind(p, i))
      BY <1>1, <1>2, <1>7
    <3>2. QED BY <1>1, <1>2, <1>6, <3>1, StepsAre
  <2>2. Copy(name, Low(m.at), n, "checked") \in S
    <3>1. Outside(p, i) \/ (First(p, i) <= Low(m.at) /\ Low(m.at) + n <= Behind(p, i))
      BY <1>1, <1>2, <1>7
    <3>2. Outside(p, i) \/ Low(m.at) = First(p, i)
      BY <1>2, <1>7
    <3>3. QED BY <1>2, <1>6, <3>1, <3>2, StepsAre, NamesAre
  <2> HIDE DEF S
  <2>3. QED BY <1>3, <2>1, <2>2, SeqsAre DEF CopyPbc
<1>8. CASE m.kind \in {"raw", "squash"}
  <2> DEFINE n == IF m.mode = "backup" THEN m.alloc ELSE m.size
  <2>1. n \in 0..FlashSize /\ n <= m.alloc /\ m.size <= m.alloc
    BY <1>1, <1>8
  <2>2. Verify(name, Low(m.at), n) \in S
    BY <1>3, <1>6, <2>1
  <2>3. ASSUME p.flash = "nand" PROVE BurnImgNand(p, m, name) \in Seq(S)
    <3>1. \A mode \in {"checked", "pipe"} : Copy(name, m.at, m.size, mode) \in S
      BY <1>1, <1>5, <1>8, <2>1, <2>3 DEF MayLapse
    <3> HIDE DEF S, m, name, n
    <3>2. /\ <<Tools(-1)>> \in Seq(S) /\ <<Return(-1)>> \in Seq(S)
          /\ m.mode = "skip" => <<Return(0)>> \in Seq(S)
      BY <1>3, <1>8, SeqsAre
    <3>3. <<Erase(m.at, m.alloc), Copy(name, m.at, m.size, IF m.mode = "backup" THEN "checked" ELSE "pipe")>> \in Seq(S)
      BY <1>4, <3>1, SeqsAre
    <3>4. IfVerify(p, <<Verify(name, Low(m.at), n)>>) \in Seq(S)
      BY <2>2, SeqsAre
    <3>5. QED BY <3>2, <3>3, <3>4, SeqsAre DEF BurnImgNand, n
  <2>4. ASSUME p.flash # "nand" PROVE BurnImgCopy(p, m, name) \in Seq(S)
    <3>1. Low(m.at) = m.at \/ Overruns(p, m)
      BY <1>8, <2>4 DEF Overruns
    <3>2. CopyPbc(p, name, m.at, m.alloc, n) \in Seq(S)
      BY <1>7, <2>1, <3>1
    <3> HIDE DEF S, m, name, n
    <3>3. <<Return(-1)>> \in Seq(S) /\ (m.mode = "skip" => <<Return(0)>> \in Seq(S)) /\ <<>> \in Seq(S)
      BY <1>3, <1>8, SeqsAre
    <3>4. <<Verify(name, Low(m.at), n)>> \in Seq(S) /\ IfVerify(p, <<Verify(name, Low(m.at), n)>>) \in Seq(S)
      BY <2>2, SeqsAre
    <3>5. QED BY <3>2, <3>3, <3>4, SeqsAre DEF BurnImgCopy, n
  <2>5. BurnImg(p, m, name) \in Seq(S)
    BY <2>3, <2>4 DEF BurnImg
  <2>6. BurnPart(p, m, name) = BurnImg(p, m, name)
    BY <1>8 DEF BurnPart
  <2>7. QED BY <2>5, <2>6
<1>9. CASE m.kind = "ubifs"
  <2>1. Copy(name, m.at, m.size, "checked") \in S
    BY <1>1, <1>5, <1>9
  <2>2. BurnPart(p, m, name) = BurnUbifs(p, m, name)
    BY <1>9 DEF BurnPart
  <2> HIDE DEF S, m, name
  <2>3. /\ <<Tools(-1)>> \in Seq(S) /\ <<Erase(m.at, m.alloc)>> \in Seq(S) /\ <<>> \in Seq(S)
        /\ <<Copy(name, m.at, m.size, "checked")>> \in Seq(S)
    BY <1>3, <1>4, <2>1, SeqsAre
  <2>4. QED BY <2>2, <2>3, SeqsAre DEF BurnUbifs
<1>10. CASE m.kind = "yaffs"
  <2>1. ASSUME m.size <= m.alloc PROVE Copy(name, m.at, m.size, "checked") \in S
    BY <1>1, <1>5, <2>1
  <2>2. BurnPart(p, m, name) = BurnYaffs(p, m, name)
    BY <1>10 DEF BurnPart
  <2> HIDE DEF S, m, name
  <2>3. YaffsWrite(m, name) \in Seq(S)
    <3>1. CASE m.size > m.alloc
      BY <1>3, <3>1, SeqsAre DEF YaffsWrite
    <3>2. CASE ~(m.size > m.alloc)
      <4>1. Copy(name, m.at, m.size, "checked") \in S
        BY <1>1, <2>1, <3>2
      <4>2. QED BY <1>3, <1>4, <3>2, <4>1, SeqsAre DEF YaffsWrite
    <3>3. QED BY <3>1, <3>2
  <2>4. /\ m.file = "none" => <<Tools(0), Erase(m.at, m.alloc)>> \in Seq(S)
        /\ <<Call(-1)>> \in Seq(S) /\ <<Call(-1), Tools(-1), Call(-1)>> \in Seq(S) /\ <<>> \in Seq(S)
    BY <1>3, <1>4, <1>10, SeqsAre
  <2>5. BurnYaffs(p, m, name) \in Seq(S)
    <3>1. \/ BurnYaffs(p, m, name) = <<Tools(0), Erase(m.at, m.alloc)>> /\ m.file = "none"
          \/ BurnYaffs(p, m, name) = <<Call(-1)>> \o YaffsWrite(m, name)
          \/ BurnYaffs(p, m, name) = <<Call(-1), Tools(-1), Call(-1)>> \o YaffsWrite(m, name)
          \/ BurnYaffs(p, m, name) = <<>>
      BY DEF BurnYaffs
    <3>2. QED BY <2>3, <2>4, <3>1, SeqsAre
  <2>6. QED BY <2>2, <2>5
<1>11. CASE m.kind = "jffs"
  <2> DEFINE n == IF m.size > m.alloc THEN m.size ELSE m.alloc
  <2>1. /\ n \in 0..FlashSize /\ (n <= m.alloc \/ Overruns(p, m)) /\ (Low(m.at) = m.at \/ Overruns(p, m))
        /\ (m.size <= m.alloc \/ Overruns(p, m))
    BY <1>1, <1>11 DEF Overruns
  <2>2. CopyPbc(p, name, m.at, m.alloc, n) \in Seq(S) /\ CopyPbc(p, name, m.at, m.alloc, m.size) \in Seq(S)
    BY <1>1, <1>7, <2>1
  <2>3. Verify(name, Low(m.at), n) \in S /\ Verify(name, Low(m.at), m.size) \in S
    BY <1>1, <1>3, <1>6, <2>1
  <2>4. BurnPart(p, m, name) = BurnJffs(p, m, name)
    BY <1>11 DEF BurnPart
  <2> HIDE DEF S, m, name, n
  <2>5. JffsMade(p, m, name) \in Seq(S)
    <3>1. <<Call(-1)>> \in Seq(S) /\ IfVerify(p, <<Verify(name, Low(m.at), n)>>) \in Seq(S)
      BY <1>3, <2>3, SeqsAre
    <3>2. QED BY <2>2, <3>1, SeqsAre DEF JffsMade, n
  <2>6. CopyPbc(p, name, m.at, m.alloc, m.size) \o IfVerify(p, <<Verify(name, Low(m.at), m.size)>>) \in Seq(S)
    <3>1. IfVerify(p, <<Verify(name, Low(m.at), m.size)>>) \in Seq(S)
      BY <2>3, SeqsAre
    <3>2. QED BY <2>2, <3>1, SeqsAre
  <2>7. <<>> \in Seq(S)
    BY SeqsAre
  <2>8. \/ BurnJffs(p, m, name) = JffsMade(p, m, name)
        \/ BurnJffs(p, m, name) = CopyPbc(p, name, m.at, m.alloc, m.size)
                                  \o IfVerify(p, <<Verify(name, Low(m.at), m.size)>>)
        \/ BurnJffs(p, m, name) = <<>>
    BY DEF BurnJffs
  <2>9. QED BY <2>4, <2>5, <2>6, <2>7, <2>8
<1>12. CASE m.kind = "ext4"
  <2>1. BurnPart(p, m, name) = BurnExt4(p, m, name)
    BY <1>12 DEF BurnPart
  <2>2. CASE m.file = "bin"
    <3> DEFINE n == IF m.tail THEN m.size - 1 ELSE m.size
    <3>1. n \in 0..FlashSize /\ n <= m.size
      <4>1. CASE m.tail
        <5>1. n = m.size - 1 /\ m.size > 0
          BY <1>1, <4>1
        <5> HIDE DEF n
        <5>2. m.size \in 0..FlashSize /\ FlashSize \in Nat
          BY <1>1, PackageIs
        <5> HIDE DEF m
        <5>3. QED BY <5>1, <5>2
      <4>2. CASE ~m.tail
        BY <1>1, <4>2
      <4>3. QED BY <4>1, <4>2
    <3>5. n <= m.alloc \/ Overruns(p, m)
      <4>1. m.size > m.alloc => Overruns(p, m)
        BY <1>12, <2>2 DEF Overruns
      <4> HIDE DEF n
      <4>2. QED BY <1>1, <3>1, <4>1
    <3>2. Copy(name, m.at, n, "pipe") \in S
      BY <1>5, <1>12, <3>1, <3>5 DEF MayLapse
    <3>3. BurnExt4(p, m, name) = <<Copy(name, m.at, n, "pipe")>>
      BY <2>2 DEF BurnExt4
    <3> HIDE DEF S, m, name, n
    <3>4. QED BY <2>1, <3>2, <3>3, SeqsAre
  <2>3. CASE m.file \in {"bz2", "tar"}
    <3> DEFINE n == IF m.size > m.alloc THEN m.alloc ELSE m.size
    <3>1. n \in 0..FlashSize /\ n <= m.alloc
      BY <1>1
    <3>2. Copy(name, m.at, n, "fs") \in S
      BY <1>5, <1>12, <3>1 DEF MayLapse
    <3>3. BurnExt4(p, m, name) = <<Tools(-1), Erase(m.at, m.alloc), Call(-1), Copy(name, m.at, n, "fs")>>
      BY <2>3 DEF BurnExt4
    <3> HIDE DEF S, m, name, n
    <3>4. <<Tools(-1), Erase(m.at, m.alloc), Call(-1), Copy(name, m.at, n, "fs")>> \in Seq(S)
      BY <1>3, <1>4, <3>2
    <3>5. QED BY <2>1, <3>3, <3>4
  <2>4. CASE m.file \notin {"bin", "bz2", "tar"}
    <3>1. BurnExt4(p, m, name) = <<Return(-1)>>
      BY <2>4 DEF BurnExt4
    <3> HIDE DEF S, m, name
    <3>2. QED BY <1>3, <2>1, <3>1, SeqsAre
  <2>5. QED BY <2>2, <2>3, <2>4
<1>13. QED BY <1>1, <1>8, <1>9, <1>10, <1>11, <1>12 DEF Kinds

\* What the boot code consists of is written where it may be.
LEMMA PartSteps ==
  ASSUME NEW p \in Packages, NEW name \in Parts, NEW at \in Nat, NEW n \in 1..FlashSize,
         ~BootFits(p) \/ at + 4 * n <= p.boot.room
  PROVE  BootPart(p, name, at, n) \in Seq(Allowed(p, 0))
<1> DEFINE S == Allowed(p, 0)
<1>1. FlashSize \in Nat /\ p.boot.room \in Nat
  BY PackageIs
<1>2. First(p, 0) = 0 /\ Behind(p, 0) = p.boot.room /\ Outside(p, 0) = ~BootFits(p)
  BY DEF First, Behind, Outside
<1>3. ASSUME NEW a \in Nat, ~BootFits(p) \/ a + n <= p.boot.room
      PROVE  OneCopy(p, name, a, n) \in Seq(S)
  <2>1. Outside(p, 0) \/ (First(p, 0) <= a /\ a + n <= Behind(p, 0))
    <3>1. 0 <= a
      OBVIOUS
    <3>2. CASE ~BootFits(p)
      BY <1>2, <3>2
    <3>3. CASE a + n <= p.boot.room
      BY <1>2, <3>1, <3>3
    <3>4. QED BY <1>3, <3>2, <3>3
  <2>2. Erase(a, n) \in S /\ Copy(name, a, n, "checked") \in S /\ Verify(name, a, n) \in S
    BY <1>1, <2>1, StepsAre, NamesAre
  <2> HIDE DEF S
  <2>3. <<Erase(a, n), Copy(name, a, n, "checked")>> \in Seq(S) /\ IfVerify(p, <<Verify(name, a, n)>>) \in Seq(S)
    BY <2>2, SeqsAre
  <2>4. QED BY <2>3, SeqsAre DEF OneCopy
<1>4. OneCopy(p, name, at, n) \in Seq(S)
  BY <1>1, <1>3
<1>5. OneCopy(p, name, at + n, n) \in Seq(S)
  BY <1>1, <1>3
<1>6. OneCopy(p, name, at + 2 * n, n) \in Seq(S)
  BY <1>1, <1>3
<1>7. OneCopy(p, name, at + 3 * n, n) \in Seq(S)
  BY <1>1, <1>3
<1>8. Call(-1) \in S
  BY StepsAre
<1> HIDE DEF S
<1>9. <<Call(-1)>> \in Seq(S)
  BY <1>8, SeqsAre
<1>10. BootPart(p, name, at, n) \in Seq(S)
  BY <1>4, <1>5, <1>6, <1>7, <1>9, SeqsAre DEF BootPart
<1>11. QED BY <1>10 DEF S

LEMMA SectionSteps ==
  ASSUME NEW p \in Packages, NEW name \in Parts, NEW at \in Nat, NEW n \in 0..FlashSize,
         ~BootFits(p) \/ at + n <= p.boot.room
  PROVE  Section(name, at, n) \in Seq(Allowed(p, 0))
<1>1. FlashSize \in Nat /\ p.boot.room \in Nat
  BY PackageIs
<1>2. First(p, 0) = 0 /\ Behind(p, 0) = p.boot.room /\ Outside(p, 0) = ~BootFits(p)
  BY DEF First, Behind, Outside
<1>3. Outside(p, 0) \/ (First(p, 0) <= at /\ at + n <= Behind(p, 0))
  <2>1. 0 <= at
    OBVIOUS
  <2>2. CASE ~BootFits(p)
    BY <1>2, <2>2
  <2>3. CASE at + n <= p.boot.room
    BY <1>2, <2>1, <2>3
  <2>4. QED BY <2>2, <2>3
<1>4. Call(-1) \in Allowed(p, 0) /\ Copy(name, at, n, "checked") \in Allowed(p, 0) /\ Verify(name, at, n) \in Allowed(p, 0)
  BY <1>1, <1>3, StepsAre, NamesAre
<1>5. QED BY <1>4, SeqsAre DEF Section

\* Where the parts end.
LEMMA BootEndIs ==
  ASSUME NEW p \in Packages, p.with_boot
  PROVE  LET hw == p.boot.hw
             n  == p.boot.boot
         IN /\ hw \in 1..FlashSize /\ n \in 1..FlashSize /\ p.boot.room \in 1..FlashSize
            /\ p.flash = "nand" => ~BootFits(p) \/ 1 + 4 * hw + 4 * n <= p.boot.room
            /\ p.flash = "emmc" => ~BootFits(p) \/ 1 + hw + n <= p.boot.room
            /\ p.flash = "nor" => 1 + hw + n <= p.boot.room
            /\ p.flash = "nor" /\ p.protect => 1 + hw + n + p.boot.rescue <= p.boot.room
<1>1. /\ p.boot.hw \in 1..FlashSize /\ p.boot.boot \in 1..FlashSize /\ p.boot.room \in 1..FlashSize
      /\ p.boot.rescue \in 0..FlashSize /\ FlashSize \in Nat
  BY PackageIs
<1>2. p.flash = "nand" => (BootFits(p) <=> 1 + 4 * (p.boot.hw + p.boot.boot) <= p.boot.room)
  BY DEF BootFits, BootEnd, HwStart, Copies
<1>3. p.flash = "emmc" => (BootFits(p) <=> 1 + (p.boot.hw + p.boot.boot) <= p.boot.room)
  BY DEF BootFits, BootEnd, HwStart
<1>4. p.flash = "nor" => BootEnd(p) <= p.boot.room
  BY PackageIs DEF LaidOut, BootFits
<1>5. p.flash = "nor" /\ p.protect => BootEnd(p) = 1 + (p.boot.hw + p.boot.boot) + p.boot.rescue
  BY DEF BootEnd, HwStart
<1>6. p.flash = "nor" /\ ~p.protect => BootEnd(p) = 1 + (p.boot.hw + p.boot.boot) + 0
  BY DEF BootEnd, HwStart
<1>7. p.flash = "nand" => ~BootFits(p) \/ 1 + 4 * p.boot.hw + 4 * p.boot.boot <= p.boot.room
  BY <1>1, <1>2
<1>8. p.flash = "emmc" => ~BootFits(p) \/ 1 + p.boot.hw + p.boot.boot <= p.boot.room
  BY <1>1, <1>3
<1>9. p.flash = "nor" /\ p.protect => 1 + p.boot.hw + p.boot.boot + p.boot.rescue <= p.boot.room
  BY <1>1, <1>4, <1>5
<1>10. p.flash = "nor" /\ ~p.protect => 1 + p.boot.hw + p.boot.boot <= p.boot.room
  BY <1>1, <1>4, <1>6
<1>11. p.flash = "nor" => 1 + p.boot.hw + p.boot.boot <= p.boot.room
  <2>1. CASE p.protect
    BY <1>1, <1>9, <2>1
  <2>2. CASE ~p.protect
    BY <1>10, <2>2
  <2>3. QED BY <2>1, <2>2
<1>12. QED BY <1>1, <1>7, <1>8, <1>9, <1>11

LEMMA BootSteps ==
  ASSUME NEW p \in Packages, p.with_boot
  PROVE  BurnBoot(p) \in Seq(Allowed(p, 0))
<1> DEFINE hw == p.boot.hw
           n  == p.boot.boot
           S  == Allowed(p, 0)
<1> SUFFICES BurnBoot(p) \in Seq(S)
  OBVIOUS
<1>1. /\ hw \in 1..FlashSize /\ n \in 1..FlashSize /\ p.boot.room \in 1..FlashSize
      /\ p.boot.rescue \in 0..FlashSize /\ FlashSize \in Nat
      /\ HwStart = 1 /\ Copies = 4
  BY PackageIs DEF HwStart, Copies
<1>2. Call(-1) \in S /\ Tools(-1) \in S
  BY StepsAre
<1>3. CASE p.flash = "nand"
  <2>1. ~BootFits(p) \/ 1 + 4 * hw + 4 * n <= p.boot.room
    BY <1>3, BootEndIs
  <2>2. BootPart(p, Part("hw"), HwStart, hw) \in Seq(S)
    <3>1. ~BootFits(p) \/ 1 + 4 * hw <= p.boot.room
      BY <1>1, <2>1
    <3>2. QED BY <1>1, <3>1, PartSteps, NamesAre
  <2>3. BootPart(p, Part("boot"), HwStart + Copies * hw, n) \in Seq(S)
    <3>1. ~BootFits(p) \/ (1 + 4 * hw) + 4 * n <= p.boot.room
      BY <1>1, <2>1
    <3>2. 1 + 4 * hw \in Nat
      BY <1>1
    <3>3. BootPart(p, Part("boot"), 1 + 4 * hw, n) \in Seq(S)
      BY <1>1, <3>1, <3>2, PartSteps, NamesAre
    <3>4. HwStart + Copies * hw = 1 + 4 * hw
      BY <1>1
    <3>5. QED BY <3>3, <3>4
  <2>4. BurnBoot(p) = BootNand(p)
    BY <1>3 DEF BurnBoot
  <2> HIDE DEF S
  <2>5. <<Call(-1), Tools(-1)>> \in Seq(S)
    BY <1>2, SeqsAre
  <2>6. QED BY <2>2, <2>3, <2>4, <2>5, SeqsAre DEF BootNand
<1>4. CASE p.flash = "emmc"
  <2>1. ~BootFits(p) \/ 1 + hw + n <= p.boot.room
    BY <1>4, BootEndIs
  <2>2. Section(Part("hw"), HwStart, hw) \in Seq(S)
    <3>1. ~BootFits(p) \/ 1 + hw <= p.boot.room
      BY <1>1, <2>1
    <3>2. hw \in 0..FlashSize
      BY <1>1
    <3>3. Section(Part("hw"), 1, hw) \in Seq(S)
      BY <3>1, <3>2, SectionSteps, NamesAre
    <3>4. QED BY <1>1, <3>3
  <2>3. Section(Part("boot"), HwStart + hw, n) \in Seq(S)
    <3>1. 1 + hw \in Nat /\ n \in 0..FlashSize
      BY <1>1
    <3>2. Section(Part("boot"), 1 + hw, n) \in Seq(S)
      BY <2>1, <3>1, SectionSteps, NamesAre
    <3>3. QED BY <1>1, <3>2
  <2>4. BurnBoot(p) = BootEmmc(p)
    BY <1>4 DEF BurnBoot
  <2> HIDE DEF S
  <2>5. <<Call(-1)>> \in Seq(S)
    BY <1>2, SeqsAre
  <2>6. QED BY <2>2, <2>3, <2>4, <2>5, SeqsAre DEF BootEmmc
<1>5. CASE p.flash = "nor"
  <2>1. 1 + hw + n <= p.boot.room
    BY <1>5, BootEndIs
  <2>2. Section(Part("hw"), HwStart, hw) \in Seq(S)
    <3>1. 1 + hw <= p.boot.room
      BY <1>1, <2>1
    <3>2. QED BY <1>1, <3>1, SectionSteps, NamesAre
  <2>3. Section(Part("boot"), HwStart + hw, n) \in Seq(S)
    <3>1. 1 + hw \in Nat /\ n \in 0..FlashSize
      BY <1>1
    <3>2. Section(Part("boot"), 1 + hw, n) \in Seq(S)
      BY <2>1, <3>1, SectionSteps, NamesAre
    <3>3. QED BY <1>1, <3>2
  <2>4. Section(Part("reset"), 0, 1) \in Seq(S)
    BY <1>1, SectionSteps, NamesAre
  <2>5. NorRescue(p) \in Seq(S)
    <3>1. ASSUME p.protect
          PROVE  Section(Part("rescue"), HwStart + hw + n, p.boot.rescue) \in Seq(S)
      <4>1. 1 + hw + n + p.boot.rescue <= p.boot.room
        BY <1>5, <3>1, BootEndIs
      <4>2. 1 + hw + n \in Nat
        BY <1>1
      <4>3. Section(Part("rescue"), 1 + hw + n, p.boot.rescue) \in Seq(S)
        BY <1>1, <4>1, <4>2, SectionSteps, NamesAre
      <4>4. QED BY <1>1, <4>3
    <3> HIDE DEF S
    <3>2. <<>> \in Seq(S)
      BY SeqsAre
    <3>3. QED BY <3>1, <3>2 DEF NorRescue
  <2> DEFINE from == IF p.big THEN HwStart ELSE 0
  <2>6. Erase(from, p.boot.room - from) \in S
    <3>1. from \in {0, 1}
      BY <1>1
    <3> HIDE DEF from
    <3>2. from \in Nat /\ p.boot.room - from \in 0..FlashSize /\ from + (p.boot.room - from) = p.boot.room
      BY <1>1, <3>1
    <3>3. First(p, 0) <= from /\ from + (p.boot.room - from) <= Behind(p, 0)
      BY <1>1, <3>2 DEF First, Behind
    <3>4. QED BY <3>2, <3>3, StepsAre
  <2>7. BurnBoot(p) = BootNor(p)
    BY <1>5 DEF BurnBoot
  <2> HIDE DEF S, from
  <2>8. <<Call(-1), Erase(from, p.boot.room - from)>> \in Seq(S)
    BY <1>2, <2>6, SeqsAre
  <2>9. (IF p.big THEN <<>> ELSE Section(Part("reset"), 0, 1)) \in Seq(S)
    BY <2>4, SeqsAre
  <2>10. QED BY <2>2, <2>3, <2>5, <2>7, <2>8, <2>9, SeqsAre DEF BootNor, from
<1>6. QED BY <1>3, <1>4, <1>5, PackageIs

LEMMA StepsAllowed ==
  ASSUME NEW p \in Packages, NEW i, Burnable(p, i)
  PROVE  Steps(p, i) \in Seq(Allowed(p, i))
<1>1. CASE i = 0
  BY <1>1, BootSteps DEF Steps, Burnable
<1>2. CASE i # 0
  <2>1. i \in 1..Len(p.images)
    BY <1>2, PackageIs DEF Burnable
  <2>2. QED BY <1>2, <2>1, ImageSteps DEF Steps
<1>3. QED BY <1>1, <1>2

-----------------------------------------------------------------------------
(* The state.                                                                *)

Typed ==
  /\ TypeOK
  /\ now # -1 => Burnable(pkg, now) /\ todo \in Seq(Allowed(pkg, now))

\* What Typed says of a package that is installed and of what is left to do.
LEMMA HeadIs ==
  ASSUME Typed, now # -1, todo # <<>>
  PROVE  /\ Burnable(pkg, now) /\ todo \in Seq(Allowed(pkg, now)) /\ todo[1] \in Allowed(pkg, now)
         /\ Tail(todo) \in Seq(Allowed(pkg, now))
<1>1. Burnable(pkg, now) /\ todo \in Seq(Allowed(pkg, now))
  BY DEF Typed
<1> DEFINE S == Allowed(pkg, now)
<1> HIDE DEF S
<1>2. todo \in Seq(S) /\ todo # <<>>
  BY <1>1 DEF S
<1>3. todo[1] \in S /\ Tail(todo) \in Seq(S)
  BY <1>2
<1>4. QED BY <1>1, <1>3 DEF S

LEMMA OpIs ==
  ASSUME Typed, NEW o \in {"call", "tools", "return", "erase", "copy", "verify"}, Op(o)
  PROVE  /\ now # -1 /\ todo # <<>> /\ todo[1].op = o
         /\ o \in {"call", "tools", "return"} => todo[1].ret \in {-1, 0}
         /\ o \in {"erase", "copy", "verify"} => todo[1].at \in Nat /\ todo[1].n \in 0..FlashSize
         /\ o \in {"copy", "verify"} => todo[1].name \in Names
         /\ o = "copy" => todo[1].mode \in {"checked", "pipe", "fs"}
<1>1. now # -1 /\ todo # <<>> /\ todo[1].op = o
  BY DEF Op
<1>2. todo[1] \in AnyStep
  BY <1>1, HeadIs DEF Allowed
<1>3. QED BY <1>1, <1>2 DEF AnyStep

\* What a burn goes on with, or the next one, or the end of the run.
LEMMA Goes ==
  ASSUME Typed, now # -1, pkg' = pkg,
         \/ \E r \in {-1, 0} : Returns(r)
         \/ Next1 /\ now' = now /\ todo # <<>>
         \/ UNCHANGED <<now, todo>> /\ done' \in 0..FlashSize
         \/ now' = -1 /\ todo' = <<>> /\ done' = 0
  PROVE  /\ now' \in -1..Len(pkg.images) /\ done' \in 0..FlashSize /\ (now' = -1 => todo' = <<>>)
         /\ now' # -1 => Burnable(pkg, now') /\ todo' \in Seq(Allowed(pkg, now'))
<1>1. /\ pkg \in Packages /\ now \in -1..Len(pkg.images) /\ Burnable(pkg, now)
      /\ todo \in Seq(Allowed(pkg, now))
      /\ done \in 0..FlashSize /\ FlashSize \in Nat /\ Len(pkg.images) \in Nat
  BY PackageIs DEF Typed, TypeOK
<1>2. CASE \E r \in {-1, 0} : Returns(r)
  <2>1. CASE now' = now + 1 /\ todo' = Steps(pkg, now + 1) /\ done' = 0 /\ now < Len(pkg.images)
    <3>1. Burnable(pkg, now + 1)
      BY <1>1, <2>1 DEF Burnable
    <3>2. now + 1 # -1 /\ now + 1 \in -1..Len(pkg.images)
      BY <1>1, <2>1
    <3>3. Steps(pkg, now + 1) \in Seq(Allowed(pkg, now + 1))
      BY <1>1, <3>1, StepsAllowed
    <3>4. QED BY <1>1, <2>1, <3>1, <3>2, <3>3
  <2>2. CASE now' = -1 /\ todo' = <<>> /\ done' = 0
    BY <1>1, <2>2
  <2>3. QED BY <1>2, <2>1, <2>2 DEF Returns
<1>3. CASE Next1 /\ now' = now /\ todo # <<>>
  <2>1. Tail(todo) \in Seq(Allowed(pkg, now))
    BY <1>3, HeadIs
  <2>2. QED BY <1>1, <1>3, <2>1 DEF Next1
<1>4. CASE UNCHANGED <<now, todo>> /\ done' \in 0..FlashSize
  BY <1>1, <1>4
<1>5. CASE now' = -1 /\ todo' = <<>> /\ done' = 0
  BY <1>1, <1>5
<1>6. QED BY <1>2, <1>3, <1>4, <1>5

LEMMA TypedInit == Init => Typed
<1> SUFFICES ASSUME Init PROVE Typed
  OBVIOUS
<1>1. pkg \in Packages /\ now = -1 /\ todo = <<>> /\ run = 0 /\ done = 0 /\ tools = FALSE /\ burned = {} /\ lapses = {}
  BY DEF Init
<1>2. Len(pkg.images) \in Nat /\ FlashSize \in Nat /\ MaxRuns \in Nat
  BY <1>1, PackageIs, BurnAssumption
<1>3. DOMAIN flash = Blocks
  BY DEF Init, Factory
<1>4. run \in 0..MaxRuns /\ now \in -1..Len(pkg.images) /\ done \in 0..FlashSize
  BY <1>1, <1>2
<1>5. tools \in BOOLEAN /\ burned \subseteq 0..Len(pkg.images) /\ lapses \subseteq 0..Len(pkg.images)
  BY <1>1
<1>6. QED BY <1>1, <1>3, <1>4, <1>5 DEF Typed, TypeOK

LEMMA TypedNext == Typed /\ [Next]_vars => Typed'
<1> SUFFICES ASSUME Typed, [Next]_vars PROVE Typed'
  OBVIOUS
<1>1. /\ pkg \in Packages /\ run \in 0..MaxRuns /\ now \in -1..Len(pkg.images) /\ done \in 0..FlashSize
      /\ tools \in BOOLEAN /\ burned \subseteq 0..Len(pkg.images) /\ lapses \subseteq 0..Len(pkg.images)
      /\ DOMAIN flash = Blocks /\ (now = -1 => todo = <<>>)
      /\ Len(pkg.images) \in Nat /\ FlashSize \in Nat /\ MaxRuns \in Nat
  BY PackageIs, BurnAssumption DEF Typed, TypeOK
<1>2. now # -1 => now \in 0..Len(pkg.images)
  BY <1>1
<1>3. ASSUME NEW p \in Packages, Start(p)
      PROVE  Typed'
  <2>1. Burnable(p, now') /\ now' # -1
    <3>1. Len(p.images) \in Nat /\ (p.with_boot \/ 1..Len(p.images) # {})
      BY PackageIs DEF LaidOut
    <3>2. CASE p.with_boot
      BY <1>3, <3>1, <3>2 DEF Start, Burnable
    <3>3. CASE ~p.with_boot
      <4>1. now' = 1 /\ 1 \in 0..Len(p.images)
        BY <1>3, <3>1, <3>3 DEF Start
      <4>2. QED BY <4>1 DEF Burnable
    <3>4. QED BY <3>2, <3>3
  <2>2. pkg' = p /\ todo' = Steps(p, now') /\ done' = 0 /\ tools' = FALSE /\ burned' = {} /\ lapses' = {} /\ flash' = flash
    BY <1>3 DEF Start
  <2>3. run' \in 0..MaxRuns
    BY <1>1, <1>3 DEF Start
  <2>4. todo' \in Seq(Allowed(p, now'))
    BY <2>1, <2>2, StepsAllowed
  <2>5. now' \in -1..Len(p.images) /\ 0 \in 0..FlashSize
    BY <1>1, <2>1, PackageIs DEF Burnable
  <2>6. QED BY <1>1, <2>1, <2>2, <2>3, <2>4, <2>5 DEF Typed, TypeOK
<1>4. ASSUME now # -1, pkg' = pkg, run' = run, tools' \in BOOLEAN, DOMAIN flash' = DOMAIN flash,
             burned' \subseteq burned \cup {now}, lapses' \subseteq lapses \cup {now},
             \/ \E r \in {-1, 0} : Returns(r)
             \/ Next1 /\ now' = now /\ todo # <<>>
             \/ UNCHANGED <<now, todo>> /\ done' \in 0..FlashSize
             \/ now' = -1 /\ todo' = <<>> /\ done' = 0
      PROVE  Typed'
  <2>1. /\ now' \in -1..Len(pkg.images) /\ done' \in 0..FlashSize /\ (now' = -1 => todo' = <<>>)
        /\ now' # -1 => Burnable(pkg, now') /\ todo' \in Seq(Allowed(pkg, now'))
    BY <1>4, Goes
  <2>2. burned' \subseteq 0..Len(pkg.images) /\ lapses' \subseteq 0..Len(pkg.images)
    BY <1>1, <1>2, <1>4
  <2>3. QED BY <1>1, <1>4, <2>1, <2>2 DEF Typed, TypeOK
<1>5. CASE Finish
  <2>1. Returns(0) /\ now # -1
    BY <1>5 DEF Finish
  <2>2. QED BY <1>1, <1>4, <1>5, <2>1 DEF Finish
<1>6. CASE ReturnNow
  <2>1. now # -1 /\ todo[1].ret \in {-1, 0} /\ Returns(todo[1].ret)
    BY <1>6, OpIs DEF ReturnNow
  <2>2. QED BY <1>1, <1>4, <1>6, <2>1 DEF ReturnNow
<1>7. CASE CallSucceeds
  <2>1. now # -1 /\ todo # <<>>
    BY <1>7 DEF CallSucceeds, Op
  <2>2. QED BY <1>1, <1>4, <1>7, <2>1 DEF CallSucceeds
<1>8. CASE ToolsThere
  <2>1. now # -1 /\ todo # <<>>
    BY <1>8 DEF ToolsThere, Op
  <2>2. QED BY <1>1, <1>4, <1>8, <2>1 DEF ToolsThere
<1>9. CASE Fails
  <2>1. now # -1 /\ todo[1].ret \in {-1, 0} /\ Returns(todo[1].ret)
    <3>1. \E o \in {"call", "tools"} : Op(o)
      BY <1>9 DEF Fails
    <3>2. QED BY <1>9, <3>1, OpIs DEF Fails
  <2>2. QED BY <1>1, <1>4, <1>9, <2>1 DEF Fails, Lapse
<1>10. CASE EraseBlock
  <2>1. now # -1 /\ todo[1].n \in 0..FlashSize /\ done < todo[1].n /\ done' = done + 1
    BY <1>10, OpIs DEF EraseBlock
  <2>2. done' \in 0..FlashSize
    BY <1>1, <2>1
  <2>3. DOMAIN flash' = DOMAIN flash
    BY <1>10 DEF EraseBlock
  <2>4. QED BY <1>1, <1>4, <1>10, <2>1, <2>2, <2>3 DEF EraseBlock
<1>11. CASE CopyBlock
  <2>1. now # -1 /\ todo[1].n \in 0..FlashSize /\ done < todo[1].n /\ done' = done + 1
    BY <1>11, OpIs DEF CopyBlock
  <2>2. done' \in 0..FlashSize
    BY <1>1, <2>1
  <2>3. DOMAIN flash' = DOMAIN flash
    BY <1>11 DEF CopyBlock
  <2>4. QED BY <1>1, <1>4, <1>11, <2>1, <2>2, <2>3 DEF CopyBlock
<1>12. CASE BlocksDone
  <2>1. now # -1 /\ todo # <<>>
    BY <1>12 DEF BlocksDone, Op
  <2>2. QED BY <1>1, <1>4, <1>12, <2>1 DEF BlocksDone
<1>13. CASE BlockFails
  <2>1. now # -1 /\ Returns(-1)
    BY <1>13 DEF BlockFails, Op
  <2>2. QED BY <1>1, <1>4, <1>13, <2>1 DEF BlockFails
<1>14. CASE EndsShort
  <2>1. now # -1 /\ todo # <<>>
    BY <1>14 DEF EndsShort, Op
  <2>2. QED BY <1>1, <1>4, <1>14, <2>1 DEF EndsShort, Lapse
<1>15. CASE Verified
  <2>1. now # -1 /\ todo # <<>>
    BY <1>15 DEF Verified, Op
  <2>2. (Next1 /\ now' = now) \/ Returns(-1)
    BY <1>15 DEF Verified
  <2>3. QED BY <1>1, <1>4, <1>15, <2>1, <2>2 DEF Verified
<1>16. CASE VerifyFails
  <2>1. now # -1 /\ Returns(-1)
    BY <1>16 DEF VerifyFails, Op
  <2>2. QED BY <1>1, <1>4, <1>16, <2>1 DEF VerifyFails
<1>17. CASE PowerCut
  <2>1. now # -1 /\ now' = -1 /\ todo' = <<>> /\ done' = 0 /\ DOMAIN flash' = DOMAIN flash
    BY <1>17 DEF PowerCut
  <2>2. QED BY <1>1, <1>4, <1>17, <2>1 DEF PowerCut
<1>18. CASE UNCHANGED vars
  BY <1>18 DEF vars, Typed, TypeOK
<1>19. QED BY <1>3, <1>5, <1>6, <1>7, <1>8, <1>9, <1>10, <1>11, <1>12, <1>13, <1>14, <1>15, <1>16, <1>17, <1>18 DEF Next

\* Whatever is installed, fails or is cut short, every variable keeps its type, what is
\* burned is in the package, and a run that has ended has nothing left to do.
THEOREM TypeCorrect == Spec => []TypeOK
<1>1. Typed => TypeOK
  BY DEF Typed
<1>2. QED BY <1>1, TypedInit, TypedNext, PTL DEF Spec

-----------------------------------------------------------------------------
(* Nothing else is changed.                                                  *)

\* The one block that a step can change.
LEMMA OneBlock ==
  ASSUME Typed, Next, NEW b \in Blocks, flash'[b] # flash[b]
  PROVE  /\ now # -1 /\ todo # <<>> /\ todo[1].op \in {"erase", "copy"}
         /\ done \in Nat /\ done < todo[1].n /\ b = todo[1].at + done
<1>1. DOMAIN flash = Blocks /\ done \in Nat /\ flash' # flash
  BY PackageIs DEF Typed, TypeOK
<1>2. EraseBlock \/ CopyBlock \/ PowerCut
  BY <1>1 DEF Next, Start, Finish, ReturnNow, CallSucceeds, ToolsThere, Fails, BlocksDone, BlockFails,
              EndsShort, Verified, VerifyFails
<1>3. CASE EraseBlock
  BY <1>1, <1>3 DEF EraseBlock, Op
<1>4. CASE CopyBlock
  BY <1>1, <1>4 DEF CopyBlock, Op
<1>5. CASE PowerCut
  <2>1. (Op("copy") \/ Op("erase")) /\ done < todo[1].n /\ todo[1].at + done \in Blocks
    BY <1>1, <1>5 DEF PowerCut
  <2>2. flash' = [flash EXCEPT ![todo[1].at + done] = Torn]
    BY <1>1, <1>5, <2>1 DEF PowerCut
  <2>3. QED BY <1>1, <2>1, <2>2 DEF Op
<1>6. QED BY <1>2, <1>3, <1>4, <1>5

\* It is in the area of what is burned.
LEMMA OwnBlock ==
  ASSUME Typed, Next, NEW b \in Blocks, flash'[b] # flash[b]
  PROVE  now # -1 /\ Burnable(pkg, now) /\ (Outside(pkg, now) \/ (First(pkg, now) <= b /\ b < Behind(pkg, now)))
<1>1. /\ now # -1 /\ todo # <<>> /\ todo[1].op \in {"erase", "copy"}
      /\ done \in Nat /\ done < todo[1].n /\ b = todo[1].at + done
  BY OneBlock
<1>2. Burnable(pkg, now) /\ todo[1] \in Allowed(pkg, now) /\ pkg \in Packages
  BY <1>1, HeadIs DEF Typed, TypeOK
<1>3. Outside(pkg, now) \/ (First(pkg, now) <= todo[1].at /\ todo[1].at + todo[1].n <= Behind(pkg, now))
  BY <1>1, <1>2 DEF Allowed
<1>4. todo[1].at \in Nat /\ todo[1].n \in Nat
  BY <1>1, <1>2, PackageIs DEF Allowed, AnyStep
<1>5. First(pkg, now) \in Int /\ Behind(pkg, now) \in Int
  <2>1. CASE now = 0
    BY <1>2, <2>1, PackageIs DEF First, Behind
  <2>2. CASE now # 0
    <3>1. now \in 1..Len(pkg.images)
      BY <1>2, <2>2, PackageIs DEF Burnable
    <3>2. QED BY <1>2, <2>2, <3>1, ImageIs, PackageIs DEF First, Behind
  <2>3. QED BY <2>1, <2>2
<1>6. QED BY <1>1, <1>2, <1>3, <1>4, <1>5

\* Whatever fails, burning an image changes no block but those of its area, and burning
\* the boot code none but those that are reserved for it, but for the exceptions that
\* Overruns and BootFits name.
THEOREM OnlyItsAreaHolds == Spec => OnlyItsArea
<1>1. ASSUME Typed, [Next]_vars, NEW b \in Blocks, flash'[b] # flash[b]
      PROVE  IF now = 0 THEN b < pkg.boot.room \/ ~BootFits(pkg)
             ELSE LET m == pkg.images[now] IN b \in Area(m.at, m.alloc) \/ Overruns(pkg, m)
  <2>1. Next
    BY <1>1 DEF vars
  <2>2. /\ now # -1 /\ Burnable(pkg, now) /\ pkg \in Packages
        /\ Outside(pkg, now) \/ (First(pkg, now) <= b /\ b < Behind(pkg, now))
    BY <1>1, <2>1, OwnBlock DEF Typed, TypeOK
  <2>3. CASE now = 0
    BY <2>2, <2>3 DEF Outside, First, Behind
  <2>4. CASE now # 0
    <3>1. now \in 1..Len(pkg.images) /\ b \in Int
      BY <2>2, <2>4, PackageIs DEF Burnable, Blocks
    <3>2. pkg.images[now].at \in Nat /\ pkg.images[now].alloc \in Nat
      BY <2>2, <3>1, ImageIs, PackageIs
    <3>3. QED BY <2>2, <2>4, <3>1, <3>2 DEF Outside, First, Behind, Area
  <2>5. QED BY <2>3, <2>4
<1>2. Typed /\ [Next]_vars =>
        [\A b \in Blocks : flash'[b] # flash[b] =>
           IF now = 0 THEN b < pkg.boot.room \/ ~BootFits(pkg)
           ELSE LET m == pkg.images[now] IN b \in Area(m.at, m.alloc) \/ Overruns(pkg, m)]_vars
  BY <1>1
<1>3. QED BY <1>2, TypedInit, TypedNext, PTL DEF Spec, OnlyItsArea

-----------------------------------------------------------------------------
(* What has been burned so far.                                              *)

Writing(s)   == s.op \in {"erase", "copy"}
Apart(s, t)  == s.at + s.n <= t.at \/ t.at + t.n <= s.at
Covers(e, s) == e.op = "erase" /\ e.at <= s.at /\ s.at + s.n <= e.at + e.n
NoCopies(L)  == \A s \in Range(L) : s.op # "copy"

\* The verification of a copy.
Check(s) == Verify(s.name, Low(s.at), s.n)

\* What a copy has written, nothing later in the list overwrites; before it, or in e, its
\* blocks are erased; and one that may end early on NAND is verified if anything is.
Sound(p, e, L) ==
  \A j \in DOMAIN L : L[j].op = "copy" =>
    /\ \A k \in DOMAIN L : j < k /\ Writing(L[k]) => Apart(L[j], L[k])
    /\ p.flash = "emmc" \/ Covers(e, L[j]) \/ (\E i \in DOMAIN L : i < j /\ Covers(L[i], L[j]))
    /\ L[j].mode = "pipe" /\ p.verify /\ p.flash = "nand" => \E k \in DOMAIN L : j < k /\ L[k] = Check(L[j])

\* Of the burn that goes on: its steps, and those that are done.
List == Steps(pkg, now)
Gone == Range(List) \ Range(todo)

\* A copy is in the flash, or as much of it as has come through the pipe.
There(s)  == IsAt(s.name, s.at, s.n, run)
Partly(s) == \A k \in 0..(s.n - 1) : s.at + k \in Blocks => flash[s.at + k] \in {Erased, Cell(s.name, k, s.n, run)}
Empty(s)  == \A b \in Blocks : s.at <= b /\ b < s.at + s.n => flash[b] = Erased

\* The copies that are left find their blocks erased.
Ahead ==
  \A j \in DOMAIN todo : todo[j].op = "copy" =>
    /\ \A k \in DOMAIN todo : j < k /\ Writing(todo[k]) => Apart(todo[j], todo[k])
    /\ \/ pkg.flash = "emmc"
       \/ \E i \in DOMAIN todo : i < j /\ Covers(todo[i], todo[j])
       \/ \A b \in Blocks : todo[j].at + (IF j = 1 THEN done ELSE 0) <= b /\ b < todo[j].at + todo[j].n => flash[b] = Erased
    /\ todo[j].mode = "pipe" /\ pkg.verify /\ pkg.flash = "nand" => \E k \in DOMAIN todo : j < k /\ todo[k] = Check(todo[j])

\* The first step has got as far as done.
Halfway ==
  todo # <<>> =>
    /\ todo[1].op = "erase" => \A b \in Blocks : todo[1].at <= b /\ b < todo[1].at + done => flash[b] = Erased
    /\ todo[1].op = "copy" =>
         \A k \in 0..(done - 1) : /\ todo[1].at + k \in Blocks
                                  /\ flash[todo[1].at + k] = Cell(todo[1].name, k, todo[1].n, run)

\* What the steps that are done have left in the flash.
Past ==
  \A s \in Gone :
    /\ s.op # "return"
    /\ s.op = "copy" =>
         /\ \A j \in DOMAIN todo : Writing(todo[j]) => Apart(s, todo[j])
         /\ now \notin lapses => There(s)
         /\ pkg.flash # "emmc" => Partly(s)
         /\ now \in lapses /\ pkg.flash = "nand" /\ pkg.verify => There(s) \/ Check(s) \in Range(todo)
    /\ s.op = "erase" /\ NoCopies(List) => Empty(s)

Progress == now # -1 => Range(todo) \subseteq Range(List) /\ Ahead /\ Halfway /\ Past

\* Blocks with the name of an image that is or will be burned in this run are those that
\* are being burned now.
Own ==
  \A b \in Blocks, i \in 1..Len(pkg.images) :
    now # -1 /\ now <= i /\ flash[b][1] = Name(i) /\ flash[b][4] = run
      => i = now /\ First(pkg, i) <= b /\ b < Behind(pkg, i)

\* What was burned is still there, but for what was reported without having been written.
Complete(i) ==
  \A s \in Range(Steps(pkg, i)) :
    /\ s.op # "return"
    /\ s.op = "copy" /\ (i \in lapses => pkg.flash = "nand" /\ pkg.verify) => There(s)
    /\ s.op = "erase" /\ NoCopies(Steps(pkg, i)) /\ i \notin lapses => Empty(s)

Spared(i) == i # 0 /\ (MayEnd(pkg.images[i], "return") \/ (MayEnd(pkg.images[i], "tools") /\ i \in lapses))

Kept == \A i \in burned : Burnable(pkg, i) /\ (now = -1 \/ i < now) /\ (Complete(i) \/ Spared(i))

Dated == \A b \in Blocks : flash[b][4] \in 0..run

\* What has been begun can only have lapsed where that goes unnoticed.
Begun ==
  \A i \in lapses :
    /\ i # 0 /\ (now = -1 \/ i <= now)
    /\ MayEnd(pkg.images[i], "tools") \/ (\E mode \in {"pipe", "fs"} : MayLapse(pkg, pkg.images[i], mode))

IInv == Typed /\ Dated /\ Begun /\ (Fits(pkg) => Own /\ Progress /\ Kept)

-----------------------------------------------------------------------------
(* The lists of steps.                                                       *)

\* u is s followed by t, which have m and n members.
Joins(u, s, m, t, n) ==
  /\ m \in Nat /\ n \in Nat
  /\ DOMAIN u = 1..(m + n) /\ DOMAIN s = 1..m /\ DOMAIN t = 1..n
  /\ \A i \in 1..m : u[i] = s[i]
  /\ \A i \in 1..n : u[m + i] = t[i]

LEMMA JoinsAre ==
  ASSUME NEW S, NEW s \in Seq(S), NEW t \in Seq(S)
  PROVE  \E m, n \in Nat : Joins(s \o t, s, m, t, n)
<1> DEFINE m == Len(s)
           n == Len(t)
<1>1. m \in Nat /\ n \in Nat /\ DOMAIN s = 1..m /\ DOMAIN t = 1..n
  OBVIOUS
<1>2. /\ s \o t \in Seq(S) /\ Len(s \o t) = m + n
      /\ \A i \in 1..(m + n) : (s \o t)[i] = IF i <= m THEN s[i] ELSE t[i - m]
  BY ConcatProperties
<1>3. DOMAIN (s \o t) = 1..(m + n)
  BY <1>2
<1> HIDE DEF m, n
<1>4. ASSUME NEW i \in 1..n
      PROVE  (s \o t)[m + i] = t[i]
  <2>1. m + i \in 1..(m + n) /\ ~(m + i <= m) /\ (m + i) - m = i
    BY <1>1
  <2>2. QED BY <1>2, <2>1
<1>5. ASSUME NEW i \in 1..m
      PROVE  (s \o t)[i] = s[i]
  <2>1. i \in 1..(m + n) /\ i <= m
    BY <1>1
  <2>2. QED BY <1>2, <2>1
<1>6. QED BY <1>1, <1>3, <1>4, <1>5 DEF Joins

LEMMA SoundJoin ==
  ASSUME NEW p, NEW e, NEW f, NEW s \in Seq(AnyStep), NEW t \in Seq(AnyStep),
         Sound(p, e, s), Sound(p, f, t), f = e \/ f \in Range(s),
         \A a \in Range(s), b \in Range(t) : a.op = "copy" /\ Writing(b) => Apart(a, b)
  PROVE  Sound(p, e, s \o t)
<1> DEFINE u == s \o t
<1>1. PICK m \in Nat, n \in Nat : Joins(u, s, m, t, n)
  BY JoinsAre
<1>2. /\ DOMAIN u = 1..(m + n) /\ DOMAIN s = 1..m /\ DOMAIN t = 1..n
      /\ \A i \in 1..m : u[i] = s[i]
      /\ \A i \in 1..n : u[m + i] = t[i]
  BY <1>1 DEF Joins
<1> SUFFICES Sound(p, e, u)
  OBVIOUS
<1> HIDE DEF u
<1>3. SUFFICES ASSUME NEW j \in 1..(m + n), u[j].op = "copy"
               PROVE  /\ \A k \in 1..(m + n) : j < k /\ Writing(u[k]) => Apart(u[j], u[k])
                      /\ p.flash = "emmc" \/ Covers(e, u[j]) \/ (\E i \in 1..(m + n) : i < j /\ Covers(u[i], u[j]))
                      /\ u[j].mode = "pipe" /\ p.verify /\ p.flash = "nand"
                           => \E k \in 1..(m + n) : j < k /\ u[k] = Check(u[j])
  BY <1>2 DEF Sound
<1>4. \A k \in 1..(m + n) : k \in 1..m \/ (k > m /\ k - m \in 1..n /\ m + (k - m) = k)
  OBVIOUS
<1>5. \A k \in 1..m : k \in 1..(m + n)
  OBVIOUS
<1>6. CASE j \in 1..m
  <2>1. u[j] = s[j] /\ s[j].op = "copy" /\ s[j] \in Range(s)
    BY <1>2, <1>3, <1>6 DEF Range
  <2>2. ASSUME NEW k \in 1..(m + n), j < k, Writing(u[k])
        PROVE  Apart(u[j], u[k])
    <3>1. CASE k \in 1..m
      BY <1>2, <1>6, <2>1, <2>2, <3>1 DEF Sound
    <3>2. CASE k - m \in 1..n /\ m + (k - m) = k
      <4>1. u[k] = t[k - m] /\ t[k - m] \in Range(t)
        BY <1>2, <3>2 DEF Range
      <4>2. QED BY <2>1, <2>2, <4>1
    <3>3. QED BY <1>4, <3>1, <3>2
  <2>3. p.flash = "emmc" \/ Covers(e, u[j]) \/ (\E i \in 1..(m + n) : i < j /\ Covers(u[i], u[j]))
    <3>1. p.flash = "emmc" \/ Covers(e, s[j]) \/ (\E i \in 1..m : i < j /\ Covers(s[i], s[j]))
      BY <1>2, <1>6, <2>1 DEF Sound
    <3>2. QED BY <1>2, <1>5, <2>1, <3>1
  <2>4. ASSUME u[j].mode = "pipe", p.verify, p.flash = "nand"
        PROVE  \E k \in 1..(m + n) : j < k /\ u[k] = Check(u[j])
    <3>1. PICK k \in 1..m : j < k /\ s[k] = Check(s[j])
      BY <1>2, <1>6, <2>1, <2>4 DEF Sound
    <3>2. QED BY <1>2, <1>5, <2>1, <3>1
  <2>5. QED BY <2>2, <2>3, <2>4
<1>7. CASE j > m /\ j - m \in 1..n /\ m + (j - m) = j
  <2> DEFINE g == j - m
  <2>1. g \in 1..n /\ m + g = j
    BY <1>7
  <2> HIDE DEF g
  <2>2. u[j] = t[g] /\ t[g].op = "copy"
    BY <1>2, <1>3, <2>1
  <2>3. ASSUME NEW k \in 1..(m + n), j < k, Writing(u[k])
        PROVE  Apart(u[j], u[k])
    <3>1. k - m \in 1..n /\ m + (k - m) = k /\ g < k - m
      BY <2>1, <2>3
    <3>2. u[k] = t[k - m]
      BY <1>2, <3>1
    <3>3. QED BY <1>2, <2>1, <2>2, <2>3, <3>1, <3>2 DEF Sound
  <2>4. p.flash = "emmc" \/ Covers(e, u[j]) \/ (\E i \in 1..(m + n) : i < j /\ Covers(u[i], u[j]))
    <3>1. p.flash = "emmc" \/ Covers(f, t[g]) \/ (\E i \in 1..n : i < g /\ Covers(t[i], t[g]))
      BY <1>2, <2>1, <2>2 DEF Sound
    <3>2. CASE Covers(f, t[g])
      <4>1. CASE f = e
        BY <2>2, <3>2, <4>1
      <4>2. CASE f \in Range(s)
        <5>1. PICK i \in 1..m : f = s[i]
          BY <1>2, <4>2 DEF Range
        <5>2. i \in 1..(m + n) /\ i < j /\ u[i] = f
          BY <1>2, <1>7, <5>1
        <5>3. QED BY <2>2, <3>2, <5>2
      <4>3. QED BY <4>1, <4>2
    <3>3. ASSUME NEW i \in 1..n, i < g, Covers(t[i], t[g])
          PROVE  \E k \in 1..(m + n) : k < j /\ Covers(u[k], u[j])
      <4>1. m + i \in 1..(m + n) /\ m + i < j
        BY <2>1, <3>3
      <4>2. u[m + i] = t[i]
        BY <1>2
      <4>3. QED BY <2>2, <3>3, <4>1, <4>2
    <3>4. QED BY <2>2, <3>1, <3>2, <3>3
  <2>5. ASSUME u[j].mode = "pipe", p.verify, p.flash = "nand"
        PROVE  \E k \in 1..(m + n) : j < k /\ u[k] = Check(u[j])
    <3>1. PICK i \in 1..n : g < i /\ t[i] = Check(t[g])
      BY <1>2, <2>1, <2>2, <2>5 DEF Sound
    <3>2. m + i \in 1..(m + n) /\ j < m + i
      BY <2>1, <3>1
    <3>3. u[m + i] = t[i]
      BY <1>2
    <3>4. QED BY <2>2, <3>1, <3>2, <3>3
  <2>6. QED BY <2>3, <2>4, <2>5
<1>8. QED BY <1>4, <1>6, <1>7

LEMMA RangesAre ==
  /\ Range(<<>>) = {}
  /\ \A a : Range(<<a>>) = {a}
  /\ \A a, b : Range(<<a, b>>) = {a, b}
  /\ \A a, b, c : Range(<<a, b, c>>) = {a, b, c}
  /\ \A s, t \in Seq(AnyStep) : Range(s \o t) = Range(s) \cup Range(t)
<1>1. Range(<<>>) = {}
  BY DEF Range
<1>2. ASSUME NEW a PROVE Range(<<a>>) = {a}
  BY DEF Range
<1>3. ASSUME NEW a, NEW b PROVE Range(<<a, b>>) = {a, b}
  <2>1. DOMAIN <<a, b>> = {1, 2}
    OBVIOUS
  <2>2. QED BY <2>1 DEF Range
<1>4. ASSUME NEW a, NEW b, NEW c PROVE Range(<<a, b, c>>) = {a, b, c}
  <2>1. DOMAIN <<a, b, c>> = {1, 2, 3}
    OBVIOUS
  <2>2. QED BY <2>1 DEF Range
<1>5. \A s, t \in Seq(AnyStep) : Range(s \o t) = Range(s) \cup Range(t)
  BY RangeConcatenation
<1>6. QED BY <1>1, <1>2, <1>3, <1>4, <1>5

LEMMA SoundPlain ==
  ASSUME NEW p, NEW e, NEW s \in Seq(AnyStep), NoCopies(s)
  PROVE  Sound(p, e, s)
BY DEF Sound, NoCopies, Range

\* Steps before that copy nothing, and steps after that write nothing, change nothing.
LEMMA SoundBefore ==
  ASSUME NEW p, NEW e, NEW s \in Seq(AnyStep), NEW t \in Seq(AnyStep), NoCopies(s), Sound(p, e, t)
  PROVE  Sound(p, e, s \o t)
<1>1. Sound(p, e, s)
  BY SoundPlain
<1>2. \A a \in Range(s) : a.op # "copy"
  BY DEF NoCopies
<1>3. QED BY <1>1, <1>2, SoundJoin

LEMMA SoundAfter ==
  ASSUME NEW p, NEW e, NEW s \in Seq(AnyStep), NEW t \in Seq(AnyStep), Sound(p, e, s), \A b \in Range(t) : ~Writing(b)
  PROVE  Sound(p, e, s \o t)
<1>1. Sound(p, e, t)
  BY SoundPlain DEF NoCopies, Writing
<1>2. QED BY <1>1, SoundJoin

\* An area is erased and written, and compared if it must be.
LEMMA SoundPair ==
  ASSUME NEW p, NEW e, NEW name \in Names, NEW at \in Nat, NEW al \in Nat, NEW n \in Nat, n <= al,
         NEW mode \in {"checked", "pipe", "fs"}
  PROVE  /\ mode # "pipe" \/ ~p.verify => Sound(p, e, <<Erase(at, al), Copy(name, at, n, mode)>>)
         /\ Sound(p, e, <<Erase(at, al), Copy(name, at, n, mode), Verify(name, Low(at), n)>>)
<1> DEFINE x == Erase(at, al)
           c == Copy(name, at, n, mode)
           v == Verify(name, Low(at), n)
<1>1. Covers(x, c) /\ x.op # "copy" /\ v.op # "copy" /\ ~Writing(v) /\ v = Check(c) /\ c.mode = mode /\ c.op = "copy"
  BY DEF Covers, Erase, Copy, Verify, Writing, Check
<1> HIDE DEF x, c, v
<1>2. ASSUME mode # "pipe" \/ ~p.verify
      PROVE  Sound(p, e, <<x, c>>)
  <2>1. DOMAIN <<x, c>> = 1..2 /\ <<x, c>>[1] = x /\ <<x, c>>[2] = c
    OBVIOUS
  <2> DEFINE L == <<x, c>>
  <2> HIDE DEF L
  <2>2. \A j \in 1..2 : L[j].op = "copy" => j = 2
    BY <1>1, <2>1 DEF L
  <2>3. QED BY <1>1, <1>2, <2>1, <2>2 DEF Sound, L
<1>3. Sound(p, e, <<x, c, v>>)
  <2>1. DOMAIN <<x, c, v>> = 1..3 /\ <<x, c, v>>[1] = x /\ <<x, c, v>>[2] = c /\ <<x, c, v>>[3] = v
    OBVIOUS
  <2> DEFINE L == <<x, c, v>>
  <2> HIDE DEF L
  <2>2. \A j \in 1..3 : L[j].op = "copy" => j = 2
    BY <1>1, <2>1 DEF L
  <2>3. \A k \in 1..3 : 2 < k => k = 3
    OBVIOUS
  <2>4. QED BY <1>1, <2>1, <2>2, <2>3 DEF Sound, L
<1>4. QED BY <1>2, <1>3 DEF x, c, v

\* One copy onto an eMMC needs nothing.
LEMMA SoundOne ==
  ASSUME NEW p, p.flash = "emmc", NEW e, NEW c
  PROVE  Sound(p, e, <<c>>)
BY DEF Sound

HasCopy(L, name, at, n) == \E s \in Range(L) : s.op = "copy" /\ s.name = name /\ s.at = at /\ s.n = n
HasReturn(L) == \E s \in Range(L) : s.op = "return"

\* The list of an image copies what it must, unless it returns before its end.
Delivers(p, m, name, L) ==
  Writes(p, m) /\ ~CutOff(p, m) => HasCopy(L, name, m.at, Content(p, m)) \/ HasReturn(L)

LEMMA Kinds1 ==
  /\ \A name, at, n, mode : LET c == Copy(name, at, n, mode) IN c.op = "copy" /\ c.name = name /\ c.at = at /\ c.n = n
  /\ \A r : Call(r).op = "call" /\ Tools(r).op = "tools" /\ Return(r).op = "return"
  /\ \A at, n : Erase(at, n).op = "erase"
  /\ \A name, at, n : Verify(name, at, n).op = "verify"
BY DEF Copy, Call, Tools, Return, Erase, Verify

LEMMA Single ==
  ASSUME NEW v \in AnyStep
  PROVE  /\ <<v>> \in Seq(AnyStep) /\ Range(<<v>>) = {v}
         /\ v.op # "copy" => NoCopies(<<v>>) /\ \A p, e : Sound(p, e, <<v>>)
         /\ v.op = "return" => HasReturn(<<v>>)
<1>1. <<v>> \in Seq(AnyStep)
  BY SeqsAre
<1>2. Range(<<v>>) = {v}
  BY RangesAre
<1>3. v.op # "copy" => NoCopies(<<v>>)
  BY <1>2 DEF NoCopies
<1>4. ASSUME v.op # "copy", NEW p, NEW e PROVE Sound(p, e, <<v>>)
  BY <1>1, <1>3, <1>4, SoundPlain
<1>5. v.op = "return" => HasReturn(<<v>>)
  BY <1>2 DEF HasReturn
<1>6. QED BY <1>1, <1>2, <1>3, <1>4, <1>5

LEMMA PairIs ==
  ASSUME NEW S, NEW x \in S, NEW c \in S
  PROVE  <<x>> \o <<c>> = <<x, c>>
<1> DEFINE s == <<x>>
           t == <<c>>
           u == s \o t
           w == <<x, c>>
<1>1. s \in Seq(S) /\ t \in Seq(S) /\ w \in Seq(S)
  OBVIOUS
<1>2. Len(s) = 1 /\ Len(t) = 1 /\ Len(w) = 2 /\ s[1] = x /\ t[1] = c /\ w[1] = x /\ w[2] = c
  OBVIOUS
<1> HIDE DEF s, t, w
<1>3. /\ u \in Seq(S) /\ Len(u) = Len(s) + Len(t)
      /\ \A i \in 1 .. Len(s) + Len(t) : u[i] = IF i <= Len(s) THEN s[i] ELSE t[i - Len(s)]
  BY <1>1, ConcatProperties
<1> HIDE DEF u
<1>4. Len(u) = 2 /\ u[1] = x /\ u[2] = c
  BY <1>2, <1>3
<1>5. u = w
  BY <1>1, <1>2, <1>3, <1>4, SeqEqual
<1>6. QED BY <1>5 DEF u, w, s, t

LEMMA TripleIs ==
  ASSUME NEW S, NEW x \in S, NEW c \in S, NEW v \in S
  PROVE  <<x, c>> \o <<v>> = <<x, c, v>>
<1> DEFINE s == <<x, c>>
           t == <<v>>
           u == s \o t
           w == <<x, c, v>>
<1>1. s \in Seq(S) /\ t \in Seq(S) /\ w \in Seq(S)
  OBVIOUS
<1>2. Len(s) = 2 /\ Len(t) = 1 /\ Len(w) = 3 /\ s[1] = x /\ s[2] = c /\ t[1] = v
      /\ w[1] = x /\ w[2] = c /\ w[3] = v
  OBVIOUS
<1> HIDE DEF s, t, w
<1>3. /\ u \in Seq(S) /\ Len(u) = Len(s) + Len(t)
      /\ \A i \in 1 .. Len(s) + Len(t) : u[i] = IF i <= Len(s) THEN s[i] ELSE t[i - Len(s)]
  BY <1>1, ConcatProperties
<1> HIDE DEF u
<1>4. Len(u) = 3 /\ u[1] = x /\ u[2] = c /\ u[3] = v
  BY <1>2, <1>3
<1>5. u = w
  BY <1>1, <1>2, <1>3, <1>4, SeqEqual
<1>6. QED BY <1>5 DEF u, w, s, t

LEMMA PbcList ==
  ASSUME NEW p \in Packages, NEW e, NEW name \in Names, NEW at \in Nat, NEW al \in 0..FlashSize, NEW n \in 0..FlashSize, n <= al
  PROVE  LET L == CopyPbc(p, name, at, al, n) IN
         L \in Seq(AnyStep) /\ Sound(p, e, L) /\ (HasCopy(L, name, Low(at), n) \/ HasReturn(L))
<1> DEFINE L == CopyPbc(p, name, at, al, n)
           x == Erase(Low(at), al)
           c == Copy(name, Low(at), n, "checked")
           v == Return(-1)
<1>1. x \in AnyStep /\ c \in AnyStep /\ v \in AnyStep
  BY LowIs, AnyAre
<1>2. c.op = "copy" /\ c.name = name /\ c.at = Low(at) /\ c.n = n /\ v.op = "return"
  BY Kinds1
<1>3. Sound(p, e, <<x, c>>)
  <2>1. Low(at) \in Nat /\ al \in Nat /\ n \in Nat
    BY LowIs
  <2>2. "checked" # "pipe" \/ ~p.verify
    OBVIOUS
  <2>3. QED BY <2>1, <2>2, SoundPair
<1>4. Sound(p, e, <<v>>)
  BY <1>1, <1>2, Single
<1>5. p.flash = "emmc" => Sound(p, e, <<c>>)
  BY SoundOne
<1>6. \/ L = <<v>>
      \/ L = <<x>> \o <<c>>
      \/ L = <<>> \o <<c>> /\ p.flash = "emmc"
  BY DEF CopyPbc
<1> HIDE DEF L, x, c, v
<1>7. <<x>> \o <<c>> = <<x, c>> /\ <<>> \o <<c>> = <<c>>
  <2>1. <<c>> \in Seq(AnyStep)
    BY <1>1, Single
  <2>2. <<>> \o <<c>> = <<c>>
    BY <2>1, ConcatEmptySeq
  <2>3. QED BY <1>1, <2>2, PairIs
<1>8. L \in Seq(AnyStep)
  BY <1>1, <1>6, <1>7, SeqsAre
<1>9. Sound(p, e, L)
  BY <1>3, <1>4, <1>5, <1>6, <1>7
<1>10. HasCopy(L, name, Low(at), n) \/ HasReturn(L)
  <2>1. v \in Range(L) \/ c \in Range(L)
    BY <1>6, <1>7, RangesAre
  <2>2. QED BY <1>2, <2>1 DEF HasCopy, HasReturn
<1>11. QED BY <1>8, <1>9, <1>10 DEF L

LEMMA LonelyVerify ==
  ASSUME NEW p \in Packages, NEW v \in AnyStep, v.op = "verify"
  PROVE  /\ IfVerify(p, <<v>>) \in Seq(AnyStep) /\ \A b \in Range(IfVerify(p, <<v>>)) : ~Writing(b)
         /\ <<v>> \in Seq(AnyStep) /\ \A b \in Range(<<v>>) : ~Writing(b)
BY SeqsAre, RangesAre DEF IfVerify, Writing

\* More steps take nothing away.
LEMMA MoreIs ==
  ASSUME NEW s \in Seq(AnyStep), NEW t \in Seq(AnyStep)
  PROVE  /\ \A name, at, n : HasCopy(s, name, at, n) \/ HasCopy(t, name, at, n) => HasCopy(s \o t, name, at, n)
         /\ HasReturn(s) \/ HasReturn(t) => HasReturn(s \o t)
<1>1. Range(s \o t) = Range(s) \cup Range(t)
  BY RangesAre
<1>2. QED BY <1>1 DEF HasCopy, HasReturn

LEMMA JffsList ==
  ASSUME NEW p \in Packages, NEW e, NEW i \in 1..Len(p.images), p.images[i].kind = "jffs", ~Overruns(p, p.images[i])
  PROVE  LET m == p.images[i]
             L == BurnJffs(p, m, Name(i))
         IN  Sound(p, e, L) /\ Delivers(p, m, Name(i), L)
<1> DEFINE m == p.images[i]
           name == Name(i)
           L == BurnJffs(p, m, name)
           n == IF m.size > m.alloc THEN m.size ELSE m.alloc
<1>1. /\ m.size \in 0..FlashSize /\ m.alloc \in 0..FlashSize /\ m.at \in Nat /\ m.kind = "jffs"
      /\ m.file \in {"none", "img", "bz2", "tar", "bin", "other"} /\ m.mode = "update"
      /\ p.keep_etc \in BOOLEAN /\ FlashSize \in Nat /\ name \in Names
  <2>1. p.keep_etc \in BOOLEAN /\ FlashSize \in Nat /\ i \in Nat
    BY PackageIs
  <2>2. /\ m.size \in 0..FlashSize /\ m.alloc \in 0..FlashSize /\ m.at \in Nat /\ m.kind = "jffs"
        /\ m.file \in {"none", "img", "bz2", "tar", "bin", "other"} /\ m.mode = "update"
    BY <2>1, ImageIs
  <2>3. QED BY <2>1, <2>2, NamesAre
<1>2. m.size <= m.alloc /\ n = m.alloc /\ Low(m.at) = m.at
  BY <1>1 DEF Overruns
<1>3. Call(-1) \in AnyStep /\ Verify(name, Low(m.at), n) \in AnyStep /\ Verify(name, Low(m.at), m.size) \in AnyStep
  BY <1>1, <1>2, LowIs, AnyAre
<1>4. /\ Verify(name, Low(m.at), n).op = "verify" /\ Verify(name, Low(m.at), m.size).op = "verify"
      /\ Call(-1).op = "call"
  BY Kinds1
<1> DEFINE A == CopyPbc(p, name, m.at, m.alloc, n)
           B == CopyPbc(p, name, m.at, m.alloc, m.size)
           V == IfVerify(p, <<Verify(name, Low(m.at), n)>>)
           W == IfVerify(p, <<Verify(name, Low(m.at), m.size)>>)
           C == <<Call(-1)>>
<1>5. /\ A \in Seq(AnyStep) /\ Sound(p, e, A) /\ (HasCopy(A, name, m.at, m.alloc) \/ HasReturn(A))
      /\ B \in Seq(AnyStep) /\ Sound(p, e, B) /\ (HasCopy(B, name, m.at, m.size) \/ HasReturn(B))
  <2>1. n \in 0..FlashSize /\ n <= m.alloc
    BY <1>1, <1>2
  <2> HIDE DEF n, name, m
  <2>2. A \in Seq(AnyStep) /\ Sound(p, e, A) /\ (HasCopy(A, name, Low(m.at), n) \/ HasReturn(A))
    BY <1>1, <2>1, PbcList
  <2>3. B \in Seq(AnyStep) /\ Sound(p, e, B) /\ (HasCopy(B, name, Low(m.at), m.size) \/ HasReturn(B))
    BY <1>1, <1>2, PbcList
  <2> HIDE DEF A, B
  <2>4. QED BY <1>2, <2>2, <2>3
<1>6. /\ V \in Seq(AnyStep) /\ \A b \in Range(V) : ~Writing(b)
      /\ W \in Seq(AnyStep) /\ \A b \in Range(W) : ~Writing(b)
  BY <1>3, <1>4, LonelyVerify
<1>7. C \in Seq(AnyStep) /\ NoCopies(C) /\ \A b \in Range(C) : ~Writing(b)
  BY <1>3, <1>4, SeqsAre, RangesAre DEF NoCopies, Writing
<1>8. \/ (p.keep_etc \/ m.file = "bz2") /\ L = C \o A \o V \o C
      \/ ~p.keep_etc /\ m.file = "img" /\ L = B \o W
      \/ ~p.keep_etc /\ m.file \notin {"img", "bz2"} /\ L = <<>>
  BY <1>1 DEF BurnJffs, JffsMade
<1>9. /\ Writes(p, m) <=> p.keep_etc \/ m.file \in {"img", "bz2"}
      /\ Content(p, m) = IF p.keep_etc \/ m.file = "bz2" THEN m.alloc ELSE m.size
  BY <1>1 DEF Writes, Content
<1> SUFFICES Sound(p, e, L) /\ Delivers(p, m, name, L)
  OBVIOUS
<1> HIDE DEF L, A, B, C, V, W, m, name, n
<1>10. C \o A \in Seq(AnyStep) /\ Sound(p, e, C \o A)
  BY <1>5, <1>7, SoundBefore, SeqsAre
<1>11. C \o A \o V \in Seq(AnyStep) /\ Sound(p, e, C \o A \o V)
  BY <1>6, <1>10, SoundAfter, SeqsAre
<1>12. Sound(p, e, C \o A \o V \o C)
  BY <1>7, <1>11, SoundAfter
<1>13. HasCopy(C \o A \o V \o C, name, m.at, m.alloc) \/ HasReturn(C \o A \o V \o C)
  BY <1>5, <1>6, <1>7, <1>10, <1>11, MoreIs
<1>14. Sound(p, e, B \o W)
  BY <1>5, <1>6, SoundAfter
<1>15. HasCopy(B \o W, name, m.at, m.size) \/ HasReturn(B \o W)
  BY <1>5, <1>6, MoreIs
<1>16. Sound(p, e, <<>>)
  BY SoundPlain, RangesAre, SeqsAre DEF NoCopies
<1>17. QED BY <1>8, <1>9, <1>12, <1>13, <1>14, <1>15, <1>16 DEF Delivers

LEMMA Ext4List ==
  ASSUME NEW p \in Packages, NEW e, NEW i \in 1..Len(p.images), p.images[i].kind = "ext4"
  PROVE  LET m == p.images[i]
             L == BurnExt4(p, m, Name(i))
         IN  Sound(p, e, L) /\ Delivers(p, m, Name(i), L)
<1> DEFINE m == p.images[i]
           name == Name(i)
           L == BurnExt4(p, m, name)
           x == Erase(m.at, m.alloc)
           t == Tools(-1)
           a == Call(-1)
           n == IF m.size > m.alloc THEN m.alloc ELSE m.size
           c == Copy(name, m.at, n, "fs")
           k == IF m.tail THEN m.size - 1 ELSE m.size
           d == Copy(name, m.at, k, "pipe")
           r == Return(-1)
<1>1. /\ m.size \in 0..FlashSize /\ m.alloc \in 0..FlashSize /\ m.at \in Nat /\ m.kind = "ext4"
      /\ m.file \in {"none", "img", "bz2", "tar", "bin", "other"} /\ m.mode = "update"
      /\ p.flash = "emmc" /\ FlashSize \in Nat /\ name \in Names
  <2>1. FlashSize \in Nat /\ i \in Nat
    BY PackageIs
  <2>2. name \in Names
    BY <2>1, NamesAre
  <2> HIDE DEF name
  <2>3. QED BY <2>1, <2>2, ImageIs
<1>2. n \in 0..FlashSize /\ (m.size <= m.alloc => n = m.size)
  BY <1>1
<1>3. x \in AnyStep /\ t \in AnyStep /\ a \in AnyStep /\ c \in AnyStep /\ r \in AnyStep
  BY <1>1, <1>2, AnyAre
<1>4. /\ x.op = "erase" /\ t.op = "tools" /\ a.op = "call" /\ r.op = "return"
      /\ c.op = "copy" /\ c.name = name /\ c.at = m.at /\ c.n = n
      /\ d.op = "copy" /\ d.name = name /\ d.at = m.at /\ d.n = k
  BY Kinds1
<1>5. \/ m.file = "bin" /\ L = <<d>>
      \/ m.file \in {"bz2", "tar"} /\ L = <<t, x, a, c>>
      \/ m.file \notin {"bin", "bz2", "tar"} /\ L = <<r>>
  BY DEF BurnExt4
<1>6. /\ Writes(p, m) <=> m.file \in {"bin", "bz2", "tar"}
      /\ Content(p, m) = m.size
  BY <1>1 DEF Writes, Content
<1>7. ~CutOff(p, m) => (m.file = "bin" => ~m.tail) /\ (m.file \in {"bz2", "tar"} => ~(m.size > m.alloc))
  BY <1>1 DEF CutOff
<1>8. ~m.tail => k = m.size
  OBVIOUS
<1>9. ~(m.size > m.alloc) => n = m.size
  OBVIOUS
<1> SUFFICES Sound(p, e, L) /\ Delivers(p, m, name, L)
  OBVIOUS
<1> HIDE DEF L, m, name, x, t, a, n, c, k, d, r
<1>10. CASE m.file = "bin" /\ L = <<d>>
  <2>1. Sound(p, e, L)
    BY <1>1, <1>10, SoundOne
  <2>2. d \in Range(L)
    BY <1>10, RangesAre
  <2>3. QED BY <1>4, <1>6, <1>7, <1>8, <1>10, <2>1, <2>2 DEF Delivers, HasCopy
<1>11. CASE m.file \in {"bz2", "tar"} /\ L = <<t, x, a, c>>
  <2>1. L = <<t, x, a>> \o <<c>>
    BY <1>11
  <2>2. <<t, x, a>> \in Seq(AnyStep) /\ <<c>> \in Seq(AnyStep)
    BY <1>3, SeqsAre
  <2>3. NoCopies(<<t, x, a>>)
    BY <1>4, RangesAre DEF NoCopies
  <2>4. Sound(p, e, L)
    BY <1>1, <2>1, <2>2, <2>3, SoundOne, SoundBefore
  <2>5. c \in Range(L)
    <3>1. Range(<<c>>) = {c}
      BY <1>3, Single
    <3> DEFINE f == <<t, x, a>>
               g == <<c>>
    <3> HIDE DEF f, g
    <3>2. Range(f \o g) = Range(f) \cup Range(g)
      BY <2>2, RangesAre DEF f, g
    <3>3. QED BY <2>1, <3>1, <3>2 DEF f, g
  <2>6. QED BY <1>4, <1>6, <1>7, <1>9, <1>11, <2>4, <2>5 DEF Delivers, HasCopy
<1>12. CASE m.file \notin {"bin", "bz2", "tar"} /\ L = <<r>>
  <2>1. Sound(p, e, L)
    BY <1>3, <1>4, <1>12, Single
  <2>2. QED BY <1>6, <1>12, <2>1 DEF Delivers
<1>13. QED BY <1>5, <1>10, <1>11, <1>12

LEMMA YaffsList ==
  ASSUME NEW p \in Packages, NEW e, NEW i \in 1..Len(p.images), p.images[i].kind = "yaffs"
  PROVE  LET m == p.images[i]
             L == BurnYaffs(p, m, Name(i))
         IN  /\ Sound(p, e, L) /\ Delivers(p, m, Name(i), L)
             /\ m.file = "none" => NoCopies(L) /\ (m.alloc = 0 \/ Erase(m.at, m.alloc) \in Range(L))
<1> DEFINE m == p.images[i]
           name == Name(i)
           L == BurnYaffs(p, m, name)
           x == Erase(m.at, m.alloc)
           c == Copy(name, m.at, m.size, "checked")
           a == Call(-1)
           t == Tools(-1)
           z == Tools(0)
           r == Return(-1)
           Y == YaffsWrite(m, name)
<1>1. /\ m.size \in 0..FlashSize /\ m.alloc \in 0..FlashSize /\ m.at \in Nat /\ m.kind = "yaffs"
      /\ m.file \in {"none", "img", "bz2", "tar", "bin", "other"} /\ m.mode = "update"
      /\ FlashSize \in Nat /\ name \in Names
  <2>1. FlashSize \in Nat /\ i \in Nat
    BY PackageIs
  <2>2. /\ m.size \in 0..FlashSize /\ m.alloc \in 0..FlashSize /\ m.at \in Nat /\ m.kind = "yaffs"
        /\ m.file \in {"none", "img", "bz2", "tar", "bin", "other"} /\ m.mode = "update"
    BY <2>1, ImageIs, SMTT(20)
  <2>3. QED BY <2>1, <2>2, NamesAre
<1>2. x \in AnyStep /\ c \in AnyStep /\ a \in AnyStep /\ t \in AnyStep /\ z \in AnyStep /\ r \in AnyStep
  BY <1>1, AnyAre
<1>3. /\ x.op = "erase" /\ a.op = "call" /\ t.op = "tools" /\ z.op = "tools" /\ r.op = "return"
      /\ c.op = "copy" /\ c.name = name /\ c.at = m.at /\ c.n = m.size
  BY Kinds1
<1>4. /\ Writes(p, m) <=> m.file \in {"img", "bz2"}
      /\ Content(p, m) = m.size
  BY <1>1 DEF Writes, Content
<1>5. ASSUME m.size <= m.alloc PROVE Sound(p, e, <<x, c>>)
  <2>1. m.size \in Nat /\ m.alloc \in Nat /\ m.at \in Nat /\ name \in Names
    BY <1>1
  <2>2. "checked" # "pipe" \/ ~p.verify
    OBVIOUS
  <2>3. QED BY <1>5, <2>1, <2>2, SoundPair
<1>6. \/ m.size > m.alloc /\ Y = <<r>>
      \/ ~(m.size > m.alloc) /\ Y = <<x, c, a>>
  BY DEF YaffsWrite
<1>7. \/ m.file = "none" /\ m.alloc # 0 /\ L = <<z, x>>
      \/ m.file = "img" /\ L = <<a>> \o Y
      \/ m.file = "bz2" /\ L = <<a, t, a>> \o Y
      \/ (m.file = "none" => m.alloc = 0) /\ m.file \notin {"img", "bz2"} /\ L = <<>>
  BY DEF BurnYaffs
<1>8. ~(m.size > m.alloc) => m.size <= m.alloc
  BY <1>1
<1> SUFFICES /\ Sound(p, e, L) /\ Delivers(p, m, name, L)
             /\ m.file = "none" => NoCopies(L) /\ (m.alloc = 0 \/ x \in Range(L))
  OBVIOUS
<1> HIDE DEF m, name, L, x, c, a, t, z, r, Y
<1>9. Y \in Seq(AnyStep) /\ Sound(p, e, Y) /\ (HasCopy(Y, name, m.at, m.size) \/ HasReturn(Y))
  <2>1. CASE Y = <<r>>
    BY <1>2, <1>3, <2>1, Single
  <2>2. CASE m.size <= m.alloc /\ Y = <<x, c, a>>
    <3>1. Y = <<x, c>> \o <<a>>
      BY <2>2
    <3>2. <<x, c>> \in Seq(AnyStep) /\ <<a>> \in Seq(AnyStep)
      BY <1>2, SeqsAre
    <3>3. \A b \in Range(<<a>>) : ~Writing(b)
      BY <1>2, <1>3, Single DEF Writing
    <3>4. Y \in Seq(AnyStep)
      BY <1>2, <2>2, SeqsAre
    <3>5. Sound(p, e, Y)
      BY <1>5, <2>2, <3>1, <3>2, <3>3, SoundAfter
    <3>6. c \in Range(Y)
      BY <2>2, RangesAre
    <3>7. QED BY <1>3, <3>4, <3>5, <3>6 DEF HasCopy
  <2>3. QED BY <1>6, <1>8, <2>1, <2>2
<1>10. /\ <<a>> \in Seq(AnyStep) /\ NoCopies(<<a>>) /\ <<a, t, a>> \in Seq(AnyStep) /\ NoCopies(<<a, t, a>>)
       /\ <<z, x>> \in Seq(AnyStep) /\ NoCopies(<<z, x>>) /\ <<>> \in Seq(AnyStep) /\ NoCopies(<<>>)
  BY <1>2, <1>3, SeqsAre, RangesAre, SMTT(20) DEF NoCopies
<1>11. CASE m.file = "none" /\ m.alloc # 0 /\ L = <<z, x>>
  <2>1. Sound(p, e, L)
    BY <1>10, <1>11, SoundPlain
  <2>2. x \in Range(L)
    BY <1>11, RangesAre
  <2>3. QED BY <1>4, <1>10, <1>11, <2>1, <2>2 DEF Delivers
<1>12. CASE m.file = "img" /\ L = <<a>> \o Y
  <2>1. Sound(p, e, L)
    BY <1>9, <1>10, <1>12, SoundBefore
  <2>2. HasCopy(L, name, m.at, m.size) \/ HasReturn(L)
    BY <1>9, <1>10, <1>12, MoreIs
  <2>3. QED BY <1>4, <1>12, <2>1, <2>2 DEF Delivers
<1>13. CASE m.file = "bz2" /\ L = <<a, t, a>> \o Y
  <2>1. Sound(p, e, L)
    BY <1>9, <1>10, <1>13, SoundBefore
  <2>2. HasCopy(L, name, m.at, m.size) \/ HasReturn(L)
    BY <1>9, <1>10, <1>13, MoreIs
  <2>3. QED BY <1>4, <1>13, <2>1, <2>2 DEF Delivers
<1>14. CASE (m.file = "none" => m.alloc = 0) /\ m.file \notin {"img", "bz2"} /\ L = <<>>
  <2>1. Sound(p, e, L)
    BY <1>10, <1>14, SoundPlain
  <2>2. QED BY <1>4, <1>10, <1>14, <2>1 DEF Delivers
<1>15. QED BY <1>7, <1>11, <1>12, <1>13, <1>14

LEMMA UbifsList ==
  ASSUME NEW p \in Packages, NEW e, NEW i \in 1..Len(p.images), p.images[i].kind = "ubifs"
  PROVE  LET m == p.images[i]
             L == BurnUbifs(p, m, Name(i))
         IN  /\ Sound(p, e, L) /\ Delivers(p, m, Name(i), L)
             /\ m.file = "none" => NoCopies(L) /\ (m.alloc = 0 \/ Erase(m.at, m.alloc) \in Range(L))
<1> DEFINE m == p.images[i]
           name == Name(i)
           L == BurnUbifs(p, m, name)
           x == Erase(m.at, m.alloc)
           c == Copy(name, m.at, m.size, "checked")
           t == Tools(-1)
           T == <<t>>
           X == IF m.file = "none" /\ m.alloc = 0 THEN <<>> ELSE <<x>>
           C == IF m.file = "none" THEN <<>> ELSE <<c>>
<1>1. /\ m.size \in 0..FlashSize /\ m.alloc \in 0..FlashSize /\ m.at \in Nat /\ m.kind = "ubifs"
      /\ m.mode = "update" /\ m.size <= m.alloc /\ name \in Names /\ FlashSize \in Nat
  <2>1. FlashSize \in Nat /\ i \in Nat
    BY PackageIs
  <2>2. /\ m.size \in 0..FlashSize /\ m.alloc \in 0..FlashSize /\ m.at \in Nat /\ m.kind = "ubifs"
        /\ m.mode \in {"update", "backup", "skip"} /\ (m.mode # "update" => m.kind \in {"raw", "squash"})
    BY <2>1, ImageIs, SMTT(20)
  <2>5. m.mode = "update"
    BY <2>2
  <2>4. m.size <= m.alloc
    BY <2>2, ImageIs
  <2>3. QED BY <2>1, <2>2, <2>4, <2>5, NamesAre
<1>2. x \in AnyStep /\ c \in AnyStep /\ t \in AnyStep
  BY <1>1, AnyAre
<1>3. x.op = "erase" /\ t.op = "tools" /\ c.op = "copy" /\ c.name = name /\ c.at = m.at /\ c.n = m.size
  BY Kinds1
<1>4. /\ Writes(p, m) <=> m.file # "none"
      /\ Content(p, m) = m.size
  BY <1>1 DEF Writes, Content
<1>5. Sound(p, e, <<x, c>>)
  <2>1. m.size \in Nat /\ m.alloc \in Nat /\ m.at \in Nat /\ name \in Names /\ m.size <= m.alloc
    BY <1>1
  <2>2. "checked" # "pipe" \/ ~p.verify
    OBVIOUS
  <2>3. QED BY <2>1, <2>2, SoundPair
<1>6. L = T \o X \o C
  BY DEF BurnUbifs
<1> SUFFICES /\ Sound(p, e, L) /\ Delivers(p, m, name, L)
             /\ m.file = "none" => NoCopies(L) /\ (m.alloc = 0 \/ x \in Range(L))
  OBVIOUS
<1> HIDE DEF m, name, L, x, c, t
<1>7. T \in Seq(AnyStep) /\ X \in Seq(AnyStep) /\ C \in Seq(AnyStep)
  BY <1>2, SeqsAre
<1>8. NoCopies(T) /\ NoCopies(X) /\ Range(T) = {t}
  BY <1>2, <1>3, RangesAre DEF NoCopies
<1>9. T \o X \in Seq(AnyStep) /\ Range(T \o X) = Range(T) \cup Range(X)
  BY <1>7, RangesAre, SeqsAre
<1>10. Range(L) = Range(T) \cup Range(X) \cup Range(C)
  <2> DEFINE S == T \o X
  <2>1. S \in Seq(AnyStep) /\ Range(S) = Range(T) \cup Range(X) /\ L = S \o C
    BY <1>6, <1>9
  <2> HIDE DEF S, T, X, C
  <2>2. Range(S \o C) = Range(S) \cup Range(C)
    BY <1>7, <2>1, RangesAre
  <2>3. QED BY <2>1, <2>2
<1>11. CASE m.file = "none"
  <2>1. C = <<>> /\ Range(C) = {}
    BY <1>11, RangesAre
  <2>2. NoCopies(L)
    BY <1>8, <1>10, <2>1 DEF NoCopies
  <2>3. L \in Seq(AnyStep)
    BY <1>6, <1>7, <1>9, SeqsAre
  <2>4. m.alloc = 0 \/ x \in Range(L)
    BY <1>2, <1>10, <1>11, Single
  <2>5. QED BY <1>4, <1>11, <2>2, <2>3, <2>4, SoundPlain DEF Delivers
<1>12. CASE m.file # "none"
  <2>1. X = <<x>> /\ C = <<c>> /\ Range(C) = {c}
    BY <1>2, <1>12, Single
  <2>2. T \o X \o C = T \o (X \o C)
    BY <1>7, ConcatAssociative
  <2>3. X \o C = <<x, c>>
    BY <1>2, <2>1, PairIs
  <2>4. <<x, c>> \in Seq(AnyStep)
    BY <1>2, SeqsAre
  <2>5. Sound(p, e, L)
    BY <1>5, <1>6, <1>7, <1>8, <2>2, <2>3, <2>4, SoundBefore
  <2>6. c \in Range(L)
    BY <1>10, <2>1
  <2>7. QED BY <1>3, <1>4, <1>12, <2>5, <2>6 DEF Delivers, HasCopy
<1>13. QED BY <1>11, <1>12

LEMMA RawList ==
  ASSUME NEW p \in Packages, NEW e, NEW i \in 1..Len(p.images), p.images[i].kind \in {"raw", "squash"},
         ~Overruns(p, p.images[i])
  PROVE  LET m == p.images[i]
             L == BurnImg(p, m, Name(i))
         IN  Sound(p, e, L) /\ Delivers(p, m, Name(i), L)
<1> DEFINE m == p.images[i]
           name == Name(i)
           n == IF m.mode = "backup" THEN m.alloc ELSE m.size
           mode == IF m.mode = "backup" THEN "checked" ELSE "pipe"
           x == Erase(m.at, m.alloc)
           c == Copy(name, m.at, m.size, mode)
           v == Verify(name, Low(m.at), n)
           r == Return(-1)
           q == Return(0)
           t == Tools(-1)
           V == IfVerify(p, <<v>>)
           A == CopyPbc(p, name, m.at, m.alloc, n)
           M == BurnImgNand(p, m, name)
           N == BurnImgCopy(p, m, name)
<1>1. /\ m.size \in 0..FlashSize /\ m.alloc \in 0..FlashSize /\ m.at \in Nat /\ m.kind \in {"raw", "squash"}
      /\ m.mode \in {"update", "backup", "skip"} /\ m.size <= m.alloc /\ name \in Names /\ FlashSize \in Nat
      /\ p.flash \in {"nand", "nor", "emmc"}
  <2>1. FlashSize \in Nat /\ i \in Nat /\ p.flash \in {"nand", "nor", "emmc"}
    BY PackageIs
  <2>2. /\ m.size \in 0..FlashSize /\ m.alloc \in 0..FlashSize /\ m.at \in Nat /\ m.kind \in {"raw", "squash"}
        /\ m.mode \in {"update", "backup", "skip"}
    BY <2>1, ImageIs
  <2>3. m.size <= m.alloc
    BY ImageIs
  <2>4. QED BY <2>1, <2>2, <2>3, NamesAre
<1>2. p.flash # "nand" => Low(m.at) = m.at
  BY <1>1 DEF Overruns
<1>3. n \in 0..FlashSize /\ n <= m.alloc /\ mode \in {"checked", "pipe", "fs"} /\ (m.mode # "backup" => n = m.size)
      /\ Low(m.at) \in Nat
  <2>1. n \in 0..FlashSize /\ n <= m.alloc
    BY <1>1
  <2>2. Low(m.at) \in Nat
    BY <1>1, LowIs
  <2>3. QED BY <2>1, <2>2
<1>4. /\ x \in AnyStep /\ c \in AnyStep /\ v \in AnyStep /\ r \in AnyStep /\ q \in AnyStep /\ t \in AnyStep
  BY <1>1, <1>3, AnyAre
<1>5. /\ x.op = "erase" /\ v.op = "verify" /\ r.op = "return" /\ q.op = "return" /\ t.op = "tools"
      /\ c.op = "copy" /\ c.name = name /\ c.at = m.at /\ c.n = m.size
  BY Kinds1
<1>6. /\ Writes(p, m) <=> m.mode # "skip"
      /\ m.mode = "backup" => Content(p, m) = m.alloc
      /\ m.mode # "backup" => Content(p, m) = m.size
      /\ m.mode = "backup" /\ p.flash = "nand" /\ m.size < m.alloc => CutOff(p, m)
  BY <1>1 DEF Writes, Content, CutOff
<1>7. Sound(p, e, <<x, c>>) \/ (mode = "pipe" /\ p.verify)
  <2>1. m.size \in Nat /\ m.alloc \in Nat /\ m.size <= m.alloc /\ m.at \in Nat
    BY <1>1
  <2> HIDE DEF mode
  <2>2. QED BY <1>1, <1>3, <2>1, SoundPair
<1>8. m.mode # "backup" => Sound(p, e, <<x, c, v>>)
  <2>1. m.size \in Nat /\ m.alloc \in Nat /\ m.size <= m.alloc /\ m.at \in Nat
    BY <1>1
  <2> HIDE DEF mode
  <2>2. Sound(p, e, <<Erase(m.at, m.alloc), Copy(name, m.at, m.size, mode), Verify(name, Low(m.at), m.size)>>)
    BY <1>1, <1>3, <2>1, SoundPair
  <2>3. QED BY <1>3, <2>2
<1>9. /\ V \in Seq(AnyStep) /\ \A b \in Range(V) : ~Writing(b)
      /\ <<v>> \in Seq(AnyStep) /\ \A b \in Range(<<v>>) : ~Writing(b)
  BY <1>4, <1>5, LonelyVerify
<1>10. A \in Seq(AnyStep) /\ Sound(p, e, A) /\ (HasCopy(A, name, Low(m.at), n) \/ HasReturn(A))
  <2> HIDE DEF m, name, n
  <2>1. QED BY <1>1, <1>3, PbcList
<1>11. V = IF p.verify THEN <<v>> ELSE <<>>
  BY DEF IfVerify
<1>12. mode = "checked" <=> m.mode = "backup"
  OBVIOUS
<1>13. \/ m.mode = "update" /\ M = <<t>> \o <<r>>
       \/ m.mode = "skip" /\ M = <<t>> \o <<q>>
       \/ m.mode # "skip" /\ M = <<t>> \o <<r>>
       \/ m.mode # "skip" /\ M = <<t>> \o (<<x, c>> \o V)
  BY <1>1 DEF BurnImgNand
<1>14. \/ m.mode = "update" /\ N = <<r>>
       \/ m.mode = "skip" /\ N = <<q>>
       \/ /\ m.mode # "skip"
          /\ \/ N = A \o <<r>> \o <<v>> \/ N = A \o <<>> \o <<v>>
             \/ N = A \o <<r>> \o V \/ N = A \o <<>> \o V
  BY <1>1 DEF BurnImgCopy
<1>15. BurnImg(p, m, name) = IF p.flash = "nand" THEN M ELSE N
  BY DEF BurnImg
<1> SUFFICES Sound(p, e, IF p.flash = "nand" THEN M ELSE N) /\ Delivers(p, m, name, IF p.flash = "nand" THEN M ELSE N)
  BY <1>15
<1> HIDE DEF m, name, n, mode, x, c, v, r, q, t, V, A, M, N
<1>16. <<t>> \in Seq(AnyStep) /\ NoCopies(<<t>>) /\ <<x, c>> \in Seq(AnyStep) /\ <<>> \in Seq(AnyStep)
  BY <1>4, <1>5, SeqsAre, Single
<1>17. /\ <<r>> \in Seq(AnyStep) /\ Sound(p, e, <<r>>) /\ HasReturn(<<r>>) /\ \A b \in Range(<<r>>) : ~Writing(b)
       /\ <<q>> \in Seq(AnyStep) /\ Sound(p, e, <<q>>) /\ HasReturn(<<q>>)
  BY <1>4, <1>5, Single DEF Writing
<1>18. CASE p.flash = "nand"
  <2>1. <<x, c>> \o V \in Seq(AnyStep) /\ Sound(p, e, <<x, c>> \o V)
    <3>1. CASE p.verify /\ m.mode # "backup"
      <4>1. <<x, c>> \o V = <<x, c, v>>
        <5>1. V = <<v>>
          BY <1>11, <3>1
        <5>2. <<x, c>> \o <<v>> = <<x, c, v>>
          BY <1>4, TripleIs
        <5>3. QED BY <5>1, <5>2
      <4>2. <<x, c, v>> \in Seq(AnyStep)
        BY <1>4, SeqsAre
      <4>3. QED BY <1>8, <3>1, <4>1, <4>2
    <3>2. CASE ~(p.verify /\ m.mode # "backup")
      <4>1. Sound(p, e, <<x, c>>)
        BY <1>7, <1>12, <3>2
      <4>2. QED BY <1>9, <1>16, <4>1, SoundAfter, SeqsAre
    <3>3. QED BY <3>1, <3>2
  <2>2. Sound(p, e, M)
    BY <1>13, <1>16, <1>17, <2>1, SoundBefore
  <2>3. HasCopy(<<x, c>> \o V, name, m.at, m.size)
    <3>1. HasCopy(<<x, c>>, name, m.at, m.size)
      BY <1>5, RangesAre DEF HasCopy
    <3>2. QED BY <1>9, <1>16, <3>1, MoreIs
  <2>4. m.mode # "skip" => HasCopy(M, name, m.at, m.size) \/ HasReturn(M)
    BY <1>13, <1>16, <1>17, <2>1, <2>3, MoreIs
  <2>5. ~CutOff(p, m) => Content(p, m) = m.size
    <3>1. m.size \in Nat /\ m.alloc \in Nat
      BY <1>1
    <3>2. CASE m.mode = "backup"
      <4>1. ~CutOff(p, m) => ~(m.size < m.alloc)
        BY <1>6, <1>18, <3>2
      <4>2. ~(m.size < m.alloc) => m.size = m.alloc
        BY <1>1, <3>1
      <4>3. QED BY <1>6, <3>2, <4>1, <4>2
    <3>3. CASE m.mode # "backup"
      BY <1>6, <3>3
    <3>4. QED BY <3>2, <3>3
  <2>6. QED BY <1>6, <1>18, <2>2, <2>4, <2>5 DEF Delivers
<1>19. CASE p.flash # "nand"
  <2>1. A \o <<>> \in Seq(AnyStep) /\ A \o <<r>> \in Seq(AnyStep)
    BY <1>10, <1>16, <1>17, SeqsAre
  <2>2. Sound(p, e, A \o <<>>) /\ Sound(p, e, A \o <<r>>)
    <3>1. \A b \in Range(<<>>) : ~Writing(b)
      BY RangesAre
    <3>2. QED BY <1>10, <1>16, <1>17, <3>1, SoundAfter
  <2>3. Sound(p, e, N)
    BY <1>9, <1>14, <1>17, <2>1, <2>2, SoundAfter
  <2>4. Content(p, m) = n /\ Low(m.at) = m.at
    BY <1>2, <1>3, <1>6, <1>19 DEF n
  <2>5. HasCopy(A, name, m.at, n) \/ HasReturn(A)
    BY <1>10, <2>4
  <2>6. m.mode # "skip" => HasCopy(N, name, m.at, n) \/ HasReturn(N)
    BY <1>9, <1>10, <1>14, <1>16, <1>17, <2>1, <2>5, MoreIs
  <2>7. QED BY <1>6, <1>19, <2>3, <2>4, <2>6 DEF Delivers
<1>20. QED BY <1>18, <1>19

\* All lists of images.
LEMMA ImageLists ==
  ASSUME NEW p \in Packages, NEW e, NEW i \in 1..Len(p.images), ~Overruns(p, p.images[i])
  PROVE  LET m == p.images[i]
             L == BurnPart(p, m, Name(i))
         IN  /\ Sound(p, e, L) /\ Delivers(p, m, Name(i), L)
             /\ m.kind \in {"yaffs", "ubifs"} /\ m.file = "none"
                  => NoCopies(L) /\ (m.alloc = 0 \/ Erase(m.at, m.alloc) \in Range(L))
<1>1. p.images[i].kind \in Kinds
  BY ImageIs
<1>2. CASE p.images[i].kind \in {"raw", "squash"}
  BY <1>2, RawList DEF BurnPart
<1>3. CASE p.images[i].kind = "ubifs"
  BY <1>3, UbifsList DEF BurnPart
<1>4. CASE p.images[i].kind = "yaffs"
  BY <1>4, YaffsList DEF BurnPart
<1>5. CASE p.images[i].kind = "jffs"
  BY <1>5, JffsList DEF BurnPart
<1>6. CASE p.images[i].kind = "ext4"
  BY <1>6, Ext4List DEF BurnPart
<1>7. QED BY <1>1, <1>2, <1>3, <1>4, <1>5, <1>6 DEF Kinds

\* Steps that write between two blocks only.
Fills(p, e, L, a, b) ==
  /\ L \in Seq(AnyStep) /\ Sound(p, e, L)
  /\ \A s \in Range(L) : Writing(s) => a <= s.at /\ s.at + s.n <= b

LEMMA FillsJoin ==
  ASSUME NEW p, NEW e, NEW a \in Nat, NEW b \in Nat, NEW c \in Nat, a <= b, b <= c,
         NEW s, NEW t, Fills(p, e, s, a, b), Fills(p, e, t, b, c)
  PROVE  Fills(p, e, s \o t, a, c)
<1>1. s \in Seq(AnyStep) /\ t \in Seq(AnyStep) /\ Sound(p, e, s) /\ Sound(p, e, t)
  BY DEF Fills
<1>2. Range(s \o t) = Range(s) \cup Range(t)
  BY <1>1, RangesAre
<1>3. \A x \in Range(s) \cup Range(t) : x \in AnyStep
  BY <1>1 DEF Range
<1>4. ASSUME NEW x \in Range(s) \cup Range(t), Writing(x)
      PROVE  x.at \in Nat /\ x.n \in Nat
  <2>1. x \in AnyStep /\ x.op \in {"erase", "copy"} /\ FlashSize \in Nat
    BY <1>3, <1>4, BurnAssumption DEF Writing
  <2>2. QED BY <2>1 DEF AnyStep
<1>5. ASSUME NEW x \in Range(s), NEW y \in Range(t), x.op = "copy", Writing(y)
      PROVE  Apart(x, y)
  <2>1. Writing(x)
    BY <1>5 DEF Writing
  <2>2. x.at + x.n <= b /\ b <= y.at
    BY <1>5, <2>1 DEF Fills
  <2>3. x.at \in Nat /\ x.n \in Nat /\ y.at \in Nat
    BY <1>4, <1>5, <2>1
  <2>4. QED BY <2>2, <2>3 DEF Apart
<1>6. Sound(p, e, s \o t)
  BY <1>1, <1>5, SoundJoin
<1>7. \A x \in Range(s) : Writing(x) => a <= x.at /\ x.at + x.n <= c
  <2> SUFFICES ASSUME NEW x \in Range(s), Writing(x) PROVE a <= x.at /\ x.at + x.n <= c
    OBVIOUS
  <2>1. x.at \in Nat /\ x.n \in Nat /\ a <= x.at /\ x.at + x.n <= b
    BY <1>4 DEF Fills
  <2>2. QED BY <2>1
<1>8. \A x \in Range(t) : Writing(x) => a <= x.at /\ x.at + x.n <= c
  <2> SUFFICES ASSUME NEW x \in Range(t), Writing(x) PROVE a <= x.at /\ x.at + x.n <= c
    OBVIOUS
  <2>1. x.at \in Nat /\ x.n \in Nat /\ b <= x.at /\ x.at + x.n <= c
    BY <1>4 DEF Fills
  <2>2. QED BY <2>1
<1>9. s \o t \in Seq(AnyStep)
  BY <1>1, SeqsAre
<1>10. QED BY <1>2, <1>6, <1>7, <1>8, <1>9 DEF Fills

\* Steps that write nothing.
LEMMA FillsNothing ==
  ASSUME NEW p, NEW e, NEW a \in Nat, NEW b \in Nat, NEW s \in Seq(AnyStep), \A x \in Range(s) : ~Writing(x)
  PROVE  Fills(p, e, s, a, b)
<1>1. NoCopies(s)
  BY DEF NoCopies, Writing
<1>2. QED BY <1>1, SoundPlain DEF Fills

LEMMA CopyFills ==
  ASSUME NEW p \in Packages, NEW e, NEW name \in Names, NEW at \in Nat, NEW n \in 0..FlashSize
  PROVE  LET L == OneCopy(p, name, at, n) IN Fills(p, e, L, at, at + n) /\ HasCopy(L, name, at, n)
<1> DEFINE x == Erase(at, n)
           c == Copy(name, at, n, "checked")
           v == Verify(name, at, n)
           V == IfVerify(p, <<v>>)
           L == OneCopy(p, name, at, n)
<1>1. x \in AnyStep /\ c \in AnyStep /\ v \in AnyStep
  BY AnyAre
<1>2. /\ x.op = "erase" /\ x.at = at /\ x.n = n /\ v.op = "verify"
      /\ c.op = "copy" /\ c.name = name /\ c.at = at /\ c.n = n
  BY DEF Erase, Copy, Verify
<1>3. Sound(p, e, <<x, c>>)
  <2>1. n \in Nat /\ n <= n /\ ("checked" # "pipe" \/ ~p.verify)
    BY PackageIs
  <2>2. QED BY <2>1, SoundPair
<1>4. L = <<x, c>> \o V
  BY DEF OneCopy
<1>5. V \in Seq(AnyStep) /\ \A b \in Range(V) : ~Writing(b)
  BY <1>1, <1>2, LonelyVerify
<1> SUFFICES Fills(p, e, L, at, at + n) /\ HasCopy(L, name, at, n)
  OBVIOUS
<1> HIDE DEF x, c, v, V, L
<1>6. <<x, c>> \in Seq(AnyStep) /\ Range(<<x, c>>) = {x, c}
  BY <1>1, SeqsAre, RangesAre
<1>7. L \in Seq(AnyStep) /\ Sound(p, e, L)
  BY <1>3, <1>4, <1>5, <1>6, SoundAfter, SeqsAre
<1>8. Range(L) = {x, c} \cup Range(V)
  BY <1>4, <1>5, <1>6, RangesAre
<1>9. x.at + x.n <= at + n /\ c.at + c.n <= at + n /\ at <= x.at /\ at <= c.at
  <2>1. at + n \in Nat
    BY PackageIs
  <2>2. QED BY <1>2, <2>1
<1>10. \A s \in Range(L) : Writing(s) => at <= s.at /\ s.at + s.n <= at + n
  BY <1>5, <1>8, <1>9
<1>11. HasCopy(L, name, at, n)
  BY <1>2, <1>8 DEF HasCopy
<1>12. QED BY <1>7, <1>10, <1>11 DEF Fills

\* All copies of a part.
LEMMA PartFills ==
  ASSUME NEW p \in Packages, NEW e, NEW name \in Names, NEW at \in Nat, NEW n \in 0..FlashSize
  PROVE  LET L == BootPart(p, name, at, n) IN
         /\ Fills(p, e, L, at, at + 4 * n)
         /\ HasCopy(L, name, at, n) /\ HasCopy(L, name, at + n, n)
         /\ HasCopy(L, name, at + 2 * n, n) /\ HasCopy(L, name, at + 3 * n, n)
<1> DEFINE a == Call(-1)
           C == <<a>>
           A == OneCopy(p, name, at, n)
           B == OneCopy(p, name, at + n, n)
           D == OneCopy(p, name, at + 2 * n, n)
           E == OneCopy(p, name, at + 3 * n, n)
           L == BootPart(p, name, at, n)
<1>1. n \in Nat /\ at + n \in Nat /\ at + 2 * n \in Nat /\ at + 3 * n \in Nat /\ at + 4 * n \in Nat
  BY PackageIs
<1>2. Fills(p, e, A, at, at + n) /\ HasCopy(A, name, at, n)
  BY CopyFills
<1>3. Fills(p, e, B, at + n, at + 2 * n) /\ HasCopy(B, name, at + n, n)
  <2>1. (at + n) + n = at + 2 * n
    BY <1>1
  <2>2. Fills(p, e, B, at + n, (at + n) + n) /\ HasCopy(B, name, at + n, n)
    BY <1>1, CopyFills
  <2>3. QED BY <2>1, <2>2
<1>4. Fills(p, e, D, at + 2 * n, at + 3 * n) /\ HasCopy(D, name, at + 2 * n, n)
  <2>1. (at + 2 * n) + n = at + 3 * n
    BY <1>1
  <2>2. Fills(p, e, D, at + 2 * n, (at + 2 * n) + n) /\ HasCopy(D, name, at + 2 * n, n)
    BY <1>1, CopyFills
  <2>3. QED BY <2>1, <2>2
<1>5. Fills(p, e, E, at + 3 * n, at + 4 * n) /\ HasCopy(E, name, at + 3 * n, n)
  <2>1. (at + 3 * n) + n = at + 4 * n
    BY <1>1
  <2>2. Fills(p, e, E, at + 3 * n, (at + 3 * n) + n) /\ HasCopy(E, name, at + 3 * n, n)
    BY <1>1, CopyFills
  <2>3. QED BY <2>1, <2>2
<1>6. Fills(p, e, C, at, at)
  <2>1. a \in AnyStep /\ a.op = "call"
    BY AnyAre, Kinds1
  <2> HIDE DEF a
  <2>2. C \in Seq(AnyStep) /\ \A x \in Range(C) : ~Writing(x)
    BY <2>1, Single DEF Writing
  <2>3. QED BY <2>2, FillsNothing
<1>7. L = C \o A \o B \o D \o E
  BY DEF BootPart
<1> DEFINE b1 == at + n
           b2 == at + 2 * n
           b3 == at + 3 * n
           b4 == at + 4 * n
<1>8. b1 \in Nat /\ b2 \in Nat /\ b3 \in Nat /\ b4 \in Nat /\ at <= at /\ at <= b1 /\ b1 <= b2 /\ b2 <= b3 /\ b3 <= b4
      /\ at <= b2 /\ at <= b3
  BY <1>1
<1> SUFFICES /\ Fills(p, e, L, at, b4)
             /\ HasCopy(L, name, at, n) /\ HasCopy(L, name, b1, n)
             /\ HasCopy(L, name, b2, n) /\ HasCopy(L, name, b3, n)
  OBVIOUS
<1>9. /\ Fills(p, e, A, at, b1) /\ HasCopy(A, name, at, n)
      /\ Fills(p, e, B, b1, b2) /\ HasCopy(B, name, b1, n)
      /\ Fills(p, e, D, b2, b3) /\ HasCopy(D, name, b2, n)
      /\ Fills(p, e, E, b3, b4) /\ HasCopy(E, name, b3, n)
  BY <1>2, <1>3, <1>4, <1>5
<1> HIDE DEF a, C, A, B, D, E, L, b1, b2, b3, b4
<1>10. Fills(p, e, C \o A, at, b1)
  BY <1>6, <1>8, <1>9, FillsJoin
<1>11. Fills(p, e, C \o A \o B, at, b2)
  BY <1>8, <1>9, <1>10, FillsJoin
<1>12. Fills(p, e, C \o A \o B \o D, at, b3)
  BY <1>8, <1>9, <1>11, FillsJoin
<1>13. Fills(p, e, C \o A \o B \o D \o E, at, b4)
  BY <1>8, <1>9, <1>12, FillsJoin
<1>14. /\ C \in Seq(AnyStep) /\ A \in Seq(AnyStep) /\ B \in Seq(AnyStep) /\ D \in Seq(AnyStep) /\ E \in Seq(AnyStep)
       /\ C \o A \in Seq(AnyStep) /\ C \o A \o B \in Seq(AnyStep) /\ C \o A \o B \o D \in Seq(AnyStep)
  BY <1>6, <1>9, <1>10, <1>11, <1>12 DEF Fills
<1>15. HasCopy(C \o A \o B \o D, name, at, n) /\ HasCopy(C \o A \o B \o D, name, b1, n) /\ HasCopy(C \o A \o B \o D, name, b2, n)
  <2>1. HasCopy(C \o A, name, at, n)
    BY <1>9, <1>14, MoreIs
  <2>2. HasCopy(C \o A \o B, name, at, n) /\ HasCopy(C \o A \o B, name, b1, n)
    BY <1>9, <1>14, <2>1, MoreIs
  <2>3. QED BY <1>9, <1>14, <2>2, MoreIs
<1>16. QED BY <1>7, <1>9, <1>13, <1>14, <1>15, MoreIs

\* One section on a flash that needs no erasing, or has been erased.
LEMMA SectionFills ==
  ASSUME NEW p \in Packages, NEW e, NEW name \in Names, NEW at \in Nat, NEW n \in 0..FlashSize,
         p.flash = "emmc" \/ (e.op = "erase" /\ e.at <= at /\ at + n <= e.at + e.n)
  PROVE  LET L == Section(name, at, n) IN Fills(p, e, L, at, at + n) /\ HasCopy(L, name, at, n)
<1> DEFINE a == Call(-1)
           c == Copy(name, at, n, "checked")
           v == Verify(name, at, n)
           L == Section(name, at, n)
<1>1. a \in AnyStep /\ c \in AnyStep /\ v \in AnyStep
  BY AnyAre
<1>2. /\ a.op = "call" /\ v.op = "verify"
      /\ c.op = "copy" /\ c.name = name /\ c.at = at /\ c.n = n /\ c.mode = "checked"
  BY DEF Call, Copy, Verify
<1>3. L = <<a, c, v>>
  BY DEF Section
<1> SUFFICES Fills(p, e, L, at, at + n) /\ HasCopy(L, name, at, n)
  OBVIOUS
<1> HIDE DEF a, c, v, L
<1>4. L \in Seq(AnyStep) /\ Range(L) = {a, c, v}
  BY <1>1, <1>3, SeqsAre, RangesAre
<1>5. p.flash = "emmc" \/ Covers(e, c)
  BY <1>2 DEF Covers
<1>6. Sound(p, e, L)
  <2>1. DOMAIN L = 1..3 /\ L[1] = a /\ L[2] = c /\ L[3] = v
    BY <1>3
  <2>2. \A j \in 1..3 : L[j].op = "copy" => j = 2
    BY <1>2, <2>1
  <2>3. \A k \in 1..3 : 2 < k => k = 3
    OBVIOUS
  <2>4. ~Writing(v)
    BY <1>2 DEF Writing
  <2>5. QED BY <1>2, <1>5, <2>1, <2>2, <2>3, <2>4 DEF Sound
<1>7. \A s \in Range(L) : Writing(s) => at <= s.at /\ s.at + s.n <= at + n
  <2>1. at + n \in Nat /\ at <= at /\ at + n <= at + n
    BY PackageIs
  <2>2. QED BY <1>2, <1>4, <2>1 DEF Writing
<1>8. HasCopy(L, name, at, n)
  BY <1>2, <1>4 DEF HasCopy
<1>9. QED BY <1>4, <1>6, <1>7, <1>8 DEF Fills

\* The copies that make a whole boot code.
BootCopies(p, L) ==
  LET hw == p.boot.hw
      n  == p.boot.boot
  IN CASE p.flash = "nand" -> \A c \in {0, 1, 2, 3} :
                                /\ HasCopy(L, Part("hw"), 1 + c * hw, hw)
                                /\ HasCopy(L, Part("boot"), 1 + 4 * hw + c * n, n)
       [] p.flash = "emmc" -> HasCopy(L, Part("hw"), 1, hw) /\ HasCopy(L, Part("boot"), 1 + hw, n)
       [] p.flash = "nor"  -> /\ p.big \/ HasCopy(L, Part("reset"), 0, 1)
                              /\ HasCopy(L, Part("hw"), 1, hw) /\ HasCopy(L, Part("boot"), 1 + hw, n)
                              /\ p.protect /\ p.boot.rescue # 0 => HasCopy(L, Part("rescue"), 1 + hw + n, p.boot.rescue)

LEMMA NandList ==
  ASSUME NEW p \in Packages, NEW e, p.flash = "nand"
  PROVE  Sound(p, e, BurnBoot(p)) /\ BootCopies(p, BurnBoot(p))
<1> DEFINE hw == p.boot.hw
           n  == p.boot.boot
           C  == <<Call(-1), Tools(-1)>>
           A  == BootPart(p, Part("hw"), HwStart, hw)
           B  == BootPart(p, Part("boot"), HwStart + Copies * hw, n)
           L  == BurnBoot(p)
           b  == 1 + 4 * hw
<1>1. hw \in Nat /\ n \in Nat /\ hw \in 0..FlashSize /\ n \in 0..FlashSize /\ HwStart = 1 /\ Copies = 4
  BY PackageIs DEF HwStart, Copies
<1>2. /\ Fills(p, e, A, 1, b)
      /\ HasCopy(A, Part("hw"), 1, hw) /\ HasCopy(A, Part("hw"), 1 + hw, hw)
      /\ HasCopy(A, Part("hw"), 1 + 2 * hw, hw) /\ HasCopy(A, Part("hw"), 1 + 3 * hw, hw)
  BY <1>1, PartFills, NamesAre
<1>3. b \in Nat /\ HwStart + Copies * hw = b /\ b + 4 * n \in Nat /\ 1 <= b /\ b <= b + 4 * n
  BY <1>1
<1>4. /\ Fills(p, e, B, b, b + 4 * n)
      /\ HasCopy(B, Part("boot"), b, n) /\ HasCopy(B, Part("boot"), b + n, n)
      /\ HasCopy(B, Part("boot"), b + 2 * n, n) /\ HasCopy(B, Part("boot"), b + 3 * n, n)
  <2> HIDE DEF b, n
  <2>1. QED BY <1>1, <1>3, PartFills, NamesAre
<1>5. Fills(p, e, C, 1, 1)
  <2> DEFINE x == Call(-1)
             y == Tools(-1)
  <2>1. x \in AnyStep /\ x.op = "call" /\ y \in AnyStep /\ y.op = "tools"
    BY AnyAre, Kinds1
  <2> HIDE DEF x, y
  <2>2. <<x, y>> \in Seq(AnyStep) /\ Range(<<x, y>>) = {x, y}
    BY <2>1, SeqsAre, RangesAre
  <2>3. \A s \in Range(<<x, y>>) : ~Writing(s)
    BY <2>1, <2>2 DEF Writing
  <2>4. Fills(p, e, <<x, y>>, 1, 1)
    BY <2>2, <2>3, FillsNothing
  <2>5. QED BY <2>4 DEF x, y
<1>6. L = C \o A \o B
  BY DEF BurnBoot, BootNand
<1> SUFFICES Sound(p, e, L) /\ BootCopies(p, L)
  OBVIOUS
<1> HIDE DEF L, A, B, C
<1>8. Fills(p, e, C \o A, 1, b)
  BY <1>2, <1>3, <1>5, FillsJoin
<1>9. Fills(p, e, L, 1, b + 4 * n)
  BY <1>3, <1>4, <1>6, <1>8, FillsJoin
<1>10. C \in Seq(AnyStep) /\ A \in Seq(AnyStep) /\ B \in Seq(AnyStep) /\ C \o A \in Seq(AnyStep)
  BY <1>2, <1>4, <1>5, <1>8 DEF Fills
<1>11. \A name, at, k : HasCopy(A, name, at, k) \/ HasCopy(B, name, at, k) => HasCopy(L, name, at, k)
  BY <1>6, <1>10, MoreIs
<1>12. \A c \in {0, 1, 2, 3} : HasCopy(L, Part("hw"), 1 + c * hw, hw)
  <2>1. 1 + 0 * hw = 1 /\ 1 + 1 * hw = 1 + hw
    BY <1>1
  <2>2. HasCopy(L, Part("hw"), 1 + 0 * hw, hw) /\ HasCopy(L, Part("hw"), 1 + 1 * hw, hw)
    BY <1>2, <1>11, <2>1
  <2>3. HasCopy(L, Part("hw"), 1 + 2 * hw, hw) /\ HasCopy(L, Part("hw"), 1 + 3 * hw, hw)
    BY <1>2, <1>11
  <2>4. QED BY <2>2, <2>3
<1>13. \A c \in {0, 1, 2, 3} : HasCopy(L, Part("boot"), b + c * n, n)
  <2> HIDE DEF b
  <2>1. b + 0 * n = b /\ b + 1 * n = b + n
    BY <1>1, <1>3
  <2>2. HasCopy(L, Part("boot"), b + 0 * n, n) /\ HasCopy(L, Part("boot"), b + 1 * n, n)
    BY <1>4, <1>11, <2>1
  <2>3. HasCopy(L, Part("boot"), b + 2 * n, n) /\ HasCopy(L, Part("boot"), b + 3 * n, n)
    BY <1>4, <1>11
  <2>4. QED BY <2>2, <2>3
<1>14. BootCopies(p, L)
  BY <1>12, <1>13 DEF BootCopies
<1>15. QED BY <1>9, <1>14 DEF Fills

LEMMA EmmcList ==
  ASSUME NEW p \in Packages, NEW e, p.flash = "emmc"
  PROVE  Sound(p, e, BurnBoot(p)) /\ BootCopies(p, BurnBoot(p))
<1> DEFINE hw == p.boot.hw
           n  == p.boot.boot
           C  == <<Call(-1)>>
           A  == Section(Part("hw"), HwStart, hw)
           B  == Section(Part("boot"), HwStart + hw, n)
           L  == BurnBoot(p)
           b  == 1 + hw
<1>1. hw \in Nat /\ n \in Nat /\ hw \in 0..FlashSize /\ n \in 0..FlashSize /\ HwStart = 1
  BY PackageIs DEF HwStart
<1>2. b \in Nat /\ b + n \in Nat /\ 1 <= b /\ b <= b + n /\ HwStart + hw = b
  BY <1>1
<1>3. Fills(p, e, A, 1, b) /\ HasCopy(A, Part("hw"), 1, hw)
  BY <1>1, SectionFills, NamesAre
<1>4. Fills(p, e, B, b, b + n) /\ HasCopy(B, Part("boot"), b, n)
  <2> HIDE DEF b, n
  <2>1. QED BY <1>1, <1>2, SectionFills, NamesAre
<1>5. Fills(p, e, C, 1, 1)
  <2> DEFINE x == Call(-1)
  <2>1. x \in AnyStep /\ x.op = "call"
    BY AnyAre, Kinds1
  <2> HIDE DEF x
  <2>2. <<x>> \in Seq(AnyStep) /\ Range(<<x>>) = {x}
    BY <2>1, Single
  <2>3. Fills(p, e, <<x>>, 1, 1)
    BY <2>1, <2>2, FillsNothing DEF Writing
  <2>4. QED BY <2>3 DEF x
<1>6. L = C \o A \o B
  BY DEF BurnBoot, BootEmmc
<1> SUFFICES Sound(p, e, L) /\ BootCopies(p, L)
  OBVIOUS
<1> HIDE DEF L, A, B, C
<1>7. Fills(p, e, C \o A, 1, b)
  BY <1>2, <1>3, <1>5, FillsJoin
<1>8. Fills(p, e, L, 1, b + n)
  BY <1>2, <1>4, <1>6, <1>7, FillsJoin
<1>9. C \in Seq(AnyStep) /\ A \in Seq(AnyStep) /\ B \in Seq(AnyStep) /\ C \o A \in Seq(AnyStep)
  BY <1>3, <1>4, <1>5, <1>7 DEF Fills
<1>10. HasCopy(L, Part("hw"), 1, hw) /\ HasCopy(L, Part("boot"), b, n)
  BY <1>3, <1>4, <1>6, <1>9, MoreIs
<1>11. BootCopies(p, L)
  BY <1>10 DEF BootCopies
<1>12. QED BY <1>8, <1>11 DEF Fills

LEMMA NorList ==
  ASSUME NEW p \in Packages, NEW e, p.flash = "nor", p.with_boot
  PROVE  Sound(p, e, BurnBoot(p)) /\ BootCopies(p, BurnBoot(p))
<1> DEFINE hw   == p.boot.hw
           n    == p.boot.boot
           room == p.boot.room
           from == IF p.big THEN HwStart ELSE 0
           a    == Call(-1)
           x    == Erase(from, room - from)
           C    == <<a, x>>
           R    == IF p.big THEN <<>> ELSE Section(Part("reset"), 0, 1)
           A    == Section(Part("hw"), HwStart, hw)
           B    == Section(Part("boot"), HwStart + hw, n)
           S    == NorRescue(p)
           L    == BurnBoot(p)
           b    == 1 + hw
           d    == 1 + hw + n
<1>1. /\ hw \in Nat /\ n \in Nat /\ hw \in 0..FlashSize /\ n \in 0..FlashSize /\ HwStart = 1
      /\ room \in 1..FlashSize /\ p.boot.rescue \in 0..FlashSize /\ FlashSize \in Nat \ {0}
  BY PackageIs DEF HwStart
<1>2. d <= room /\ (p.protect => d + p.boot.rescue <= room)
  BY BootEndIs
<1>3. /\ b \in Nat /\ d \in Nat /\ b + n = d /\ 1 <= b /\ b <= d /\ HwStart + hw = b /\ HwStart + hw + n = d
      /\ room \in Nat /\ b <= room /\ 1 <= room
  BY <1>1, <1>2
<1>4. /\ from \in {0, 1} /\ (~p.big => from = 0) /\ from \in Nat /\ room - from \in 0..FlashSize
  BY <1>1
<1>5. x \in AnyStep /\ x.op = "erase" /\ x.at = from /\ x.n = room - from
  BY <1>4, AnyAre DEF Erase
<1>6. \A at, k \in Nat : from <= at /\ at + k <= room => x.at <= at /\ at + k <= x.at + x.n
  BY <1>1, <1>4, <1>5
<1>7. Fills(p, x, A, 1, b) /\ HasCopy(A, Part("hw"), 1, hw)
  <2>1. x.at <= 1 /\ 1 + hw <= x.at + x.n
    BY <1>1, <1>3, <1>4, <1>6
  <2> HIDE DEF x
  <2>2. QED BY <1>1, <1>5, <2>1, SectionFills, NamesAre
<1>8. Fills(p, x, B, b, d) /\ HasCopy(B, Part("boot"), b, n)
  <2>1. from <= b
    BY <1>3, <1>4
  <2> HIDE DEF x, b, d, from
  <2>2. x.at <= b /\ b + n <= x.at + x.n
    BY <1>1, <1>2, <1>3, <1>6, <2>1
  <2>3. Fills(p, x, Section(Part("boot"), b, n), b, b + n) /\ HasCopy(Section(Part("boot"), b, n), Part("boot"), b, n)
    BY <1>1, <1>3, <1>5, <2>2, SectionFills, NamesAre
  <2>4. QED BY <1>3, <2>3
<1>9. Fills(p, x, R, 0, 1) /\ (~p.big => HasCopy(R, Part("reset"), 0, 1))
  <2>1. CASE p.big
    <3>1. R = <<>> /\ <<>> \in Seq(AnyStep) /\ Range(<<>>) = {}
      BY <2>1, RangesAre, SeqsAre
    <3> HIDE DEF R
    <3>2. QED BY <2>1, <3>1, FillsNothing
  <2>2. CASE ~p.big
    <3>1. x.at <= 0 /\ 0 + 1 <= x.at + x.n /\ 1 \in 0..FlashSize
      BY <1>1, <1>3, <1>4, <1>6, <2>2
    <3>2. R = Section(Part("reset"), 0, 1)
      BY <2>2
    <3> HIDE DEF x, R
    <3>3. Fills(p, x, R, 0, 0 + 1) /\ HasCopy(R, Part("reset"), 0, 1)
      BY <1>5, <3>1, <3>2, SectionFills, NamesAre
    <3>4. QED BY <3>3
  <2>3. QED BY <2>1, <2>2
<1>10. Fills(p, x, S, d, room) /\ (p.protect /\ p.boot.rescue # 0 => HasCopy(S, Part("rescue"), d, p.boot.rescue))
  <2>1. CASE ~p.protect \/ p.boot.rescue = 0
    <3>1. S = <<>> /\ <<>> \in Seq(AnyStep) /\ Range(<<>>) = {}
      BY <2>1, RangesAre, SeqsAre DEF NorRescue
    <3> HIDE DEF S, d, room
    <3>2. QED BY <1>3, <2>1, <3>1, FillsNothing
  <2>2. CASE ~(~p.protect \/ p.boot.rescue = 0)
    <3> DEFINE k == p.boot.rescue
    <3>1. from <= d
      BY <1>3, <1>4
    <3> HIDE DEF x, d, from, room
    <3>2. S = Section(Part("rescue"), d, k)
      BY <1>3, <2>2 DEF NorRescue
    <3>3. k \in 0..FlashSize /\ d + k <= room /\ k \in Nat
      BY <1>1, <1>2, <2>2
    <3> HIDE DEF k
    <3>4. x.at <= d /\ d + k <= x.at + x.n
      BY <1>3, <1>6, <3>1, <3>3
    <3> HIDE DEF S
    <3>5. Fills(p, x, S, d, d + k) /\ HasCopy(S, Part("rescue"), d, k)
      BY <1>3, <1>5, <3>2, <3>3, <3>4, SectionFills, NamesAre
    <3>6. Fills(p, x, S, d, room)
      <4>1. ASSUME NEW s \in Range(S), Writing(s)
            PROVE  s.at + s.n <= room
        <5>1. S \in Seq(AnyStep) /\ s.at + s.n <= d + k
          BY <3>5, <4>1 DEF Fills
        <5>2. s \in AnyStep /\ s.op \in {"erase", "copy"}
          BY <4>1, <5>1 DEF Range, Writing
        <5>3. s.at \in Nat /\ s.n \in Nat
          BY <1>1, <5>2 DEF AnyStep
        <5>4. QED BY <1>3, <3>3, <5>1, <5>3
      <4>2. QED BY <3>5, <4>1 DEF Fills
    <3>7. QED BY <3>5, <3>6 DEF k
  <2>3. QED BY <2>1, <2>2
<1>11. C \in Seq(AnyStep) /\ NoCopies(C) /\ x \in Range(C)
  <2>1. a \in AnyStep /\ a.op = "call"
    BY AnyAre, Kinds1
  <2> HIDE DEF a, x
  <2>2. C \in Seq(AnyStep) /\ Range(C) = {a, x}
    BY <1>5, <2>1, SeqsAre, RangesAre
  <2>3. QED BY <1>5, <2>1, <2>2 DEF NoCopies
<1>12. L = C \o R \o A \o B \o S
  BY DEF BurnBoot, BootNor
<1> SUFFICES Sound(p, e, L) /\ BootCopies(p, L)
  OBVIOUS
<1> HIDE DEF L, A, B, C, R, S, x, a
<1>13. Fills(p, x, R \o A, 0, b)
  <2> HIDE DEF b
  <2>1. 0 \in Nat /\ 1 \in Nat /\ 0 <= 1
    OBVIOUS
  <2>2. QED BY <1>3, <1>7, <1>9, <2>1, FillsJoin
<1>14. Fills(p, x, R \o A \o B, 0, d)
  <2>1. 0 \in Nat /\ 0 <= b
    BY <1>3
  <2> HIDE DEF b, d
  <2>2. QED BY <1>3, <1>8, <1>13, <2>1, FillsJoin
<1>15. Fills(p, x, R \o A \o B \o S, 0, room)
  <2>1. 0 \in Nat /\ 0 <= d
    BY <1>3
  <2> HIDE DEF d, room
  <2>2. QED BY <1>2, <1>3, <1>10, <1>14, <2>1, FillsJoin
<1> DEFINE T == R \o A \o B \o S
<1>16. /\ R \in Seq(AnyStep) /\ A \in Seq(AnyStep) /\ B \in Seq(AnyStep) /\ S \in Seq(AnyStep)
       /\ R \o A \in Seq(AnyStep) /\ R \o A \o B \in Seq(AnyStep) /\ T \in Seq(AnyStep) /\ Sound(p, x, T)
  BY <1>7, <1>8, <1>9, <1>10, <1>13, <1>14, <1>15 DEF Fills
<1>17. L = C \o T
  <2> DEFINE RA  == R \o A
             RAB == RA \o B
  <2>1. C \o R \o A = C \o RA
    BY <1>11, <1>16, ConcatAssociative, SMTT(20)
  <2>2. RA \in Seq(AnyStep) /\ RAB \in Seq(AnyStep)
    BY <1>16
  <2> HIDE DEF RA
  <2>3. C \in Seq(AnyStep) /\ B \in Seq(AnyStep) /\ RA \in Seq(AnyStep)
    BY <1>11, <1>16, <2>2
  <2>4. C \o RA \o B = C \o RAB
    BY <2>3, ConcatAssociative
  <2> HIDE DEF RAB
  <2>5. C \in Seq(AnyStep) /\ RAB \in Seq(AnyStep) /\ S \in Seq(AnyStep)
    BY <1>11, <1>16, <2>2
  <2>6. C \o RAB \o S = C \o (RAB \o S)
    BY <2>5, ConcatAssociative
  <2>7. QED BY <1>12, <2>1, <2>4, <2>6 DEF RA, RAB
<1>18. \A name, at, k : HasCopy(R, name, at, k) \/ HasCopy(A, name, at, k) \/ HasCopy(B, name, at, k) \/ HasCopy(S, name, at, k)
                          => HasCopy(T, name, at, k)
  BY <1>16, MoreIs
<1> HIDE DEF T
<1>19. Sound(p, e, L)
  <2>1. Sound(p, e, C)
    BY <1>11, SoundPlain
  <2>2. \A s \in Range(C) : s.op # "copy"
    BY <1>11 DEF NoCopies
  <2>3. QED BY <1>11, <1>16, <1>17, <2>1, <2>2, SoundJoin
<1>20. \A name, at, k : HasCopy(T, name, at, k) => HasCopy(L, name, at, k)
  BY <1>11, <1>16, <1>17, MoreIs
<1>21. /\ p.big \/ HasCopy(L, Part("reset"), 0, 1)
       /\ HasCopy(L, Part("hw"), 1, hw) /\ HasCopy(L, Part("boot"), b, n)
       /\ p.protect /\ p.boot.rescue # 0 => HasCopy(L, Part("rescue"), d, p.boot.rescue)
  BY <1>7, <1>8, <1>9, <1>10, <1>18, <1>20
<1>22. BootCopies(p, L)
  BY <1>21 DEF BootCopies
<1>23. QED BY <1>19, <1>22

LEMMA BootLists ==
  ASSUME NEW p \in Packages, NEW e, p.with_boot
  PROVE  Sound(p, e, BurnBoot(p)) /\ BootCopies(p, BurnBoot(p))
BY NandList, EmmcList, NorList, PackageIs

\* What a burn copies, it does not overwrite itself.
LEMMA ListsSound ==
  ASSUME NEW p \in Packages, NEW i, Burnable(p, i), Fits(p), NEW e
  PROVE  Sound(p, e, Steps(p, i))
<1>1. CASE i = 0
  BY <1>1, BootLists DEF Steps, Burnable
<1>2. CASE i # 0
  <2>1. i \in 1..Len(p.images)
    BY <1>2, PackageIs DEF Burnable
  <2>2. ~Overruns(p, p.images[i])
    BY <2>1 DEF Fits
  <2>3. QED BY <1>2, <2>1, <2>2, ImageLists DEF Steps
<1>3. QED BY <1>1, <1>2

-----------------------------------------------------------------------------
(* The steps of the machine, by what they do to the burn that goes on.       *)

\* The run ends.
Stops == now # -1 /\ now' = -1 /\ UNCHANGED <<pkg, run, burned, lapses>>

\* It is reported as burned, with its reason.
Passes ==
  /\ now # -1 /\ Returns(0) /\ burned' = burned \cup {now} /\ UNCHANGED <<pkg, run, flash>>
  /\ \/ todo = <<>> /\ lapses' = lapses
     \/ now # 0 /\ MayEnd(pkg.images[now], "return") /\ lapses' = lapses
     \/ now # 0 /\ MayEnd(pkg.images[now], "tools") /\ lapses' = lapses \cup {now}

\* The first of its steps is over, or has ended early unnoticed.
Shifts ==
  /\ now # -1 /\ todo # <<>> /\ Next1 /\ UNCHANGED <<pkg, run, now, flash, burned>>
  /\ \/ todo[1].op \in {"call", "tools"} /\ lapses' = lapses
     \/ todo[1].op \in {"erase", "copy"} /\ done = todo[1].n /\ lapses' = lapses
     \/ /\ todo[1].op = "copy" /\ todo[1].mode \in {"pipe", "fs"}
        /\ now # 0 /\ MayLapse(pkg, pkg.images[now], todo[1].mode) /\ lapses' = lapses \cup {now}
     \/ todo[1].op = "verify" /\ SumsAgree(todo[1].name, todo[1].at, todo[1].n) /\ lapses' = lapses

LEMMA StepIs ==
  ASSUME Typed, Next
  PROVE  (\E p \in Packages : Start(p)) \/ Stops \/ Passes \/ Shifts \/ EraseBlock \/ CopyBlock
<1>1. CASE Finish
  BY <1>1 DEF Finish, Passes
<1>2. CASE ReturnNow
  <2>1. Op("return")
    BY <1>2 DEF ReturnNow
  <2>2. /\ now # -1 /\ todo # <<>> /\ todo[1].op = "return" /\ todo[1].ret \in {-1, 0}
    BY <2>1, OpIs
  <2>3. todo[1].ret = -1 \/ (now # 0 /\ MayEnd(pkg.images[now], "return"))
    BY <2>2, HeadIs DEF Allowed
  <2>4. CASE todo[1].ret = -1
    BY <1>2, <2>2, <2>4 DEF ReturnNow, Returns, Stops
  <2>5. CASE todo[1].ret = 0
    BY <1>2, <2>2, <2>3, <2>5 DEF ReturnNow, Passes
  <2>6. QED BY <2>2, <2>4, <2>5
<1>3. CASE CallSucceeds \/ ToolsThere \/ BlocksDone
  BY <1>3 DEF CallSucceeds, ToolsThere, BlocksDone, Op, Shifts
<1>4. CASE Fails
  <2>1. PICK o \in {"call", "tools"} : Op(o)
    BY <1>4 DEF Fails
  <2>2. /\ now # -1 /\ todo # <<>> /\ todo[1].op = o /\ todo[1].ret \in {-1, 0}
    BY <2>1, OpIs
  <2>3. todo[1].ret = -1 \/ (now # 0 /\ MayEnd(pkg.images[now], o))
    BY <2>2, HeadIs DEF Allowed
  <2>4. CASE todo[1].ret = -1
    BY <1>4, <2>2, <2>4 DEF Fails, Returns, Stops
  <2>5. CASE todo[1].ret = 0
    <3>1. now # 0 /\ MayEnd(pkg.images[now], "tools")
      BY <2>3, <2>5 DEF MayEnd
    <3>2. QED BY <1>4, <2>2, <2>5, <3>1 DEF Fails, Lapse, Passes
  <2>6. QED BY <2>2, <2>4, <2>5
<1>5. CASE BlockFails
  BY <1>5 DEF BlockFails, Op, Returns, Stops
<1>6. CASE EndsShort
  <2>1. Op("copy") /\ todo[1].mode # "checked"
    BY <1>6 DEF EndsShort
  <2>2. /\ now # -1 /\ todo # <<>> /\ todo[1].op = "copy"
        /\ todo[1].mode \in {"checked", "pipe", "fs"}
    BY <2>1, OpIs
  <2>3. now # 0 /\ MayLapse(pkg, pkg.images[now], todo[1].mode)
    BY <2>1, <2>2, HeadIs DEF Allowed
  <2>4. QED BY <1>6, <2>1, <2>2, <2>3 DEF EndsShort, Lapse, Shifts
<1>7. CASE Verified
  <2>1. now # -1 /\ todo # <<>> /\ todo[1].op = "verify"
    BY <1>7 DEF Verified, Op
  <2>2. CASE SumsAgree(todo[1].name, todo[1].at, todo[1].n)
    BY <1>7, <2>1, <2>2 DEF Verified, Shifts
  <2>3. CASE ~SumsAgree(todo[1].name, todo[1].at, todo[1].n)
    BY <1>7, <2>1, <2>3 DEF Verified, Returns, Stops
  <2>4. QED BY <2>2, <2>3
<1>8. CASE VerifyFails
  BY <1>8 DEF VerifyFails, Op, Returns, Stops
<1>9. CASE PowerCut
  BY <1>9 DEF PowerCut, Stops
<1>10. QED BY <1>1, <1>2, <1>3, <1>4, <1>5, <1>6, <1>7, <1>8, <1>9 DEF Next

\* What a block becomes.
LEMMA NewBlock ==
  ASSUME Typed, Next, NEW b \in Blocks, flash'[b] # flash[b]
  PROVE  /\ run' = run /\ pkg' = pkg
         /\ \/ flash'[b] \in {Erased, Torn}
            \/ todo[1].op = "copy" /\ flash'[b] = Cell(todo[1].name, done, todo[1].n, run)
<1>1. DOMAIN flash = Blocks /\ flash' # flash
  BY DEF Typed, TypeOK
<1>2. EraseBlock \/ CopyBlock \/ PowerCut
  BY <1>1 DEF Next, Start, Finish, ReturnNow, CallSucceeds, ToolsThere, Fails, BlocksDone, BlockFails,
              EndsShort, Verified, VerifyFails
<1>3. CASE EraseBlock
  BY <1>1, <1>3 DEF EraseBlock
<1>4. CASE CopyBlock
  <2> DEFINE c == todo[1].at + done
             x == IF pkg.flash = "emmc" \/ flash[c] = Erased THEN Cell(todo[1].name, done, todo[1].n, run) ELSE Torn
  <2>1. flash' = [flash EXCEPT ![c] = x] /\ todo[1].op = "copy" /\ run' = run /\ pkg' = pkg
    BY <1>4 DEF CopyBlock, Op
  <2>2. x = Torn \/ x = Cell(todo[1].name, done, todo[1].n, run)
    OBVIOUS
  <2> HIDE DEF c, x
  <2>3. flash'[b] = x
    BY <1>1, <2>1
  <2>4. QED BY <2>1, <2>2, <2>3
<1>5. CASE PowerCut
  BY <1>1, <1>5 DEF PowerCut
<1>6. QED BY <1>2, <1>3, <1>4, <1>5

LEMMA CellIs ==
  /\ \A name, k, n, gen : Cell(name, k, n, gen)[1] = name /\ Cell(name, k, n, gen)[2] = k /\ Cell(name, k, n, gen)[4] = gen
  /\ Erased[4] = 0 /\ Torn[4] = 0
  /\ \A i \in Nat : Name(i) # Erased[1] /\ Name(i) # Torn[1] /\ Name(i) \notin Parts
  /\ \A i, j \in Nat : Name(i) = Name(j) => i = j
<1>1. \A name, k, n, gen : Cell(name, k, n, gen)[1] = name /\ Cell(name, k, n, gen)[2] = k /\ Cell(name, k, n, gen)[4] = gen
  BY DEF Cell
<1>2. Erased[4] = 0 /\ Torn[4] = 0 /\ Erased[1] = Part("erased") /\ Torn[1] = Part("torn")
  BY DEF Erased, Torn, Cell
<1>3. \A i \in Nat : Name(i)[1] = "img" /\ Name(i)[2] = i
  BY DEF Name
<1>4. \A x : Part(x)[1] = x
  BY DEF Part
<1>5. \A i \in Nat : Name(i) # Erased[1] /\ Name(i) # Torn[1]
  BY <1>2, <1>3, <1>4
<1>6. \A i \in Nat : Name(i) \notin Parts
  BY <1>3, <1>4 DEF Parts
<1>7. \A i, j \in Nat : Name(i) = Name(j) => i = j
  BY <1>3
<1>8. QED BY <1>1, <1>2, <1>5, <1>6, <1>7

LEMMA DatedInit == Init => Dated
<1> SUFFICES ASSUME Init, NEW b \in Blocks PROVE flash[b][4] \in 0..run
  BY DEF Dated
<1>1. flash = Factory(pkg) /\ run = 0
  BY DEF Init
<1>2. \E name, k, n : Factory(pkg)[b] = Cell(name, k, n, 0)
  BY DEF Factory
<1>3. QED BY <1>1, <1>2, CellIs

LEMMA DatedNext == Typed /\ Dated /\ [Next]_vars => Dated'
<1> SUFFICES ASSUME Typed, Dated, [Next]_vars, NEW b \in Blocks PROVE flash'[b][4] \in 0..run'
  BY DEF Dated, Blocks
<1>1. flash[b][4] \in 0..run /\ run \in Nat
  BY BurnAssumption DEF Dated, Typed, TypeOK
<1>2. CASE Next
  <2>1. run' = run \/ run' = run + 1
    BY <1>2 DEF Next, Start, Finish, ReturnNow, CallSucceeds, ToolsThere, Fails, EraseBlock, CopyBlock, BlocksDone,
                BlockFails, EndsShort, Verified, VerifyFails, PowerCut
  <2>2. CASE flash'[b] = flash[b]
    BY <1>1, <2>1, <2>2
  <2>3. CASE flash'[b] # flash[b]
    <3>1. run' = run /\ flash'[b][4] \in {0, run}
      BY <1>2, <2>3, NewBlock, CellIs
    <3>2. QED BY <1>1, <3>1
  <2>4. QED BY <2>2, <2>3
<1>3. CASE UNCHANGED vars
  BY <1>1, <1>3 DEF vars
<1>4. QED BY <1>2, <1>3

LEMMA BegunInit == Init => Begun
BY DEF Init, Begun

LEMMA BegunNext == Typed /\ Begun /\ [Next]_vars => Begun'
<1> SUFFICES ASSUME Typed, Begun, [Next]_vars PROVE Begun'
  OBVIOUS
<1>1. now \in Int /\ lapses \subseteq Int /\ now # -1 => now \in Int
  BY PackageIs DEF Typed, TypeOK
<1>2. CASE UNCHANGED vars
  BY <1>2 DEF vars, Begun
<1>3. ASSUME pkg' = pkg, now # -1, now' \in {-1, now, now + 1}, lapses' \subseteq lapses \cup {now},
             \/ lapses' = lapses
             \/ /\ now # 0
                /\ MayEnd(pkg.images[now], "tools") \/ (\E mode \in {"pipe", "fs"} : MayLapse(pkg, pkg.images[now], mode))
      PROVE  Begun'
  <2>1. ASSUME NEW i \in lapses'
        PROVE  /\ i # 0 /\ (now' = -1 \/ i <= now')
               /\ MayEnd(pkg.images[i], "tools") \/ (\E mode \in {"pipe", "fs"} : MayLapse(pkg, pkg.images[i], mode))
    <3>1. CASE i \in lapses
      <4>1. i <= now /\ i \in Int /\ now \in Int
        BY <1>3, <3>1 DEF Begun, Typed, TypeOK
      <4>2. now' = -1 \/ i <= now'
        BY <1>3, <4>1
      <4>3. QED BY <3>1, <4>2 DEF Begun
    <3>2. CASE i \notin lapses
      <4>1. i = now /\ now \in Int
        BY <1>3, <2>1, <3>2 DEF Typed, TypeOK
      <4>2. now' = -1 \/ i <= now'
        BY <1>3, <4>1
      <4>3. QED BY <1>3, <2>1, <3>2, <4>1, <4>2
    <3>3. QED BY <3>1, <3>2
  <2>2. QED BY <1>3, <2>1 DEF Begun
<1>4. CASE Next
  <2>1. CASE \E p \in Packages : Start(p)
    BY <2>1 DEF Start, Begun
  <2>2. CASE Stops
    BY <1>3, <2>2 DEF Stops
  <2>3. CASE Passes
    <3>1. now' \in {-1, now, now + 1}
      BY <2>3 DEF Passes, Returns
    <3>2. QED BY <1>3, <2>3, <3>1 DEF Passes
  <2>4. CASE Shifts
    BY <1>3, <2>4 DEF Shifts
  <2>5. CASE EraseBlock
    BY <1>3, <2>5 DEF EraseBlock, Op
  <2>6. CASE CopyBlock
    BY <1>3, <2>6 DEF CopyBlock, Op
  <2>7. QED BY <1>4, <2>1, <2>2, <2>3, <2>4, <2>5, <2>6, StepIs
<1>5. QED BY <1>2, <1>4

-----------------------------------------------------------------------------
(* A package that fits.                                                      *)

\* No block belongs to two of its burns.
LEMMA Disjoint ==
  ASSUME NEW p \in Packages, NEW i, NEW j, Burnable(p, i), Burnable(p, j), i # j, NEW b \in Int,
         First(p, i) <= b, b < Behind(p, i), First(p, j) <= b, b < Behind(p, j)
  PROVE  FALSE
<1>1. i \in 0..Len(p.images) /\ j \in 0..Len(p.images) /\ Len(p.images) \in Nat
  BY PackageIs DEF Burnable
<1>2. ASSUME NEW k \in 1..Len(p.images), First(p, k) <= b, b < Behind(p, k)
      PROVE  b \in Area(p.images[k].at, p.images[k].alloc) /\ p.boot.room <= b
  <2>1. k # 0 /\ p.images[k].at \in Nat /\ p.images[k].alloc \in Nat /\ p.boot.reserved <= p.images[k].at
    BY <1>1, ImageIs, PackageIs
  <2>2. p.images[k].at <= b /\ b < p.images[k].at + p.images[k].alloc
    BY <1>2, <2>1 DEF First, Behind
  <2>3. p.boot.room <= p.boot.reserved /\ p.boot.room \in Nat /\ p.boot.reserved \in Nat
    BY PackageIs DEF LaidOut
  <2>4. p.boot.room <= b
    BY <2>1, <2>2, <2>3
  <2>5. QED BY <2>1, <2>2, <2>4 DEF Area
<1>3. CASE i = 0
  <2>1. j \in 1..Len(p.images) /\ b < p.boot.room /\ p.boot.room \in Nat
    BY <1>1, <1>3, PackageIs DEF Behind
  <2>2. QED BY <1>2, <2>1
<1>4. CASE j = 0
  <2>1. i \in 1..Len(p.images) /\ b < p.boot.room /\ p.boot.room \in Nat
    BY <1>1, <1>4, PackageIs DEF Behind
  <2>2. QED BY <1>2, <2>1
<1>5. CASE i # 0 /\ j # 0
  <2>1. i \in 1..Len(p.images) /\ j \in (1..Len(p.images)) \ {i}
    BY <1>1, <1>5
  <2>2. Area(p.images[i].at, p.images[i].alloc) \cap Area(p.images[j].at, p.images[j].alloc) = {}
    BY <2>1, PackageIs DEF LaidOut
  <2>3. QED BY <1>2, <2>1, <2>2
<1>6. QED BY <1>3, <1>4, <1>5

\* Where its steps write, and what.
LEMMA Within ==
  ASSUME NEW p \in Packages, NEW i, Burnable(p, i), Fits(p)
  PROVE  /\ ~Outside(p, i) /\ First(p, i) \in Nat /\ Behind(p, i) \in Nat
         /\ \A s \in Allowed(p, i) :
              /\ Writing(s) => s.at \in Nat /\ s.n \in 0..FlashSize /\ First(p, i) <= s.at /\ s.at + s.n <= Behind(p, i)
              /\ s.op = "copy" => IF i = 0 THEN s.name \in Parts ELSE s.name = Name(i) /\ s.at = First(p, i)
              /\ s.op \in {"copy", "verify"} => s.at \in Nat /\ s.n \in 0..FlashSize
<1>1. ~Outside(p, i) /\ First(p, i) \in Nat /\ Behind(p, i) \in Nat
  <2>1. CASE i = 0
    BY <2>1, PackageIs DEF Outside, First, Behind, Fits
  <2>2. CASE i # 0
    <3>1. i \in 1..Len(p.images)
      BY <2>2, PackageIs DEF Burnable
    <3>2. p.images[i].at \in Nat /\ p.images[i].alloc \in Nat
      BY <3>1, ImageIs, PackageIs
    <3>3. ~Overruns(p, p.images[i])
      BY <3>1 DEF Fits
    <3>4. First(p, i) = p.images[i].at /\ Behind(p, i) = p.images[i].at + p.images[i].alloc
      BY <2>2 DEF First, Behind
    <3>5. QED BY <2>2, <3>2, <3>3, <3>4 DEF Outside
  <2>3. QED BY <2>1, <2>2
<1>2. ASSUME NEW s \in Allowed(p, i)
      PROVE  /\ s \in AnyStep
             /\ Writing(s) => First(p, i) <= s.at /\ s.at + s.n <= Behind(p, i)
             /\ s.op = "copy" => IF i = 0 THEN s.name \in Parts ELSE s.name = Name(i) /\ s.at = First(p, i)
  BY <1>1 DEF Allowed, Writing
<1>3. \A s \in AnyStep : s.op \in {"erase", "copy", "verify"} => s.at \in Nat /\ s.n \in 0..FlashSize
  BY DEF AnyStep
<1>4. QED BY <1>1, <1>2, <1>3 DEF Writing

\* The steps of a burn.
LEMMA ListIs ==
  ASSUME NEW p \in Packages, NEW i, Burnable(p, i)
  PROVE  Steps(p, i) \in Seq(AnyStep) /\ Range(Steps(p, i)) \subseteq Allowed(p, i)
<1>1. Steps(p, i) \in Seq(Allowed(p, i))
  BY StepsAllowed
<1> DEFINE L == Steps(p, i)
           A == Allowed(p, i)
<1>2. A \subseteq AnyStep
  BY DEF Allowed
<1> HIDE DEF L, A
<1>3. L \in Seq(A)
  BY <1>1 DEF L, A
<1>4. Range(L) \subseteq A
  BY <1>3 DEF Range
<1>5. L \in Seq(AnyStep)
  BY <1>2, <1>3
<1>6. QED BY <1>4, <1>5 DEF L, A

\* A step of another burn leaves alone what has been burned.
LEMMA CompleteStays ==
  ASSUME Typed, Next, Fits(pkg), pkg' = pkg, run' = run, NEW i, Burnable(pkg, i), i # now, Complete(i),
         i \in lapses' <=> i \in lapses
  PROVE  Complete(i)'
<1>1. pkg \in Packages /\ i \in Nat
  BY PackageIs DEF Typed, TypeOK, Burnable
<1> DEFINE L == Steps(pkg, i)
<1>2. Steps(pkg, i)' = L
  <2>1. pkg' = pkg
    OBVIOUS
  <2>2. QED BY <2>1 DEF Steps, BurnBoot, BurnPart, BurnImg, BurnImgNand, BurnImgCopy, BurnUbifs, BurnYaffs, BurnJffs,
                        BurnExt4, CopyPbc, IfVerify, YaffsWrite, JffsMade, BootNand, BootEmmc, BootNor, BootPart, OneCopy, NorRescue
<1>3. ASSUME NEW s \in Range(L), Writing(s), NEW b \in Blocks, s.at <= b, b < s.at + s.n
      PROVE  flash'[b] = flash[b]
  <2>1. /\ s.at \in Nat /\ s.n \in 0..FlashSize /\ First(pkg, i) <= s.at /\ s.at + s.n <= Behind(pkg, i)
        /\ First(pkg, i) \in Nat /\ Behind(pkg, i) \in Nat
    BY <1>1, <1>3, ListIs, Within
  <2>2. b \in Int /\ First(pkg, i) <= b /\ b < Behind(pkg, i)
    BY <1>1, <1>3, <2>1, PackageIs DEF Blocks
  <2>3. ASSUME flash'[b] # flash[b] PROVE FALSE
    <3>1. now # -1 /\ Burnable(pkg, now) /\ (Outside(pkg, now) \/ (First(pkg, now) <= b /\ b < Behind(pkg, now)))
      BY <2>3, OwnBlock
    <3>2. First(pkg, now) <= b /\ b < Behind(pkg, now)
      BY <1>1, <3>1, Within
    <3>3. QED BY <1>1, <2>2, <3>1, <3>2, Disjoint
  <2>4. QED BY <2>3
<1>4. ASSUME NEW s \in Range(L)
      PROVE  /\ s.op # "return"
             /\ s.op = "copy" /\ (i \in lapses' => pkg.flash = "nand" /\ pkg.verify) => There(s)'
             /\ s.op = "erase" /\ NoCopies(L) /\ i \notin lapses' => Empty(s)'
  <2>1. s.op # "return"
    BY <1>4 DEF Complete
  <2>2. ASSUME s.op = "copy", i \in lapses' => pkg.flash = "nand" /\ pkg.verify
        PROVE  There(s)'
    <3>1. There(s)
      BY <1>4, <2>2 DEF Complete
    <3>2. Writing(s) /\ s.at \in Nat /\ s.n \in Nat
      BY <1>1, <1>4, <2>2, ListIs, Within, PackageIs DEF Writing
    <3>3. ASSUME NEW k \in 0..(s.n - 1)
          PROVE  s.at + k \in Blocks /\ flash'[s.at + k] = Cell(s.name, k, s.n, run)
      <4>1. s.at + k \in Blocks /\ flash[s.at + k] = Cell(s.name, k, s.n, run)
        BY <3>1 DEF There, IsAt
      <4>2. s.at <= s.at + k /\ s.at + k < s.at + s.n
        BY <3>2
      <4>3. QED BY <1>3, <1>4, <3>2, <4>1, <4>2
    <3>4. QED BY <3>3 DEF There, IsAt, Blocks
  <2>3. ASSUME s.op = "erase", NoCopies(L), i \notin lapses'
        PROVE  Empty(s)'
    <3>1. Empty(s)
      BY <1>4, <2>3 DEF Complete
    <3>2. \A b \in Blocks : s.at <= b /\ b < s.at + s.n => flash'[b] = Erased
      BY <1>3, <1>4, <2>3, <3>1 DEF Empty, Writing
    <3>3. QED BY <3>2 DEF Empty, Blocks
  <2>4. QED BY <2>1, <2>2, <2>3
<1> HIDE DEF L
<1>5. QED BY <1>2, <1>4 DEF Complete

\* Equal sums are equal blocks: the copy is all there, whatever the pipe has done.
LEMMA SumsTell ==
  ASSUME Typed, Dated, Fits(pkg), Own, now # -1, now # 0, NEW s \in Allowed(pkg, now), s.op = "copy", Partly(s),
         SumsAgree(s.name, Low(s.at), s.n)
  PROVE  There(s)
<1>1. pkg \in Packages /\ Burnable(pkg, now) /\ now \in 1..Len(pkg.images) /\ FlashSize \in Nat
  BY PackageIs DEF Typed, TypeOK, Burnable
<1>2. /\ s.at \in Nat /\ s.n \in Nat /\ s.name = Name(now) /\ s.at = First(pkg, now)
      /\ First(pkg, now) \in Nat /\ Behind(pkg, now) \in Nat
  BY <1>1, Within
<1>3. Low(s.at) \in Nat /\ Low(s.at) <= s.at
  BY <1>2, LowIs
<1>4. ASSUME NEW k \in 0..(s.n - 1)
      PROVE  s.at + k \in Blocks /\ flash[s.at + k] = Cell(s.name, k, s.n, run)
  <2>1. PICK b \in Area(Low(s.at), s.n) \cap Blocks : flash[b] = Cell(s.name, k, s.n, run)
    BY DEF SumsAgree
  <2>2. b \in Int /\ b < Low(s.at) + s.n /\ b \in Blocks
    BY <1>2, <1>3 DEF Area
  <2>3. flash[b][1] = Name(now) /\ flash[b][4] = run
    BY <1>2, <2>1, CellIs
  <2>4. s.at <= b
    BY <1>1, <1>2, <2>2, <2>3 DEF Own
  <2> DEFINE j == b - s.at
  <2>5. j \in 0..(s.n - 1) /\ s.at + j = b
    BY <1>2, <1>3, <2>2, <2>4
  <2> HIDE DEF j
  <2>6. flash[b] \in {Erased, Cell(s.name, j, s.n, run)}
    BY <2>2, <2>5 DEF Partly
  <2>7. flash[b] # Erased
    BY <1>1, <2>3, CellIs
  <2>8. j = k
    BY <2>1, <2>6, <2>7, CellIs
  <2>9. QED BY <2>1, <2>2, <2>5, <2>8
<1>5. QED BY <1>4 DEF There, IsAt

-----------------------------------------------------------------------------
(* The burn that goes on.                                                    *)

LEMMA Begins ==
  ASSUME pkg' \in Packages, Fits(pkg'), now' # -1, Burnable(pkg', now'), todo' = Steps(pkg', now'), done' = 0
  PROVE  Progress'
<1> DEFINE q == pkg'
           L == Steps(q, now')
<1>1. Sound(q, Erase(0, 0), L)
  BY ListsSound
<1>2. List' = L /\ todo' = L
  BY DEF List
<1>3. L \in Seq(AnyStep) /\ Range(L) \subseteq Allowed(q, now')
  BY ListIs
<1>4. ASSUME NEW j \in DOMAIN L, L[j].op = "copy"
      PROVE  L[j].at \in Nat /\ L[j].n \in 0..FlashSize
  <2>1. L[j] \in Allowed(q, now')
    BY <1>3 DEF Range
  <2>2. QED BY <1>4, <2>1, Within
<1>5. Range(todo') \subseteq Range(List')
  BY <1>2
<1> HIDE DEF L, q
<1>6. ASSUME NEW j \in DOMAIN L, L[j].op = "copy"
      PROVE  /\ \A k \in DOMAIN L : j < k /\ Writing(L[k]) => Apart(L[j], L[k])
             /\ \/ q.flash = "emmc"
                \/ \E i \in DOMAIN L : i < j /\ Covers(L[i], L[j])
                \/ \A b \in Blocks : L[j].at + (IF j = 1 THEN done' ELSE 0) <= b /\ b < L[j].at + L[j].n => flash'[b] = Erased
             /\ L[j].mode = "pipe" /\ q.verify /\ q.flash = "nand" => \E k \in DOMAIN L : j < k /\ L[k] = Check(L[j])
  <2>1. /\ \A k \in DOMAIN L : j < k /\ Writing(L[k]) => Apart(L[j], L[k])
        /\ q.flash = "emmc" \/ Covers(Erase(0, 0), L[j]) \/ (\E i \in DOMAIN L : i < j /\ Covers(L[i], L[j]))
        /\ L[j].mode = "pipe" /\ q.verify /\ q.flash = "nand" => \E k \in DOMAIN L : j < k /\ L[k] = Check(L[j])
    BY <1>1, <1>6 DEF Sound
  <2>2. ASSUME Covers(Erase(0, 0), L[j]), NEW b \in Blocks, L[j].at + (IF j = 1 THEN done' ELSE 0) <= b, b < L[j].at + L[j].n
        PROVE  FALSE
    <3>1. L[j].at + L[j].n <= 0
      BY <2>2 DEF Covers, Erase
    <3>2. L[j].at \in Nat /\ L[j].n \in Nat /\ b \in Nat
      BY <1>4, <1>6, PackageIs, BurnAssumption DEF Blocks
    <3>3. QED BY <2>2, <3>1, <3>2
  <2>3. QED BY <2>1, <2>2
<1>7. Ahead'
  BY <1>2, <1>6 DEF Ahead, q, Blocks
<1>8. Halfway'
  <2>1. ASSUME todo' # <<>>, todo'[1].op = "erase", NEW b \in Blocks, todo'[1].at <= b, b < todo'[1].at + done'
        PROVE  FALSE
    <3>1. todo'[1] \in AnyStep
      BY <1>2, <1>3, <2>1
    <3>2. todo'[1].at \in Nat /\ b \in Nat
      BY <2>1, <3>1, BurnAssumption DEF AnyStep, Blocks
    <3>3. QED BY <2>1, <3>2
  <2>2. 0..(done' - 1) = {}
    OBVIOUS
  <2>3. QED BY <2>1, <2>2 DEF Halfway, Blocks
<1>9. Past'
  BY <1>2 DEF Past, Gone
<1>10. QED BY <1>5, <1>7, <1>8, <1>9 DEF Progress

\* The first step, and those behind it.
LEMMA TailIs ==
  ASSUME Typed, now # -1, todo # <<>>
  PROVE  /\ \E n \in Nat : /\ DOMAIN todo = 1..(n + 1) /\ DOMAIN Tail(todo) = 1..n
                           /\ \A j \in 1..n : Tail(todo)[j] = todo[j + 1]
         /\ Range(todo) = {todo[1]} \cup Range(Tail(todo))
         /\ todo[1] \in Allowed(pkg, now) /\ Range(todo) \subseteq Allowed(pkg, now)
         /\ pkg \in Packages /\ Burnable(pkg, now)
<1> DEFINE A == Allowed(pkg, now)
           T == Tail(todo)
           n == Len(todo) - 1
<1>1. Burnable(pkg, now) /\ todo \in Seq(A) /\ pkg \in Packages /\ todo[1] \in A
  BY HeadIs DEF Typed, TypeOK
<1> HIDE DEF A
<1>2. n \in Nat /\ DOMAIN todo = 1..(n + 1) /\ T \in Seq(A) /\ DOMAIN T = 1..n
  BY <1>1
<1>3. \A j \in 1..n : T[j] = todo[j + 1]
  BY <1>1
<1> HIDE DEF T, n
<1>4. Range(todo) = {todo[1]} \cup Range(T)
  <2>1. \A k \in 1..(n + 1) : k = 1 \/ (k - 1 \in 1..n /\ (k - 1) + 1 = k)
    BY <1>2
  <2>2. ASSUME NEW k \in 1..(n + 1) PROVE todo[k] \in {todo[1]} \cup Range(T)
    <3>1. CASE k = 1
      BY <3>1
    <3>2. CASE k - 1 \in 1..n /\ (k - 1) + 1 = k
      <4>1. T[k - 1] = todo[k]
        BY <1>3, <3>2
      <4>2. QED BY <1>2, <3>2, <4>1 DEF Range
    <3>3. QED BY <2>1, <3>1, <3>2
  <2>3. 1 \in 1..(n + 1) /\ \A j \in 1..n : j + 1 \in 1..(n + 1)
    BY <1>2
  <2>4. Range(todo) \subseteq {todo[1]} \cup Range(T)
    BY <1>2, <2>2 DEF Range
  <2>5. {todo[1]} \cup Range(T) \subseteq Range(todo)
    BY <1>2, <1>3, <2>3 DEF Range
  <2>6. QED BY <2>4, <2>5
<1>5. Range(todo) \subseteq A
  BY <1>1 DEF Range
<1>6. QED BY <1>1, <1>2, <1>3, <1>4, <1>5 DEF A, T

LEMMA Shifted ==
  ASSUME Typed, Dated, Begun, Fits(pkg), Own, Progress, Shifts
  PROVE  Progress'
<1> DEFINE T == Tail(todo)
           h == todo[1]
           A == Allowed(pkg, now)
<1>1. /\ now # -1 /\ todo # <<>> /\ todo' = T /\ done' = 0 /\ pkg' = pkg /\ run' = run /\ now' = now /\ flash' = flash
      /\ h.op \in {"call", "tools", "erase", "copy", "verify"}
  BY DEF Shifts, Next1
<1>2. PICK n \in Nat : /\ DOMAIN todo = 1..(n + 1) /\ DOMAIN T = 1..n
                       /\ \A j \in 1..n : T[j] = todo[j + 1]
  BY <1>1, TailIs
<1>3. /\ Range(todo) = {h} \cup Range(T) /\ h \in A /\ Range(todo) \subseteq A
      /\ pkg \in Packages /\ Burnable(pkg, now)
  BY <1>1, TailIs
<1>4. Range(todo) \subseteq Range(List) /\ Ahead /\ Halfway /\ Past
  BY <1>1, <1>3 DEF Progress
<1>5. List' = List
  BY <1>1 DEF List
<1>6. Gone' \subseteq Gone \cup {h}
  BY <1>1, <1>3, <1>4, <1>5 DEF Gone
<1>7. \A j \in 1..n : j + 1 \in 1..(n + 1) /\ j + 1 # 1
  OBVIOUS
<1>8. \A k \in 1..(n + 1) : k = 1 \/ (k - 1 \in 1..n /\ (k - 1) + 1 = k)
  OBVIOUS
<1>9. h.op \in {"erase", "copy", "verify"} => h.at \in Nat /\ h.n \in Nat
  <2>1. h.op \in {"erase", "copy", "verify"} => h.at \in Nat /\ h.n \in 0..FlashSize
    BY <1>3, Within DEF Writing
  <2>2. FlashSize \in Nat
    BY BurnAssumption
  <2>3. QED BY <2>1, <2>2
<1> HIDE DEF T, h, A
<1>10. ASSUME h.op = "erase"
       PROVE  \A b \in Blocks : h.at <= b /\ b < h.at + h.n => flash[b] = Erased
  <2>1. done = h.n
    BY <1>10 DEF Shifts, h
  <2>2. QED BY <1>1, <1>4, <1>10, <2>1 DEF Halfway, h
<1>11. Ahead'
  <2>1. ASSUME NEW j \in 1..n, T[j].op = "copy"
        PROVE  /\ \A k \in 1..n : j < k /\ Writing(T[k]) => Apart(T[j], T[k])
               /\ \/ pkg.flash = "emmc"
                  \/ \E i \in 1..n : i < j /\ Covers(T[i], T[j])
                  \/ \A b \in Blocks : T[j].at + (IF j = 1 THEN 0 ELSE 0) <= b /\ b < T[j].at + T[j].n => flash[b] = Erased
               /\ T[j].mode = "pipe" /\ pkg.verify /\ pkg.flash = "nand" => \E k \in 1..n : j < k /\ T[k] = Check(T[j])
    <3>1. j + 1 \in 1..(n + 1) /\ j + 1 # 1 /\ todo[j + 1] = T[j] /\ T[j] \in A
      BY <1>2, <1>3, <1>7, <2>1 DEF Range
    <3>2. /\ \A k \in 1..(n + 1) : j + 1 < k /\ Writing(todo[k]) => Apart(T[j], todo[k])
          /\ \/ pkg.flash = "emmc"
             \/ \E i \in 1..(n + 1) : i < j + 1 /\ Covers(todo[i], T[j])
             \/ \A b \in Blocks : T[j].at + 0 <= b /\ b < T[j].at + T[j].n => flash[b] = Erased
          /\ T[j].mode = "pipe" /\ pkg.verify /\ pkg.flash = "nand" => \E k \in 1..(n + 1) : j + 1 < k /\ todo[k] = Check(T[j])
      <4>1. PICK m \in 1..(n + 1) : m = j + 1
        BY <3>1
      <4>2. m \in DOMAIN todo /\ m # 1 /\ todo[m] = T[j] /\ todo[m].op = "copy"
        BY <1>2, <2>1, <3>1, <4>1
      <4>3. /\ \A k \in DOMAIN todo : m < k /\ Writing(todo[k]) => Apart(todo[m], todo[k])
            /\ \/ pkg.flash = "emmc"
               \/ \E i \in DOMAIN todo : i < m /\ Covers(todo[i], todo[m])
               \/ \A b \in Blocks : todo[m].at + (IF m = 1 THEN done ELSE 0) <= b /\ b < todo[m].at + todo[m].n => flash[b] = Erased
            /\ todo[m].mode = "pipe" /\ pkg.verify /\ pkg.flash = "nand" => \E k \in DOMAIN todo : m < k /\ todo[k] = Check(todo[m])
        BY <1>4, <4>2, Zenon DEF Ahead
      <4>4. (IF m = 1 THEN done ELSE 0) = 0
        BY <4>2
      <4>5. DOMAIN todo = 1..(n + 1)
        BY <1>2
      <4>6. QED BY ONLY <4>1, <4>2, <4>3, <4>4, <4>5, Zenon
    <3>3. ASSUME NEW k \in 1..n, j < k, Writing(T[k])
          PROVE  Apart(T[j], T[k])
      <4>1. k + 1 \in 1..(n + 1) /\ j + 1 < k + 1 /\ todo[k + 1] = T[k]
        BY <1>2, <3>3
      <4>2. QED BY <3>2, <3>3, <4>1
    <3>4. ASSUME NEW i \in 1..(n + 1), i < j + 1, Covers(todo[i], T[j])
          PROVE  \/ \E k \in 1..n : k < j /\ Covers(T[k], T[j])
                 \/ \A b \in Blocks : T[j].at <= b /\ b < T[j].at + T[j].n => flash[b] = Erased
      <4>1. CASE i = 1
        <5>1. h.op = "erase" /\ h.at <= T[j].at /\ T[j].at + T[j].n <= h.at + h.n
          BY <3>4, <4>1 DEF Covers, h
        <5>2. T[j].at \in Nat /\ T[j].n \in Nat /\ h.at \in Nat /\ h.n \in Nat
          BY <1>3, <1>9, <2>1, <3>1, <5>1, Within, PackageIs DEF A
        <5>3. ASSUME NEW b \in Blocks, T[j].at <= b, b < T[j].at + T[j].n
              PROVE  flash[b] = Erased
          <6>1. b \in Int
            BY BurnAssumption DEF Blocks
          <6>2. h.at <= b /\ b < h.at + h.n
            BY <5>1, <5>2, <5>3, <6>1
          <6>3. QED BY <1>10, <5>1, <6>2
        <5>4. QED BY <5>3
      <4>2. CASE i - 1 \in 1..n /\ (i - 1) + 1 = i
        <5>1. T[i - 1] = todo[i] /\ i - 1 < j
          BY <1>2, <3>4, <4>2
        <5>2. QED BY <3>4, <4>2, <5>1
      <4>3. QED BY <1>8, <4>1, <4>2
    <3>5. T[j].at \in Nat
      BY <1>3, <2>1, <3>1, Within DEF A
    <3>6. T[j].at + 0 = T[j].at /\ T[j].at + (IF j = 1 THEN 0 ELSE 0) = T[j].at
      BY <3>5
    <3>7. \/ pkg.flash = "emmc"
          \/ \E i \in 1..n : i < j /\ Covers(T[i], T[j])
          \/ \A b \in Blocks : T[j].at + (IF j = 1 THEN 0 ELSE 0) <= b /\ b < T[j].at + T[j].n => flash[b] = Erased
      BY <3>2, <3>4, <3>6
    <3>8. ASSUME NEW k \in 1..(n + 1), j + 1 < k, todo[k] = Check(T[j])
          PROVE  \E i \in 1..n : j < i /\ T[i] = Check(T[j])
      <4>1. k - 1 \in 1..n /\ (k - 1) + 1 = k /\ j < k - 1
        BY <3>8
      <4>2. T[k - 1] = todo[k]
        BY <1>2, <4>1
      <4>3. QED BY <3>8, <4>1, <4>2
    <3>9. QED BY <3>2, <3>3, <3>7, <3>8
  <2>2. QED BY <1>1, <1>2, <2>1 DEF Ahead, Blocks
<1>12. Halfway'
  <2>1. ASSUME T # <<>>, T[1].op = "erase", NEW b \in Blocks, T[1].at <= b, b < T[1].at + 0
        PROVE  FALSE
    <3>1. 1 \in 1..n
      BY <1>2, <2>1, <1>3, HeadIs, <1>1 DEF h, T
    <3>2. T[1] \in A
      BY <1>2, <1>3, <3>1 DEF Range
    <3>3. T[1].at \in Nat /\ b \in Int
      BY <1>3, <2>1, <3>2, Within, BurnAssumption DEF A, Writing, Blocks
    <3>4. QED BY <2>1, <3>3
  <2>2. 0..(0 - 1) = {}
    OBVIOUS
  <2>3. QED BY <1>1, <2>1, <2>2 DEF Halfway, Blocks
<1>13. ASSUME NEW s \in Gone \cup {h}, s \notin Range(T), s \in Range(List)
       PROVE  /\ s.op # "return"
              /\ s.op = "copy" =>
                   /\ \A j \in 1..n : Writing(T[j]) => Apart(s, T[j])
                   /\ now \notin lapses' => There(s)
                   /\ pkg.flash # "emmc" => Partly(s)
                   /\ now \in lapses' /\ pkg.flash = "nand" /\ pkg.verify => There(s) \/ Check(s) \in Range(T)
              /\ s.op = "erase" /\ NoCopies(List) => Empty(s)
  <2>1. CASE s \in Gone
    <3>1. s.op # "return" /\ (s.op = "erase" /\ NoCopies(List) => Empty(s))
      BY <1>4, <2>1 DEF Past
    <3>2. ASSUME s.op = "copy"
          PROVE  /\ \A j \in 1..n : Writing(T[j]) => Apart(s, T[j])
                 /\ now \notin lapses' => There(s)
                 /\ pkg.flash # "emmc" => Partly(s)
                 /\ now \in lapses' /\ pkg.flash = "nand" /\ pkg.verify => There(s) \/ Check(s) \in Range(T)
      <4>1. /\ \A j \in 1..(n + 1) : Writing(todo[j]) => Apart(s, todo[j])
            /\ now \notin lapses => There(s)
            /\ pkg.flash # "emmc" => Partly(s)
            /\ now \in lapses /\ pkg.flash = "nand" /\ pkg.verify => There(s) \/ Check(s) \in Range(todo)
        BY <1>2, <1>4, <2>1, <3>2 DEF Past
      <4>2. \A j \in 1..n : Writing(T[j]) => Apart(s, T[j])
        BY <1>2, <1>7, <4>1
      <4>3. lapses \subseteq lapses'
        BY DEF Shifts
      <4>4. ASSUME now \in lapses', pkg.flash = "nand", pkg.verify
            PROVE  There(s) \/ Check(s) \in Range(T)
        <5>1. CASE Check(s) = h /\ now \in lapses
          <6>1. h.op = "verify" /\ h.name = s.name /\ h.at = Low(s.at) /\ h.n = s.n
            BY <5>1 DEF Check, Verify
          <6>2. SumsAgree(s.name, Low(s.at), s.n)
            BY <6>1 DEF Shifts, h
          <6>3. now # 0
            BY <5>1 DEF Begun
          <6>4. s \in Allowed(pkg, now)
            BY <1>3, <1>13, ListIs DEF List
          <6>5. Partly(s)
            BY <4>1, <4>4
          <6>6. QED BY <1>1, <3>2, <6>2, <6>3, <6>4, <6>5, SumsTell
        <5>2. CASE ~(Check(s) = h /\ now \in lapses)
          BY <1>3, <4>1, <4>4, <5>2
        <5>3. QED BY <5>1, <5>2
      <4>5. QED BY <4>1, <4>2, <4>3, <4>4
    <3>3. QED BY <3>1, <3>2
  <2>2. CASE s = h
    <3>1. s.op # "return"
      BY <1>1, <2>2
    <3>2. ASSUME s.op = "erase"
          PROVE  Empty(s)
      BY <1>10, <2>2, <3>2 DEF Empty
    <3>3. ASSUME s.op = "copy"
          PROVE  /\ \A j \in 1..n : Writing(T[j]) => Apart(s, T[j])
                 /\ now \notin lapses' => There(s)
                 /\ pkg.flash # "emmc" => Partly(s)
                 /\ now \in lapses' /\ pkg.flash = "nand" /\ pkg.verify => There(s) \/ Check(s) \in Range(T)
      <4>1. /\ \A k \in 1..(n + 1) : 1 < k /\ Writing(todo[k]) => Apart(s, todo[k])
            /\ \/ pkg.flash = "emmc"
               \/ \E i \in 1..(n + 1) : i < 1 /\ Covers(todo[i], s)
               \/ \A b \in Blocks : s.at + done <= b /\ b < s.at + s.n => flash[b] = Erased
            /\ s.mode = "pipe" /\ pkg.verify /\ pkg.flash = "nand" => \E k \in 1..(n + 1) : 1 < k /\ todo[k] = Check(s)
        <5>1. 1 \in 1..(n + 1)
          OBVIOUS
        <5>2. QED BY <1>2, <1>4, <2>2, <3>3, <5>1 DEF Ahead, h
      <4>2. \A j \in 1..n : Writing(T[j]) => Apart(s, T[j])
        <5>1. \A j \in 1..n : 1 < j + 1
          OBVIOUS
        <5>2. QED BY <1>2, <1>7, <4>1, <5>1
      <4>3. \A k \in 0..(done - 1) : s.at + k \in Blocks /\ flash[s.at + k] = Cell(s.name, k, s.n, run)
        BY <1>1, <1>4, <2>2, <3>3 DEF Halfway, h
      <4>4. done = s.n => There(s)
        BY <4>3 DEF There, IsAt
      <4>5. done \in Nat /\ s.at \in Nat /\ s.n \in Nat
        BY <1>9, <2>2, <3>3, PackageIs DEF Typed, TypeOK
      <4>6. ASSUME pkg.flash # "emmc" PROVE Partly(s)
        <5>1. \A b \in Blocks : s.at + done <= b /\ b < s.at + s.n => flash[b] = Erased
          BY <4>1, <4>6
        <5>2. ASSUME NEW k \in 0..(s.n - 1), s.at + k \in Blocks
              PROVE  flash[s.at + k] \in {Erased, Cell(s.name, k, s.n, run)}
          <6>1. k \in 0..(done - 1) \/ (s.at + done <= s.at + k /\ s.at + k < s.at + s.n)
            BY <4>5
          <6>2. QED BY <4>3, <5>1, <5>2, <6>1
        <5>3. QED BY <5>2 DEF Partly
      <4>7. done = s.n \/ (now \in lapses' /\ MayLapse(pkg, pkg.images[now], s.mode) /\ now # 0)
        BY <2>2, <3>3 DEF Shifts, h
      <4>8. ASSUME now \in lapses', pkg.flash = "nand", pkg.verify, done # s.n
            PROVE  Check(s) \in Range(T)
        <5>1. now \in 1..Len(pkg.images)
          BY <1>3, <4>7, <4>8, PackageIs DEF Burnable
        <5>2. s.mode = "pipe"
          BY <1>3, <4>7, <4>8, <5>1, ImageIs DEF MayLapse
        <5>3. PICK k \in 1..(n + 1) : 1 < k /\ todo[k] = Check(s)
          BY <4>1, <4>8, <5>2
        <5>4. k - 1 \in 1..n /\ (k - 1) + 1 = k
          BY <1>8, <5>3
        <5>5. T[k - 1] = Check(s)
          BY <1>2, <5>3, <5>4
        <5>6. QED BY <1>2, <5>4, <5>5 DEF Range
      <4>9. QED BY <4>2, <4>4, <4>6, <4>7, <4>8
    <3>4. QED BY <3>1, <3>2, <3>3
  <2>3. QED BY <1>13, <2>1, <2>2
<1>14. \A s : There(s)' = There(s) /\ Partly(s)' = Partly(s) /\ Empty(s)' = Empty(s)
  BY <1>1 DEF There, Partly, Empty, IsAt, Blocks
<1>15. Past'
  <2>1. ASSUME NEW s \in Gone'
        PROVE  s \in Gone \cup {h} /\ s \notin Range(T) /\ s \in Range(List)
    BY <1>1, <1>5, <1>6 DEF Gone
  <2>2. QED BY <1>1, <1>2, <1>5, <1>13, <1>14, <2>1 DEF Past
<1>16. Range(todo') \subseteq Range(List')
  BY <1>1, <1>3, <1>4, <1>5
<1>17. QED BY <1>11, <1>12, <1>15, <1>16 DEF Progress

\* A block that is written is in what the steps that are done have left alone.
LEMMA NotOver ==
  ASSUME NEW s \in AnyStep, NEW t \in AnyStep, Writing(s), Writing(t), Apart(s, t), NEW d \in Nat, d < t.n,
         NEW b \in Int, s.at <= b, b < s.at + s.n
  PROVE  b # t.at + d
<1>1. s.at \in Nat /\ s.n \in Nat /\ t.at \in Nat /\ t.n \in Nat
  BY BurnAssumption DEF AnyStep, Writing
<1>2. QED BY <1>1 DEF Apart

LEMMA ErasedOne ==
  ASSUME Typed, Fits(pkg), Progress, EraseBlock
  PROVE  Progress'
<1> DEFINE h == todo[1]
           c == h.at + done
           n == Len(todo)
<1>1. /\ now # -1 /\ todo # <<>> /\ h.op = "erase" /\ done < h.n /\ done' = done + 1
      /\ flash' = [flash EXCEPT ![c] = Erased]
      /\ pkg' = pkg /\ run' = run /\ now' = now /\ todo' = todo /\ lapses' = lapses
  BY DEF EraseBlock, Op
<1>2. /\ Range(todo) \subseteq AnyStep /\ h \in AnyStep /\ DOMAIN todo = 1..n /\ 1 \in 1..n
      /\ done \in Nat /\ DOMAIN flash = Blocks /\ pkg \in Packages /\ Burnable(pkg, now)
  <2>1. /\ h \in AnyStep /\ Range(todo) \subseteq AnyStep
        /\ pkg \in Packages /\ Burnable(pkg, now)
    BY <1>1, TailIs DEF Allowed
  <2>2. todo \in Seq(Allowed(pkg, now))
    BY <1>1, HeadIs
  <2>3. DOMAIN todo = 1..n /\ 1 \in 1..n
    BY <1>1, <2>2
  <2>4. done \in Nat /\ DOMAIN flash = Blocks
    BY PackageIs DEF Typed, TypeOK
  <2>5. QED BY <2>1, <2>3, <2>4
<1>3. Range(todo) \subseteq Range(List) /\ Ahead /\ Halfway /\ Past
  BY <1>1, <1>2 DEF Progress
<1>4. List' = List /\ Gone' = Gone
  BY <1>1 DEF List, Gone
<1>5. h.at \in Nat /\ h.n \in Nat /\ Writing(h)
  BY <1>1, <1>2, BurnAssumption DEF AnyStep, Writing
<1>6. \A b \in Blocks : b # c => flash'[b] = flash[b]
  BY <1>1, <1>2
<1>7. \A b \in Blocks : flash[b] = Erased \/ b = c => flash'[b] = Erased
  BY <1>1, <1>2
<1>8. \A b \in Blocks : b \in Int
  BY BurnAssumption DEF Blocks
<1> HIDE DEF c, n
<1>9. Ahead'
  <2>1. ASSUME NEW j \in 1..n, todo[j].op = "copy"
        PROVE  \/ pkg.flash = "emmc"
               \/ \E i \in 1..n : i < j /\ Covers(todo[i], todo[j])
               \/ \A b \in Blocks : todo[j].at + (IF j = 1 THEN done' ELSE 0) <= b /\ b < todo[j].at + todo[j].n => flash'[b] = Erased
    <3>1. j # 1
      BY <1>1, <2>1
    <3>2. \/ pkg.flash = "emmc"
          \/ \E i \in 1..n : i < j /\ Covers(todo[i], todo[j])
          \/ \A b \in Blocks : todo[j].at + 0 <= b /\ b < todo[j].at + todo[j].n => flash[b] = Erased
      BY <1>2, <1>3, <2>1, <3>1 DEF Ahead
    <3>3. QED BY <1>7, <3>1, <3>2
  <2>2. ASSUME NEW j \in 1..n, todo[j].op = "copy"
        PROVE  /\ \A k \in 1..n : j < k /\ Writing(todo[k]) => Apart(todo[j], todo[k])
               /\ todo[j].mode = "pipe" /\ pkg.verify /\ pkg.flash = "nand" => \E k \in 1..n : j < k /\ todo[k] = Check(todo[j])
    BY <1>2, <1>3, <2>2 DEF Ahead
  <2>3. QED BY <1>1, <1>2, <2>1, <2>2 DEF Ahead, Blocks
<1>10. Halfway'
  <2>1. ASSUME NEW b \in Blocks, h.at <= b, b < h.at + done'
        PROVE  flash'[b] = Erased
    <3>1. b = c \/ b < h.at + done
      BY <1>1, <1>2, <1>5, <1>8, <2>1 DEF c
    <3>2. b < h.at + done => flash[b] = Erased
      BY <1>1, <1>3, <2>1 DEF Halfway
    <3>3. QED BY <1>7, <3>1, <3>2
  <2>2. QED BY <1>1, <2>1 DEF Halfway, Blocks
<1>11. ASSUME NEW s \in Gone
       PROVE  /\ s.op = "copy" /\ There(s) => There(s)'
              /\ s.op = "copy" /\ Partly(s) => Partly(s)'
              /\ Empty(s) => Empty(s)'
  <2>1. s \in AnyStep
    <3>1. Range(List) \subseteq AnyStep
      BY <1>2, ListIs DEF List, Allowed
    <3>2. QED BY <1>11, <3>1 DEF Gone
  <2>2. ASSUME s.op = "copy", NEW b \in Blocks, s.at <= b, b < s.at + s.n
        PROVE  flash'[b] = flash[b]
    <3>1. Apart(s, h)
      BY <1>2, <1>3, <1>5, <1>11, <2>2 DEF Past
    <3>2. Writing(s)
      BY <2>2 DEF Writing
    <3>3. b # c
      BY <1>1, <1>2, <1>5, <1>8, <2>1, <2>2, <3>1, <3>2, NotOver DEF c
    <3>4. QED BY <1>6, <3>3
  <2>3. s.op = "copy" => s.at \in Nat /\ s.n \in Nat
    BY <2>1, BurnAssumption DEF AnyStep
  <2>4. ASSUME s.op = "copy", NEW k \in 0..(s.n - 1), s.at + k \in Blocks
        PROVE  flash'[s.at + k] = flash[s.at + k]
    <3>1. s.at <= s.at + k /\ s.at + k < s.at + s.n
      BY <2>3, <2>4
    <3>2. QED BY <2>2, <2>4, <3>1
  <2>5. s.op = "copy" /\ There(s) => There(s)'
    BY <1>1, <2>4 DEF There, IsAt, Blocks
  <2>6. s.op = "copy" /\ Partly(s) => Partly(s)'
    BY <1>1, <2>4 DEF Partly, Blocks
  <2>7. Empty(s) => Empty(s)'
    BY <1>7 DEF Empty, Blocks
  <2>8. QED BY <2>5, <2>6, <2>7
<1>12. Past'
  BY <1>1, <1>3, <1>4, <1>11 DEF Past
<1>13. QED BY <1>1, <1>3, <1>4, <1>9, <1>10, <1>12 DEF Progress

LEMMA CopiedOne ==
  ASSUME Typed, Fits(pkg), Progress, CopyBlock
  PROVE  Progress' /\ flash' = [flash EXCEPT ![todo[1].at + done] = Cell(todo[1].name, done, todo[1].n, run)]
<1> DEFINE h == todo[1]
           c == h.at + done
           n == Len(todo)
           x == Cell(h.name, done, h.n, run)
<1>1. /\ now # -1 /\ todo # <<>> /\ h.op = "copy" /\ done < h.n /\ done' = done + 1 /\ c \in Blocks
      /\ flash' = [flash EXCEPT ![c] = IF pkg.flash = "emmc" \/ flash[c] = Erased THEN x ELSE Torn]
      /\ pkg' = pkg /\ run' = run /\ now' = now /\ todo' = todo /\ lapses' = lapses
  BY DEF CopyBlock, Op
<1>2. /\ Range(todo) \subseteq AnyStep /\ h \in AnyStep /\ DOMAIN todo = 1..n /\ 1 \in 1..n
      /\ done \in Nat /\ DOMAIN flash = Blocks /\ pkg \in Packages /\ Burnable(pkg, now)
  <2>1. /\ h \in AnyStep /\ Range(todo) \subseteq AnyStep
        /\ pkg \in Packages /\ Burnable(pkg, now)
    BY <1>1, TailIs DEF Allowed
  <2>2. todo \in Seq(Allowed(pkg, now))
    BY <1>1, HeadIs
  <2>3. DOMAIN todo = 1..n /\ 1 \in 1..n
    BY <1>1, <2>2
  <2>4. done \in Nat /\ DOMAIN flash = Blocks
    BY PackageIs DEF Typed, TypeOK
  <2>5. QED BY <2>1, <2>3, <2>4
<1>3. Range(todo) \subseteq Range(List) /\ Ahead /\ Halfway /\ Past
  BY <1>1, <1>2 DEF Progress
<1>4. List' = List /\ Gone' = Gone
  BY <1>1 DEF List, Gone
<1>5. h.at \in Nat /\ h.n \in Nat /\ Writing(h)
  BY <1>1, <1>2, BurnAssumption DEF AnyStep, Writing
<1>6. \A i \in 1..n : ~(i < 1)
  OBVIOUS
<1>7. pkg.flash = "emmc" \/ \A b \in Blocks : c <= b /\ b < h.at + h.n => flash[b] = Erased
  BY <1>1, <1>2, <1>3, <1>6 DEF Ahead
<1>8. \A b \in Blocks : b \in Int
  BY BurnAssumption DEF Blocks
<1>9. flash' = [flash EXCEPT ![c] = x]
  <2>1. c <= c /\ c < h.at + h.n
    BY <1>1, <1>2, <1>5
  <2> HIDE DEF c, x
  <2>2. pkg.flash = "emmc" \/ flash[c] = Erased
    BY <1>1, <1>7, <2>1
  <2>3. QED BY <1>1, <2>2
<1> HIDE DEF c, n, x
<1>10. \A b \in Blocks : b # c => flash'[b] = flash[b]
  BY <1>2, <1>9
<1>11. flash'[c] = x
  BY <1>1, <1>2, <1>9
<1>12. Ahead'
  <2>1. ASSUME NEW j \in 1..n, todo[j].op = "copy"
        PROVE  \/ pkg.flash = "emmc"
               \/ \E i \in 1..n : i < j /\ Covers(todo[i], todo[j])
               \/ \A b \in Blocks : todo[j].at + (IF j = 1 THEN done' ELSE 0) <= b /\ b < todo[j].at + todo[j].n => flash'[b] = Erased
    <3>1. CASE j = 1
      <4>1. ASSUME NEW b \in Blocks, h.at + done' <= b, b < h.at + h.n, pkg.flash # "emmc"
            PROVE  flash'[b] = Erased
        <5>1. b # c /\ c <= b
          BY <1>1, <1>2, <1>5, <1>8, <4>1 DEF c
        <5>2. QED BY <1>7, <1>10, <4>1, <5>1
      <4>2. QED BY <3>1, <4>1
    <3>2. CASE j # 1
      <4>1. \/ pkg.flash = "emmc"
            \/ \E i \in 1..n : i < j /\ Covers(todo[i], todo[j])
            \/ \A b \in Blocks : todo[j].at + 0 <= b /\ b < todo[j].at + todo[j].n => flash[b] = Erased
        BY <1>2, <1>3, <2>1, <3>2 DEF Ahead
      <4>2. todo[j] \in AnyStep /\ Writing(todo[j])
        BY <1>2, <2>1 DEF Range, Writing
      <4>3. Apart(h, todo[j])
        <5>1. 1 < j
          BY <3>2
        <5>2. QED BY <1>1, <1>2, <1>3, <4>2, <5>1 DEF Ahead
      <4>4. todo[j].at \in Nat /\ todo[j].n \in Nat
        BY <2>1, <4>2, BurnAssumption DEF AnyStep
      <4>5. ASSUME NEW b \in Blocks, todo[j].at + 0 <= b, b < todo[j].at + todo[j].n
            PROVE  b # c
        <5>1. /\ c = h.at + done /\ h.at \in Nat /\ h.n \in Nat /\ done \in Nat /\ done < h.n
              /\ b \in Int
          BY <1>1, <1>2, <1>5, <1>8 DEF c
        <5>2. h.at + h.n <= todo[j].at \/ todo[j].at + todo[j].n <= h.at
          BY <4>3 DEF Apart
        <5>3. QED BY ONLY <4>4, <4>5, <5>1, <5>2
      <4>6. QED BY <1>10, <3>2, <4>1, <4>5
    <3>3. QED BY <3>1, <3>2
  <2>2. ASSUME NEW j \in 1..n, todo[j].op = "copy"
        PROVE  /\ \A k \in 1..n : j < k /\ Writing(todo[k]) => Apart(todo[j], todo[k])
               /\ todo[j].mode = "pipe" /\ pkg.verify /\ pkg.flash = "nand" => \E k \in 1..n : j < k /\ todo[k] = Check(todo[j])
    BY <1>2, <1>3, <2>2 DEF Ahead
  <2>3. QED BY <1>1, <1>2, <2>1, <2>2 DEF Ahead, Blocks
<1>13. Halfway'
  <2>1. ASSUME NEW k \in 0..(done' - 1)
        PROVE  h.at + k \in Blocks /\ flash'[h.at + k] = Cell(h.name, k, h.n, run)
    <3>1. CASE k = done
      BY <1>1, <1>11, <3>1 DEF c, x
    <3>2. CASE k # done
      <4>1. k \in 0..(done - 1) /\ h.at + k # c
        BY <1>1, <1>2, <1>5, <2>1, <3>2 DEF c
      <4>2. h.at + k \in Blocks /\ flash[h.at + k] = Cell(h.name, k, h.n, run)
        BY <1>1, <1>3, <4>1 DEF Halfway
      <4>3. QED BY <1>10, <4>1, <4>2
    <3>3. QED BY <3>1, <3>2
  <2>2. QED BY <1>1, <2>1 DEF Halfway, Blocks
<1>14. ASSUME NEW s \in Gone
       PROVE  /\ s.op = "copy" /\ There(s) => There(s)'
              /\ s.op = "copy" /\ Partly(s) => Partly(s)'
  <2>1. s \in AnyStep
    <3>1. Range(List) \subseteq AnyStep
      BY <1>2, ListIs DEF List, Allowed
    <3>2. QED BY <1>14, <3>1 DEF Gone
  <2>2. ASSUME s.op = "copy", NEW b \in Blocks, s.at <= b, b < s.at + s.n
        PROVE  flash'[b] = flash[b]
    <3>1. Apart(s, h)
      BY <1>2, <1>3, <1>5, <1>14, <2>2 DEF Past
    <3>2. Writing(s)
      BY <2>2 DEF Writing
    <3>3. b # c
      BY <1>1, <1>2, <1>5, <1>8, <2>1, <2>2, <3>1, <3>2, NotOver DEF c
    <3>4. QED BY <1>10, <3>3
  <2>3. s.op = "copy" => s.at \in Nat /\ s.n \in Nat
    BY <2>1, BurnAssumption DEF AnyStep
  <2>4. ASSUME s.op = "copy", NEW k \in 0..(s.n - 1), s.at + k \in Blocks
        PROVE  flash'[s.at + k] = flash[s.at + k]
    <3>1. s.at <= s.at + k /\ s.at + k < s.at + s.n
      BY <2>3, <2>4
    <3>2. QED BY <2>2, <2>4, <3>1
  <2>5. s.op = "copy" /\ There(s) => There(s)'
    BY <1>1, <2>4 DEF There, IsAt, Blocks
  <2>6. s.op = "copy" /\ Partly(s) => Partly(s)'
    BY <1>1, <2>4 DEF Partly, Blocks
  <2>7. QED BY <2>5, <2>6
<1>15. ~NoCopies(List)
  <2>1. h \in Range(List)
    BY <1>2, <1>3 DEF Range
  <2>2. QED BY <1>1, <2>1 DEF NoCopies
<1>16. Past'
  BY <1>1, <1>3, <1>4, <1>14, <1>15 DEF Past
<1>17. Progress'
  BY <1>1, <1>3, <1>4, <1>12, <1>13, <1>16 DEF Progress
<1>18. QED BY <1>9, <1>17 DEF x, c

\* Outside the start of a run, the burn that goes on can only end, pass on to the next, or
\* go on.
LEMMA GoesOn ==
  ASSUME Typed, Next, ~(\E p \in Packages : Start(p))
  PROVE  /\ now # -1 /\ now \in Nat /\ pkg' = pkg /\ run' = run /\ now' \in {-1, now, now + 1}
         /\ pkg \in Packages /\ Burnable(pkg, now)
         /\ lapses' \subseteq lapses \cup {now} /\ burned' \subseteq burned \cup {now}
<1>1. /\ now # -1 /\ pkg' = pkg /\ run' = run /\ now' \in {-1, now, now + 1}
      /\ lapses' \subseteq lapses \cup {now} /\ burned' \subseteq burned \cup {now}
  <2>1. CASE Stops
    BY <2>1 DEF Stops
  <2>2. CASE Passes
    BY <2>2 DEF Passes, Returns
  <2>3. CASE Shifts
    BY <2>3 DEF Shifts
  <2>4. CASE EraseBlock
    BY <2>4 DEF EraseBlock, Op
  <2>5. CASE CopyBlock
    BY <2>5 DEF CopyBlock, Op
  <2>6. QED BY <2>1, <2>2, <2>3, <2>4, <2>5, StepIs
<1>2. pkg \in Packages /\ Burnable(pkg, now)
  BY <1>1 DEF Typed, TypeOK
<1>3. now \in Nat
  BY <1>2, PackageIs DEF Burnable
<1>4. QED BY <1>1, <1>2, <1>3

LEMMA OwnNext ==
  ASSUME Typed, Fits(pkg), Own, Next, ~(\E p \in Packages : Start(p))
  PROVE  Own'
<1>1. /\ now # -1 /\ now \in Nat /\ pkg' = pkg /\ run' = run /\ now' \in {-1, now, now + 1}
      /\ pkg \in Packages /\ Burnable(pkg, now)
  BY GoesOn
<1>2. SUFFICES ASSUME NEW b \in Blocks, NEW i \in 1..Len(pkg.images),
                      now' # -1, now' <= i, flash'[b][1] = Name(i), flash'[b][4] = run
               PROVE  i = now' /\ First(pkg, i) <= b /\ b < Behind(pkg, i)
  BY <1>1 DEF Own, Blocks
<1>3. i \in Nat /\ now <= i
  BY <1>1, <1>2, PackageIs
<1>4. CASE now' = now /\ flash'[b] = flash[b]
  BY <1>1, <1>2, <1>3, <1>4 DEF Own
<1>5. CASE now' = now /\ flash'[b] # flash[b]
  <2>1. todo[1].op = "copy" /\ flash'[b] = Cell(todo[1].name, done, todo[1].n, run)
    BY <1>2, <1>3, <1>5, NewBlock, CellIs
  <2>2. todo[1].name = Name(i)
    BY <1>2, <2>1, CellIs
  <2>3. todo # <<>> /\ First(pkg, now) <= b /\ b < Behind(pkg, now)
    BY <1>1, <1>5, OneBlock, OwnBlock, Within
  <2>4. todo[1] \in Allowed(pkg, now)
    BY <1>1, <2>1, <2>3, HeadIs
  <2>5. i = now
    BY <1>1, <1>3, <2>1, <2>2, <2>4, Within, CellIs
  <2>6. QED BY <1>5, <2>3, <2>5
<1>6. CASE now' # now
  <2>1. Passes
    <3>1. ~EraseBlock /\ ~CopyBlock /\ ~Shifts /\ ~Stops
      BY <1>2, <1>6 DEF EraseBlock, CopyBlock, Shifts, Stops
    <3>2. QED BY <3>1, StepIs
  <2>2. flash' = flash /\ now' = now + 1
    BY <1>1, <1>2, <1>6, <2>1 DEF Passes
  <2>3. i = now
    BY <1>1, <1>2, <1>3, <2>2 DEF Own
  <2>4. QED BY <1>1, <1>2, <2>2, <2>3
<1>7. QED BY <1>4, <1>5, <1>6

\* At the end of a list all of it is in the flash.
LEMMA WholeNow ==
  ASSUME Typed, Progress, now # -1, todo = <<>>
  PROVE  Complete(now)
<1>1. Range(todo) = {}
  BY RangesAre
<1>2. Past /\ Gone = Range(List)
  BY <1>1 DEF Progress, Gone
<1>3. QED BY <1>1, <1>2 DEF Past, Complete, List

LEMMA KeptNext ==
  ASSUME Typed, Fits(pkg), Progress, Kept, Next, ~(\E p \in Packages : Start(p))
  PROVE  Kept'
<1>1. /\ now # -1 /\ now \in Nat /\ pkg' = pkg /\ run' = run /\ now' \in {-1, now, now + 1}
      /\ pkg \in Packages /\ Burnable(pkg, now) /\ lapses' \subseteq lapses \cup {now} /\ burned' \subseteq burned \cup {now}
  BY GoesOn
<1>2. lapses \subseteq lapses'
  BY StepIs, <1>1 DEF Stops, Passes, Shifts, EraseBlock, CopyBlock
<1>3. ASSUME NEW i \in burned
      PROVE  Burnable(pkg, i) /\ (now' = -1 \/ i < now') /\ (Complete(i)' \/ Spared(i)')
  <2>1. Burnable(pkg, i) /\ i < now /\ (Complete(i) \/ Spared(i))
    BY <1>1 DEF Kept
  <2>2. i \in Nat /\ i # now
    BY <1>1, <2>1, PackageIs DEF Burnable
  <2>3. now' = -1 \/ i < now'
    BY <1>1, <2>1, <2>2
  <2>4. i \in lapses' <=> i \in lapses
    BY <1>1, <1>2, <2>2
  <2>5. Spared(i) => Spared(i)'
    BY <1>1, <2>4 DEF Spared
  <2>6. Complete(i) => Complete(i)'
    BY <1>1, <2>1, <2>2, <2>4, CompleteStays
  <2>7. QED BY <2>1, <2>3, <2>5, <2>6
<1>4. ASSUME NEW i \in burned', i \notin burned
      PROVE  i = now /\ (now' = -1 \/ i < now') /\ (Complete(i)' \/ Spared(i)')
  <2>1. Passes /\ i = now
    <3>1. burned' # burned /\ i = now
      BY <1>1, <1>4
    <3>2. QED BY <1>1, <3>1, StepIs DEF Stops, Shifts, EraseBlock, CopyBlock
  <2>2. now' = -1 \/ i < now'
    BY <1>1, <2>1 DEF Passes, Returns
  <2>3. CASE todo = <<>> /\ lapses' = lapses
    <3>1. Complete(i) /\ flash' = flash
      BY <1>1, <2>1, <2>3, WholeNow DEF Passes
    <3>2. \A s : There(s)' = There(s) /\ Empty(s)' = Empty(s)
      BY <1>1, <3>1 DEF There, Empty, IsAt, Blocks
    <3>3. Steps(pkg', i) = Steps(pkg, i)
      BY <1>1
    <3>4. Complete(i)'
      BY <1>1, <2>3, <3>1, <3>2, <3>3 DEF Complete
    <3>5. QED BY <2>1, <2>2, <3>4
  <2>4. CASE now # 0 /\ MayEnd(pkg.images[now], "return") /\ lapses' = lapses
    BY <1>1, <2>1, <2>2, <2>4 DEF Spared
  <2>5. CASE now # 0 /\ MayEnd(pkg.images[now], "tools") /\ lapses' = lapses \cup {now}
    BY <1>1, <2>1, <2>2, <2>5 DEF Spared
  <2>6. QED BY <2>1, <2>3, <2>4, <2>5 DEF Passes
<1>5. QED BY <1>1, <1>3, <1>4 DEF Kept

LEMMA IInvInit == Init => IInv
<1> SUFFICES ASSUME Init PROVE IInv
  OBVIOUS
<1>1. now = -1 /\ burned = {}
  BY DEF Init
<1>2. Own /\ Progress /\ Kept
  BY <1>1 DEF Own, Progress, Kept
<1>3. QED BY <1>2, TypedInit, DatedInit, BegunInit DEF IInv

LEMMA IInvNext == IInv /\ [Next]_vars => IInv'
<1> SUFFICES ASSUME IInv, [Next]_vars PROVE IInv'
  OBVIOUS
<1>1. Typed /\ Dated /\ Begun /\ Typed' /\ Dated' /\ Begun'
  BY TypedNext, DatedNext, BegunNext DEF IInv
<1>2. CASE UNCHANGED vars
  <2>1. /\ pkg' = pkg /\ run' = run /\ now' = now /\ todo' = todo /\ done' = done /\ flash' = flash
        /\ burned' = burned /\ lapses' = lapses
    BY <1>2 DEF vars
  <2>2. List' = List /\ Gone' = Gone
    BY <2>1 DEF List, Gone
  <2>3. \A s : There(s)' = There(s) /\ Partly(s)' = Partly(s) /\ Empty(s)' = Empty(s)
    BY <2>1 DEF There, Partly, Empty, IsAt, Blocks
  <2>4. \A i : Complete(i)' = Complete(i) /\ Spared(i)' = Spared(i)
    BY <2>1, <2>3 DEF Complete, Spared
  <2>5. Own => Own'
    BY <2>1 DEF Own, Blocks
  <2>6. Kept => Kept'
    BY <2>1, <2>4 DEF Kept
  <2>7. (Ahead => Ahead') /\ (Halfway => Halfway')
    BY <2>1 DEF Ahead, Halfway, Blocks
  <2>8. Past => Past'
    BY <2>1, <2>2, <2>3 DEF Past
  <2>9. Progress => Progress'
    BY <2>1, <2>2, <2>7, <2>8 DEF Progress
  <2>10. QED BY <1>1, <2>1, <2>5, <2>6, <2>9 DEF IInv
<1>3. ASSUME NEW p \in Packages, Start(p), Fits(pkg')
      PROVE  Own' /\ Progress' /\ Kept'
  <2>1. /\ pkg' = p /\ run' = run + 1 /\ todo' = Steps(p, now') /\ done' = 0 /\ burned' = {} /\ flash' = flash
        /\ now' \in {0, 1} /\ now' # -1
    BY <1>3 DEF Start
  <2>2. Burnable(pkg', now')
    BY <1>1, <2>1 DEF Typed
  <2>3. Own'
    <3>1. \A b \in Blocks : flash'[b][4] # run'
      <4>1. run \in Nat
        BY <1>1, BurnAssumption DEF Typed, TypeOK
      <4>2. QED BY <1>1, <2>1, <4>1 DEF Dated
    <3>2. QED BY <3>1 DEF Own, Blocks
  <2>4. Progress'
    BY <1>3, <2>1, <2>2, Begins
  <2>5. Kept'
    BY <2>1 DEF Kept
  <2>6. QED BY <2>3, <2>4, <2>5
<1>4. ASSUME Next, ~(\E p \in Packages : Start(p)), Fits(pkg')
      PROVE  Own' /\ Progress' /\ Kept'
  <2>1. /\ now # -1 /\ now \in Nat /\ pkg' = pkg /\ pkg \in Packages /\ now' \in {-1, now, now + 1}
    BY <1>1, <1>4, GoesOn
  <2>2. Fits(pkg) /\ Own /\ Progress /\ Kept
    BY <1>4, <2>1 DEF IInv
  <2>3. Own' /\ Kept'
    BY <1>1, <1>4, <2>2, OwnNext, KeptNext
  <2>4. Progress'
    <3>1. CASE Stops
      BY <3>1 DEF Stops, Progress
    <3>2. CASE Passes
      <4>1. CASE now' = -1
        BY <4>1 DEF Progress
      <4>2. CASE now' # -1
        <5>1. now' = now + 1 /\ todo' = Steps(pkg, now + 1) /\ done' = 0
          BY <2>1, <3>2, <4>2 DEF Passes, Returns
        <5>2. Burnable(pkg', now')
          BY <1>1, <4>2 DEF Typed
        <5>3. QED BY <1>4, <2>1, <4>2, <5>1, <5>2, Begins
      <4>3. QED BY <4>1, <4>2
    <3>3. CASE Shifts
      BY <1>1, <2>2, <3>3, Shifted
    <3>4. CASE EraseBlock
      BY <1>1, <2>2, <3>4, ErasedOne
    <3>5. CASE CopyBlock
      BY <1>1, <2>2, <3>5, CopiedOne
    <3>6. QED BY <1>1, <1>4, <3>1, <3>2, <3>3, <3>4, <3>5, StepIs
  <2>5. QED BY <2>3, <2>4
<1>5. CASE Next
  BY <1>1, <1>3, <1>4, <1>5 DEF IInv
<1>6. QED BY <1>2, <1>5

\* What the invariant says of the boot code, and of an image.
LEMMA BootThere ==
  ASSUME IInv, Fits(pkg), 0 \in burned
  PROVE  BootIsWhole(pkg)
<1>1. pkg \in Packages /\ Burnable(pkg, 0) /\ Complete(0) /\ 0 \notin lapses
  BY DEF IInv, Typed, TypeOK, Kept, Spared, Begun
<1> DEFINE L == BurnBoot(pkg)
           hw == pkg.boot.hw
           n  == pkg.boot.boot
<1>2. Steps(pkg, 0) = L /\ BootCopies(pkg, L)
  BY <1>1, BootLists DEF Steps, Burnable
<1>3. \A name, at, k : HasCopy(L, name, at, k) => IsAt(name, at, k, run)
  <2>1. \A s \in Range(L) : s.op = "copy" => There(s)
    BY <1>1, <1>2 DEF Complete
  <2>2. QED BY <2>1 DEF HasCopy, There
<1>4. hw \in Nat /\ n \in Nat /\ pkg.flash \in {"nand", "nor", "emmc"} /\ pkg.boot.rescue \in Nat
  BY <1>1, PackageIs
<1> HIDE DEF L
<1>5. CASE pkg.flash = "nand"
  <2>1. \A c \in {0, 1, 2, 3} : IsAt(Part("hw"), 1 + c * hw, hw, run) /\ IsAt(Part("boot"), 1 + 4 * hw + c * n, n, run)
    BY <1>2, <1>3, <1>5 DEF BootCopies
  <2>2. HwStart = 1 /\ Copies = 4 /\ 0..(Copies - 1) = {0, 1, 2, 3}
    BY DEF HwStart, Copies
  <2>3. QED BY <1>5, <2>1, <2>2 DEF BootIsWhole
<1>6. CASE pkg.flash = "emmc"
  <2>1. IsAt(Part("hw"), 1, hw, run) /\ IsAt(Part("boot"), 1 + hw, n, run)
    BY <1>2, <1>3, <1>6 DEF BootCopies
  <2>2. QED BY <1>6, <2>1 DEF BootIsWhole, HwStart
<1>7. CASE pkg.flash = "nor"
  <2>1. /\ pkg.big \/ IsAt(Part("reset"), 0, 1, run)
        /\ IsAt(Part("hw"), 1, hw, run) /\ IsAt(Part("boot"), 1 + hw, n, run)
        /\ pkg.protect /\ pkg.boot.rescue # 0 => IsAt(Part("rescue"), 1 + hw + n, pkg.boot.rescue, run)
    BY <1>2, <1>3, <1>7 DEF BootCopies
  <2>2. pkg.boot.rescue = 0 => IsAt(Part("rescue"), 1 + hw + n, pkg.boot.rescue, run)
    BY DEF IsAt
  <2>3. QED BY <1>7, <2>1, <2>2 DEF BootIsWhole, HwStart
<1>8. QED BY <1>4, <1>5, <1>6, <1>7

LEMMA ImageThere ==
  ASSUME IInv, Fits(pkg), NEW i \in burned \ {0}
  PROVE  LET m == pkg.images[i] IN
         /\ Writes(pkg, m) /\ ~CutOff(pkg, m)
            /\ (i \in lapses => m.kind \in {"raw", "squash"} /\ pkg.verify)
            => IsAt(Name(i), m.at, Content(pkg, m), run)
         /\ m.kind \in {"yaffs", "ubifs"} /\ m.file = "none" /\ i \notin lapses
            => \A b \in Area(m.at, m.alloc) : flash[b] = Erased
<1> DEFINE m == pkg.images[i]
           L == BurnPart(pkg, m, Name(i))
<1>1. pkg \in Packages /\ Burnable(pkg, i) /\ (Complete(i) \/ Spared(i))
  BY DEF IInv, Typed, TypeOK, Kept
<1>2. i \in 1..Len(pkg.images) /\ FlashSize \in Nat
  BY <1>1, PackageIs DEF Burnable
<1>3. Steps(pkg, i) = L
  BY <1>2 DEF Steps
<1>4. /\ Delivers(pkg, m, Name(i), L)
      /\ m.kind \in {"yaffs", "ubifs"} /\ m.file = "none" => NoCopies(L) /\ (m.alloc = 0 \/ Erase(m.at, m.alloc) \in Range(L))
  <2>1. ~Overruns(pkg, m)
    BY <1>2 DEF Fits
  <2>2. QED BY <1>1, <1>2, <2>1, ImageLists
<1>5. m.kind \in Kinds /\ m.at \in Nat /\ m.alloc \in Nat /\ m.at + m.alloc <= FlashSize /\ (m.kind = "ext4" => pkg.flash = "emmc")
  <2>1. m.kind \in Kinds /\ m.at \in 0..FlashSize /\ m.alloc \in 0..FlashSize /\ m.at + m.alloc <= FlashSize
        /\ (m.kind = "ext4" => pkg.flash = "emmc")
    BY <1>1, <1>2, ImageIs
  <2>2. QED BY <1>2, <2>1
<1>6. i \in lapses /\ m.kind \in {"raw", "squash"} => pkg.flash = "nand"
  BY DEF IInv, Begun, MayEnd, MayLapse
<1>7. ASSUME Writes(pkg, m), ~CutOff(pkg, m), i \in lapses => m.kind \in {"raw", "squash"} /\ pkg.verify
      PROVE  IsAt(Name(i), m.at, Content(pkg, m), run)
  <2>1. ~Spared(i)
    BY <1>7 DEF Spared, MayEnd, Writes
  <2>2. /\ \A s \in Range(L) : s.op # "return"
        /\ \A s \in Range(L) : s.op = "copy" => There(s)
    BY <1>1, <1>3, <1>6, <1>7, <2>1 DEF Complete
  <2>3. HasCopy(L, Name(i), m.at, Content(pkg, m))
    BY <1>4, <1>7, <2>2 DEF Delivers, HasReturn
  <2>4. QED BY <2>2, <2>3 DEF HasCopy, There
<1>8. ASSUME m.kind \in {"yaffs", "ubifs"}, m.file = "none", i \notin lapses, NEW b \in Area(m.at, m.alloc)
      PROVE  flash[b] = Erased
  <2>1. Complete(i)
    BY <1>1, <1>8 DEF Spared, MayEnd
  <2>2. b \in Int /\ m.at <= b /\ b < m.at + m.alloc /\ m.alloc # 0
    BY <1>5, <1>8 DEF Area
  <2>3. b \in Blocks
    BY <1>2, <1>5, <2>2 DEF Blocks
  <2> DEFINE x == Erase(m.at, m.alloc)
  <2>4. x.op = "erase" /\ x.at = m.at /\ x.n = m.alloc
    BY DEF Erase
  <2>5. x \in Range(L) /\ NoCopies(L)
    BY <1>4, <1>8, <2>2
  <2> HIDE DEF x
  <2>6. Empty(x)
    BY <1>3, <1>8, <2>1, <2>4, <2>5 DEF Complete
  <2>7. QED BY <2>2, <2>3, <2>4, <2>6 DEF Empty
<1>9. QED BY <1>7, <1>8

\* If the boot code and all images of the package fit, an image that was reported as
\* burned is whole where the layout has put it, in spite of other burns, failures and
\* power cuts in between, and an empty partition is erased: unless its source has ended
\* early, which only a verified firmware notices.
THEOREM BurnedWhole == Spec => []BurnedIsWhole
<1>1. IInv => BurnedIsWhole
  BY BootThere, ImageThere DEF BurnedIsWhole
<1>2. QED BY <1>1, IInvInit, IInvNext, PTL DEF Spec

-----------------------------------------------------------------------------
(* The copies of the boot code on NAND.                                      *)

Sides == {"hw", "boot"}
Turns == {0, 1, 2, 3}

\* Where copy c of a part begins, of a boot code of the sizes s, and its blocks.
Place(s, x, c) == IF x = "hw" THEN 1 + c * s[1] ELSE 1 + 4 * s[1] + c * s[2]
Much(s, x)     == IF x = "hw" THEN s[1] ELSE s[2]
Ending(s)      == 1 + 4 * s[1] + 4 * s[2]

\* It is whole, in any installation.
Intact(s, x, c) == \E g \in 0..run : IsAt(Part(x), Place(s, x, c), Much(s, x), g)

\* It is being erased or written.
Busy(s, x, c) == now = 0 /\ todo # <<>> /\ Writing(todo[1]) /\ todo[1].at = Place(s, x, c)

\* The sizes of the boot codes that were begun since the last that was whole.
SizesOn(f) == {BootSizes(p) : p \in {q \in Packages : q.flash = f}}
Spare == IF now = 0 THEN 2 ELSE 1
Same  == \A i \in 1..Len(sizes) : sizes[i] = sizes[1]

Sized ==
  /\ sizes \in Seq(SizesOn(pkg.flash)) /\ Len(sizes) >= Spare
  /\ now = 0 => sizes[Len(sizes)] = BootSizes(pkg)

\* Of a part, all but k copies are whole, or are being written.
AllBut(k, s, x) ==
  \E lost \in [1..k -> Turns] : \A c \in Turns : (\E i \in 1..k : lost[i] = c) \/ Intact(s, x, c) \/ Busy(s, x, c)

\* While the sizes stay, every burn that was cut short has cost one copy at most.
Backed ==
  \A s : \A k \in Nat, x \in Sides :
    pkg.flash = "nand" /\ Same /\ sizes[1] = s /\ Len(sizes) = k + Spare => AllBut(k, s, x)

\* The burn of a boot code of the sizes s: every copy is erased right before it is
\* written, one after the other.
Paired(L) ==
  \A j \in DOMAIN L : L[j].op = "erase" =>
    j + 1 \in DOMAIN L /\ L[j + 1].op = "copy" /\ L[j + 1].at = L[j].at /\ L[j + 1].n = L[j].n
Sorted(L) ==
  \A i, j \in DOMAIN L : i < j /\ Writing(L[i]) /\ Writing(L[j]) => L[i].at + L[i].n <= L[j].at + L[j].n
Placed(s, L) ==
  \A j \in DOMAIN L : Writing(L[j]) =>
    \E x \in Sides, c \in Turns :
      L[j].at = Place(s, x, c) /\ L[j].n = Much(s, x) /\ (L[j].op = "copy" => L[j].name = Part(x))
Ordered(s, L) == Paired(L) /\ Sorted(L) /\ Placed(s, L)

Orderly == \A s, L : pkg.flash = "nand" /\ now = 0 /\ todo = L /\ s = BootSizes(pkg) => Ordered(s, L)

\* The first copy of a part is still to be written.
Due(s, x) == \E j \in DOMAIN todo : todo[j].op = "copy" /\ todo[j].at = Place(s, x, 0)

\* When the sizes have changed, the last copy of the old boot code is whole until the
\* first of the new one is.
Resized ==
  \A old, new : \A x \in Sides :
    pkg.flash = "nand" /\ Len(sizes) = 2 /\ sizes[1] = old /\ sizes[2] = new /\ Follow(old, new) =>
      IF now = 0
        THEN (Due(new, x) => Intact(old, x, 3)) /\ (~Due(new, x) => Intact(new, x, 0))
        ELSE Intact(old, x, 3) \/ Intact(new, x, 0)

-----------------------------------------------------------------------------

Twice(s) == s[1] \in Nat \ {0} /\ s[2] \in Nat \ {0}

\* The product with the number of a copy.
LEMMA TimesIs ==
  ASSUME NEW n \in Nat, NEW c \in Turns
  PROVE  /\ c * n \in Nat
         /\ (c = 0 /\ c * n = 0) \/ (c = 1 /\ c * n = n) \/ (c = 2 /\ c * n = 2 * n) \/ (c = 3 /\ c * n = 3 * n)
BY DEF Turns

\* Where a copy is, and that it ends before the parts do.
LEMMA PlaceIs ==
  ASSUME NEW s, Twice(s), NEW x \in Sides, NEW c \in Turns
  PROVE  /\ Place(s, x, c) \in Nat /\ Much(s, x) \in Nat \ {0} /\ Ending(s) \in Nat
         /\ 1 <= Place(s, x, c) /\ Place(s, x, c) + Much(s, x) <= Ending(s)
<1>1. s[1] \in Nat /\ s[2] \in Nat /\ s[1] # 0 /\ s[2] # 0
  BY DEF Twice
<1>2. CASE x = "hw"
  <2> DEFINE a == s[1] b == s[2] m == c * a
  <2>1. a \in Nat /\ b \in Nat /\ a # 0 /\ m \in Nat /\ m <= 3 * a
    BY <1>1, TimesIs
  <2>2. Place(s, x, c) = 1 + m /\ Much(s, x) = a /\ Ending(s) = 1 + 4 * a + 4 * b
    BY <1>2 DEF Place, Much, Ending
  <2> HIDE DEF a, b, m
  <2>3. QED BY <2>1, <2>2
<1>3. CASE x = "boot"
  <2> DEFINE a == s[1] b == s[2] m == c * b
  <2>1. a \in Nat /\ b \in Nat /\ b # 0 /\ m \in Nat /\ m <= 3 * b
    BY <1>1, TimesIs
  <2>2. Place(s, x, c) = 1 + 4 * a + m /\ Much(s, x) = b /\ Ending(s) = 1 + 4 * a + 4 * b
    BY <1>3 DEF Place, Much, Ending
  <2> HIDE DEF a, b, m
  <2>3. QED BY <2>1, <2>2
<1>4. QED BY <1>2, <1>3 DEF Sides

\* Two copies have no block in common.
LEMMA PlacesApart ==
  ASSUME NEW s, Twice(s), NEW x \in Sides, NEW y \in Sides, NEW c \in Turns, NEW d \in Turns, x # y \/ c # d
  PROVE  /\ \/ Place(s, x, c) + Much(s, x) <= Place(s, y, d)
            \/ Place(s, y, d) + Much(s, y) <= Place(s, x, c)
         /\ Place(s, x, c) # Place(s, y, d)
<1>1. s[1] \in Nat /\ s[2] \in Nat /\ s[1] # 0 /\ s[2] # 0
  BY DEF Twice
<1>2. ASSUME NEW n \in Nat, n # 0, c # d
      PROVE  c * n + n <= d * n \/ d * n + n <= c * n
  BY <1>2 DEF Turns
<1>3. CASE x = "hw" /\ y = "hw"
  <2> DEFINE a == s[1] m == c * a k == d * a
  <2>1. a \in Nat /\ a # 0 /\ m \in Nat /\ k \in Nat /\ (m + a <= k \/ k + a <= m)
    BY <1>1, <1>2, <1>3, TimesIs
  <2>2. Place(s, x, c) = 1 + m /\ Place(s, y, d) = 1 + k /\ Much(s, x) = a /\ Much(s, y) = a
    BY <1>3 DEF Place, Much
  <2> HIDE DEF a, m, k
  <2>3. QED BY <2>1, <2>2
<1>4. CASE x = "boot" /\ y = "boot"
  <2> DEFINE a == s[2] m == c * a k == d * a b == s[1]
  <2>1. a \in Nat /\ a # 0 /\ m \in Nat /\ k \in Nat /\ b \in Nat /\ (m + a <= k \/ k + a <= m)
    BY <1>1, <1>2, <1>4, TimesIs
  <2>2. Place(s, x, c) = 1 + 4 * b + m /\ Place(s, y, d) = 1 + 4 * b + k /\ Much(s, x) = a /\ Much(s, y) = a
    BY <1>4 DEF Place, Much
  <2> HIDE DEF a, m, k, b
  <2>3. QED BY <2>1, <2>2
<1>5. ASSUME NEW e \in Turns, NEW f \in Turns
      PROVE  Place(s, "hw", e) + Much(s, "hw") <= Place(s, "boot", f) /\ Place(s, "hw", e) # Place(s, "boot", f)
  <2> DEFINE a == s[1] b == s[2] m == e * a k == f * b
  <2>0. a \in Nat /\ a # 0 /\ b \in Nat
    BY <1>1
  <2>1. m \in Nat /\ k \in Nat /\ m <= 3 * a
    <3>1. \A n \in Nat : e * n \in Nat /\ e * n <= 3 * n /\ f * n \in Nat
      BY DEF Turns
    <3>2. QED BY <2>0, <3>1
  <2>2. Place(s, "hw", e) = 1 + m /\ Place(s, "boot", f) = 1 + 4 * a + k /\ Much(s, "hw") = a
    BY DEF Place, Much
  <2> HIDE DEF a, m, k, b
  <2>3. QED BY <2>0, <2>1, <2>2
<1>6. CASE x = "hw" /\ y = "boot"
  BY <1>5, <1>6
<1>7. CASE x = "boot" /\ y = "hw"
  BY <1>5, <1>7
<1>8. QED BY <1>3, <1>4, <1>6, <1>7 DEF Sides

\* The sizes of a package, and what NandFits says of them.
LEMMA SizesAre ==
  ASSUME NEW p \in Packages
  PROVE  /\ Twice(BootSizes(p)) /\ BootSizes(p) \in SizesOn(p.flash)
         /\ BootSizes(p)[1] = p.boot.hw /\ BootSizes(p)[2] = p.boot.boot
<1>1. p.boot.hw \in Nat \ {0} /\ p.boot.boot \in Nat \ {0}
  BY PackageIs
<1>2. BootSizes(p)[1] = p.boot.hw /\ BootSizes(p)[2] = p.boot.boot
  BY DEF BootSizes
<1>3. BootSizes(p) \in SizesOn(p.flash)
  BY DEF SizesOn
<1>4. QED BY <1>1, <1>2, <1>3 DEF Twice

\* Boot codes that were burned fit as well.
LEMMA SizesFit ==
  ASSUME NandFits, NEW s \in SizesOn("nand"), NEW q \in Packages, q.flash = "nand"
  PROVE  Twice(s) /\ Ending(s) <= q.boot.reserved /\ Fits(q) /\ q.boot.reserved \in Nat /\ Ending(s) \in Nat
<1>1. PICK p \in Packages : p.flash = "nand" /\ s = BootSizes(p)
  BY DEF SizesOn
<1>2. Twice(s) /\ s[1] = p.boot.hw /\ s[2] = p.boot.boot
  BY <1>1, SizesAre
<1>3. BootEnd(p) = 1 + 4 * (s[1] + s[2])
  BY <1>1, <1>2 DEF BootEnd, HwStart, Copies
<1>4. BootEnd(p) <= q.boot.reserved /\ Fits(q)
  BY <1>1 DEF NandFits
<1>5. s[1] \in Nat /\ s[2] \in Nat /\ q.boot.reserved \in Nat
  BY <1>2, PackageIs DEF Twice
<1>6. 1 + 4 * (s[1] + s[2]) = Ending(s)
  BY <1>5 DEF Ending
<1>7. Ending(s) \in Nat
  BY <1>5 DEF Ending
<1>8. QED BY <1>2, <1>3, <1>4, <1>5, <1>6, <1>7

-----------------------------------------------------------------------------

\* Such steps, all between two blocks.
Runs(s, L, a, b) ==
  /\ L \in Seq(AnyStep) /\ Ordered(s, L)
  /\ \A x \in Range(L) : Writing(x) => a <= x.at /\ x.at + x.n <= b

\* Only erasing and copying is Writing.
LEMMA WritingIs ==
  ASSUME NEW x \in AnyStep, Writing(x)
  PROVE  x.at \in Nat /\ x.n \in Nat
<1>1. x.op \in {"erase", "copy"} /\ FlashSize \in Nat
  BY BurnAssumption DEF Writing
<1>2. QED BY <1>1 DEF AnyStep

\* Two lists that write behind each other, put together.
LEMMA RunsJoin ==
  ASSUME NEW p, NEW a \in Nat, NEW b \in Nat, NEW c \in Nat, a <= b, b <= c,
         NEW s, NEW t, Runs(p, s, a, b), Runs(p, t, b, c)
  PROVE  Runs(p, s \o t, a, c)
<1> DEFINE u == s \o t
<1>1. s \in Seq(AnyStep) /\ t \in Seq(AnyStep) /\ u \in Seq(AnyStep)
  BY SeqsAre DEF Runs
<1>2. PICK m \in Nat, n \in Nat : Joins(u, s, m, t, n)
  BY <1>1, JoinsAre
<1>3. Range(u) = Range(s) \cup Range(t)
  BY <1>1, RangesAre
<1> HIDE DEF u
<1>4. /\ DOMAIN u = 1..(m + n) /\ DOMAIN s = 1..m /\ DOMAIN t = 1..n
      /\ \A i \in 1..m : u[i] = s[i]
      /\ \A i \in 1..n : u[m + i] = t[i]
  BY <1>2 DEF Joins
<1>5. \A j \in 1..(m + n) : j \in 1..m \/ \E i \in 1..n : j = m + i
  <2> SUFFICES ASSUME NEW j \in 1..(m + n), ~(j \in 1..m) PROVE \E i \in 1..n : j = m + i
    OBVIOUS
  <2>1. j - m \in 1..n /\ j = m + (j - m)
    OBVIOUS
  <2>2. QED BY <2>1
<1>6. /\ \A j \in 1..m : s[j] \in AnyStep /\ (Writing(s[j]) => a <= s[j].at /\ s[j].at + s[j].n <= b)
      /\ \A j \in 1..n : t[j] \in AnyStep /\ (Writing(t[j]) => b <= t[j].at /\ t[j].at + t[j].n <= c)
  <2>1. /\ \A j \in 1..m : s[j] \in AnyStep /\ s[j] \in Range(s)
        /\ \A j \in 1..n : t[j] \in AnyStep /\ t[j] \in Range(t)
    <3>1. \A r \in Seq(AnyStep) : \A j \in DOMAIN r : r[j] \in AnyStep /\ r[j] \in Range(r)
      BY DEF Range
    <3>2. QED BY <1>1, <1>4, <3>1
  <2>2. QED BY <2>1 DEF Runs
<1>7. Paired(u)
  <2> SUFFICES ASSUME NEW j \in 1..(m + n), u[j].op = "erase"
               PROVE  j + 1 \in 1..(m + n) /\ u[j + 1].op = "copy" /\ u[j + 1].at = u[j].at /\ u[j + 1].n = u[j].n
    BY <1>4 DEF Paired
  <2>1. CASE j \in 1..m
    <3>1. u[j] = s[j] /\ Paired(s)
      BY <1>4, <2>1 DEF Runs, Ordered
    <3>2. j + 1 \in 1..m /\ s[j + 1].op = "copy" /\ s[j + 1].at = s[j].at /\ s[j + 1].n = s[j].n
      BY <1>4, <2>1, <3>1 DEF Paired
    <3>3. u[j + 1] = s[j + 1] /\ j + 1 \in 1..(m + n)
      BY <1>4, <3>2
    <3>4. QED BY <3>1, <3>2, <3>3
  <2>2. ASSUME NEW i \in 1..n, j = m + i
        PROVE  j + 1 \in 1..(m + n) /\ u[j + 1].op = "copy" /\ u[j + 1].at = u[j].at /\ u[j + 1].n = u[j].n
    <3>1. u[j] = t[i] /\ Paired(t)
      BY <1>4, <2>2 DEF Runs, Ordered
    <3>2. i + 1 \in 1..n /\ t[i + 1].op = "copy" /\ t[i + 1].at = t[i].at /\ t[i + 1].n = t[i].n
      BY <1>4, <2>2, <3>1 DEF Paired
    <3>3. j + 1 = m + (i + 1) /\ j + 1 \in 1..(m + n)
      BY <2>2, <3>2
    <3>4. u[j + 1] = t[i + 1]
      BY <1>4, <3>2, <3>3
    <3>5. QED BY <3>1, <3>2, <3>3, <3>4
  <2>3. QED BY <1>5, <2>1, <2>2
<1>8. Sorted(u)
  <2> SUFFICES ASSUME NEW j \in 1..(m + n), NEW k \in 1..(m + n), j < k, Writing(u[j]), Writing(u[k])
               PROVE  u[j].at + u[j].n <= u[k].at + u[k].n
    BY <1>4 DEF Sorted
  <2>1. CASE j \in 1..m /\ k \in 1..m
    <3>1. Sorted(s) /\ u[j] = s[j] /\ u[k] = s[k]
      BY <1>4, <2>1 DEF Runs, Ordered
    <3>2. QED BY <1>4, <2>1, <3>1 DEF Sorted
  <2>2. ASSUME NEW i \in 1..n, k = m + i, j \in 1..m
        PROVE  u[j].at + u[j].n <= u[k].at + u[k].n
    <3>1. u[j] = s[j] /\ u[k] = t[i]
      BY <1>4, <2>2
    <3>2. u[j].at \in Nat /\ u[j].n \in Nat /\ u[k].at \in Nat /\ u[k].n \in Nat
      BY <1>6, <2>2, <3>1, WritingIs
    <3>3. u[j].at + u[j].n <= b /\ b <= u[k].at
      BY <1>6, <2>2, <3>1
    <3>4. QED BY <3>2, <3>3
  <2>3. ASSUME NEW i \in 1..n, NEW h \in 1..n, j = m + h, k = m + i
        PROVE  u[j].at + u[j].n <= u[k].at + u[k].n
    <3>1. u[j] = t[h] /\ u[k] = t[i] /\ h < i /\ Sorted(t)
      BY <1>4, <2>3 DEF Runs, Ordered
    <3>2. QED BY <1>4, <2>3, <3>1 DEF Sorted
  <2>4. ASSUME NEW h \in 1..n, j = m + h PROVE ~(k \in 1..m)
    BY <2>4
  <2>5. QED BY <1>5, <2>1, <2>2, <2>3, <2>4
<1>9. Placed(p, u)
  <2>1. Placed(p, s) /\ Placed(p, t)
    BY DEF Runs, Ordered
  <2>2. \A x \in Range(u) : \E j : (j \in 1..m /\ s[j] = x) \/ (j \in 1..n /\ t[j] = x)
    BY <1>3, <1>4 DEF Range
  <2>3. \A j \in 1..(m + n) : u[j] \in Range(u)
    BY <1>4 DEF Range
  <2>4. QED BY <1>4, <2>1, <2>2, <2>3 DEF Placed
<1>10. \A x \in Range(u) : Writing(x) => a <= x.at /\ x.at + x.n <= c
  <2> SUFFICES ASSUME NEW x \in Range(u), Writing(x) PROVE a <= x.at /\ x.at + x.n <= c
    OBVIOUS
  <2>1. PICK j : (j \in 1..m /\ s[j] = x) \/ (j \in 1..n /\ t[j] = x)
    BY <1>3, <1>4 DEF Range
  <2>2. x \in AnyStep
    BY <1>6, <2>1
  <2>3. x.at \in Nat /\ x.n \in Nat
    BY <2>2, WritingIs
  <2>4. (a <= x.at /\ x.at + x.n <= b) \/ (b <= x.at /\ x.at + x.n <= c)
    BY <1>6, <2>1
  <2>5. QED BY <2>3, <2>4
<1>11. QED BY <1>1, <1>7, <1>8, <1>9, <1>10 DEF Runs, Ordered, u

\* Steps that write nothing.
LEMMA RunsNothing ==
  ASSUME NEW p, NEW a, NEW b, NEW s \in Seq(AnyStep), \A x \in Range(s) : ~Writing(x)
  PROVE  Runs(p, s, a, b)
<1>1. \A j \in DOMAIN s : s[j] \in Range(s) /\ ~Writing(s[j])
  BY DEF Range
<1>2. Paired(s) /\ Sorted(s) /\ Placed(p, s)
  BY <1>1 DEF Paired, Sorted, Placed, Writing
<1>3. QED BY <1>2 DEF Runs, Ordered

\* One copy of a part.
LEMMA CopyRuns ==
  ASSUME NEW p \in Packages, NEW s, Twice(s), NEW x \in Sides, NEW c \in Turns, Much(s, x) \in 0..FlashSize
  PROVE  Runs(s, OneCopy(p, Part(x), Place(s, x, c), Much(s, x)), Place(s, x, c), Place(s, x, c) + Much(s, x))
<1> DEFINE at == Place(s, x, c)
           n  == Much(s, x)
           e  == Erase(at, n)
           f  == Copy(Part(x), at, n, "checked")
           v  == Verify(Part(x), at, n)
           V  == IfVerify(p, <<v>>)
           W  == <<e, f>>
           L  == OneCopy(p, Part(x), at, n)
<1>1. at \in Nat /\ n \in Nat /\ n \in 0..FlashSize /\ Part(x) \in Names
  BY PlaceIs, NamesAre DEF Sides
<1>2. /\ e.op = "erase" /\ e.at = at /\ e.n = n /\ v.op = "verify"
      /\ f.op = "copy" /\ f.name = Part(x) /\ f.at = at /\ f.n = n
  BY DEF Erase, Copy, Verify
<1>3. e \in AnyStep /\ f \in AnyStep /\ v \in AnyStep
  BY <1>1, AnyAre
<1>4. L = W \o V /\ W[1] = e /\ W[2] = f /\ DOMAIN W = 1..2
  BY DEF OneCopy
<1>5. V \in Seq(AnyStep) /\ \A b \in Range(V) : ~Writing(b)
  BY <1>2, <1>3, LonelyVerify
<1>6. W \in Seq(AnyStep) /\ Range(W) = {e, f}
  BY <1>3, SeqsAre, RangesAre
<1> SUFFICES Runs(s, L, at, at + n)
  OBVIOUS
<1>7. \A j \in 1..2 : j = 1 \/ j = 2
  OBVIOUS
<1> HIDE DEF W, L, V, e, f, v
<1>8. Paired(W)
  <2>1. 1 + 1 = 2 /\ 2 \in 1..2
    OBVIOUS
  <2>2. \A j \in DOMAIN W : W[j].op = "erase" => j = 1
    BY <1>2, <1>4, <1>7
  <2>3. QED BY <1>2, <1>4, <2>1, <2>2 DEF Paired
<1>9. Sorted(W)
  <2>1. \A j \in DOMAIN W : W[j].at = at /\ W[j].n = n
    BY <1>2, <1>4, <1>7
  <2>2. at + n <= at + n
    BY <1>1
  <2>3. QED BY <2>1, <2>2 DEF Sorted
<1>10. Placed(s, W)
  BY <1>2, <1>4, <1>7 DEF Placed
<1>11. Runs(s, W, at, at + n)
  <2>1. at <= at /\ at + n <= at + n
    BY <1>1
  <2>2. \A y \in Range(W) : at <= y.at /\ y.at + y.n <= at + n
    BY <1>2, <1>6, <2>1
  <2>3. QED BY <1>6, <1>8, <1>9, <1>10, <2>2 DEF Runs, Ordered
<1>12. Runs(s, V, at + n, at + n)
  BY <1>5, RunsNothing
<1>13. at \in Nat /\ at + n \in Nat /\ at <= at + n /\ at + n <= at + n
  BY <1>1
<1> HIDE DEF at, n
<1>14. QED BY <1>4, <1>11, <1>12, <1>13, RunsJoin

\* All copies of a part.
LEMMA PartRuns ==
  ASSUME NEW p \in Packages, NEW s, Twice(s), NEW x \in Sides, Much(s, x) \in 0..FlashSize
  PROVE  Runs(s, BootPart(p, Part(x), Place(s, x, 0), Much(s, x)), Place(s, x, 0), Place(s, x, 3) + Much(s, x))
<1> DEFINE n  == Much(s, x)
           b0 == Place(s, x, 0)
           b1 == Place(s, x, 1)
           b2 == Place(s, x, 2)
           b3 == Place(s, x, 3)
           a  == Call(-1)
           C  == <<a>>
           A  == OneCopy(p, Part(x), b0, n)
           B  == OneCopy(p, Part(x), b1, n)
           D  == OneCopy(p, Part(x), b2, n)
           E  == OneCopy(p, Part(x), b3, n)
           L  == BootPart(p, Part(x), b0, n)
<1>1. 0 \in Turns /\ 1 \in Turns /\ 2 \in Turns /\ 3 \in Turns
  BY DEF Turns
<1>2. n \in Nat /\ b0 \in Nat /\ b1 \in Nat /\ b2 \in Nat /\ b3 \in Nat
  BY <1>1, PlaceIs
<1>3. b1 = b0 + n /\ b2 = b0 + 2 * n /\ b3 = b0 + 3 * n
  <2>1. s[1] \in Nat /\ s[2] \in Nat
    BY DEF Twice
  <2>2. CASE x = "hw"
    BY <2>1, <2>2 DEF Place, Much
  <2>3. CASE x = "boot"
    BY <2>1, <2>3 DEF Place, Much
  <2>4. QED BY <2>2, <2>3 DEF Sides
<1>4. Runs(s, A, b0, b0 + n) /\ Runs(s, B, b1, b1 + n) /\ Runs(s, D, b2, b2 + n) /\ Runs(s, E, b3, b3 + n)
  <2>1. Runs(s, A, b0, b0 + n)
    BY <1>1, CopyRuns
  <2>2. Runs(s, B, b1, b1 + n)
    BY <1>1, CopyRuns
  <2>3. Runs(s, D, b2, b2 + n)
    BY <1>1, CopyRuns
  <2>4. Runs(s, E, b3, b3 + n)
    BY <1>1, CopyRuns
  <2>5. QED BY <2>1, <2>2, <2>3, <2>4
<1>5. Runs(s, C, b0, b0)
  <2>1. a \in AnyStep /\ a.op = "call"
    BY AnyAre, Kinds1
  <2> HIDE DEF a
  <2>2. C \in Seq(AnyStep) /\ \A y \in Range(C) : ~Writing(y)
    BY <2>1, Single DEF Writing
  <2>3. QED BY <2>2, RunsNothing
<1>6. L = C \o A \o B \o D \o E
  BY <1>3 DEF BootPart
<1> SUFFICES Runs(s, L, b0, b3 + n)
  OBVIOUS
<1> HIDE DEF n, b0, b1, b2, b3, a, C, A, B, D, E, L
<1>7. b0 <= b0 /\ b0 <= b1 /\ b1 <= b2 /\ b2 <= b3 /\ b3 <= b3 + n /\ b3 + n \in Nat /\ b0 <= b2 /\ b0 <= b3
      /\ b0 + n = b1 /\ b1 + n = b2 /\ b2 + n = b3
  BY <1>2, <1>3
<1>8. Runs(s, A, b0, b1) /\ Runs(s, B, b1, b2) /\ Runs(s, D, b2, b3) /\ Runs(s, E, b3, b3 + n)
  BY <1>4, <1>7
<1>9. Runs(s, C \o A, b0, b1)
  BY <1>2, <1>5, <1>7, <1>8, RunsJoin
<1>10. Runs(s, C \o A \o B, b0, b2)
  BY <1>2, <1>7, <1>8, <1>9, RunsJoin
<1>11. Runs(s, C \o A \o B \o D, b0, b3)
  BY <1>2, <1>7, <1>8, <1>10, RunsJoin
<1>12. QED BY <1>2, <1>6, <1>7, <1>8, <1>11, RunsJoin

\* The boot code on NAND, and its first copies.
LEMMA BootOrdered ==
  ASSUME NEW p \in Packages, p.flash = "nand"
  PROVE  LET s == BootSizes(p)
             L == BurnBoot(p)
         IN /\ Ordered(s, L) /\ L \in Seq(AnyStep)
            /\ \A x \in Sides : \E j \in DOMAIN L : L[j].op = "copy" /\ L[j].at = Place(s, x, 0)
<1> DEFINE s == BootSizes(p)
           L == BurnBoot(p)
           C == <<Call(-1), Tools(-1)>>
           A == BootPart(p, Part("hw"), HwStart, p.boot.hw)
           B == BootPart(p, Part("boot"), HwStart + Copies * p.boot.hw, p.boot.boot)
           b == 1 + 4 * s[1]
<1>1. Twice(s) /\ s[1] = p.boot.hw /\ s[2] = p.boot.boot
  BY SizesAre
<1>2. s[1] \in 0..FlashSize /\ s[2] \in 0..FlashSize /\ s[1] \in Nat /\ s[2] \in Nat
  BY <1>1, PackageIs
<1>3. /\ Place(s, "hw", 0) = 1 /\ Much(s, "hw") = s[1] /\ Place(s, "hw", 3) + Much(s, "hw") = b
      /\ Place(s, "boot", 0) = b /\ Much(s, "boot") = s[2] /\ Place(s, "boot", 3) + Much(s, "boot") = b + 4 * s[2]
  BY <1>2 DEF Place, Much
<1>4. HwStart = 1 /\ HwStart + Copies * p.boot.hw = b
  BY <1>1, <1>2 DEF HwStart, Copies
<1>5. "hw" \in Sides /\ "boot" \in Sides
  BY DEF Sides
<1>6. Runs(s, A, 1, b)
  <2>1. Runs(s, BootPart(p, Part("hw"), Place(s, "hw", 0), Much(s, "hw")), Place(s, "hw", 0), Place(s, "hw", 3) + Much(s, "hw"))
    <3> HIDE DEF s
    <3>1. Much(s, "hw") \in 0..FlashSize
      BY <1>2, <1>3
    <3>2. QED BY <1>1, <1>5, <3>1, PartRuns
  <2>2. QED BY <1>1, <1>3, <1>4, <2>1
<1>7. Runs(s, B, b, b + 4 * s[2])
  <2>1. Runs(s, BootPart(p, Part("boot"), Place(s, "boot", 0), Much(s, "boot")), Place(s, "boot", 0), Place(s, "boot", 3) + Much(s, "boot"))
    <3> HIDE DEF s
    <3>1. Much(s, "boot") \in 0..FlashSize
      BY <1>2, <1>3
    <3>2. QED BY <1>1, <1>5, <3>1, PartRuns
  <2>2. QED BY <1>1, <1>3, <1>4, <2>1
<1>8. Runs(s, C, 1, 1)
  <2> DEFINE x == Call(-1)
             y == Tools(-1)
  <2>1. x \in AnyStep /\ x.op = "call" /\ y \in AnyStep /\ y.op = "tools"
    BY AnyAre, Kinds1
  <2> HIDE DEF x, y
  <2>2. <<x, y>> \in Seq(AnyStep) /\ Range(<<x, y>>) = {x, y}
    BY <2>1, SeqsAre, RangesAre
  <2>3. \A z \in Range(<<x, y>>) : ~Writing(z)
    BY <2>1, <2>2 DEF Writing
  <2>4. Runs(s, <<x, y>>, 1, 1)
    BY <2>2, <2>3, RunsNothing
  <2>5. QED BY <2>4 DEF x, y
<1>9. L = C \o A \o B
  BY DEF BurnBoot, BootNand
<1>10. b \in Nat /\ b + 4 * s[2] \in Nat /\ 1 <= b /\ b <= b + 4 * s[2] /\ 1 <= 1
  BY <1>2
<1>11. BootCopies(p, L)
  BY NandList
<1>12. \A x \in Sides : \E j \in DOMAIN L : L[j].op = "copy" /\ L[j].at = Place(s, x, 0)
  <2>1. 0 \in {0, 1, 2, 3} /\ 1 + 0 * p.boot.hw = 1 /\ 1 + 4 * p.boot.hw + 0 * p.boot.boot = b
    BY <1>1, <1>2
  <2> HIDE DEF L, s, b
  <2>2. HasCopy(L, Part("hw"), 1, p.boot.hw) /\ HasCopy(L, Part("boot"), b, p.boot.boot)
    BY <1>11, <2>1 DEF BootCopies
  <2>3. QED BY <1>3, <2>2 DEF HasCopy, Range, Sides
<1> HIDE DEF s, L, A, B, C, b
<1>13. Runs(s, C \o A, 1, b)
  BY <1>6, <1>8, <1>10, RunsJoin
<1>14. Runs(s, L, 1, b + 4 * s[2])
  BY <1>7, <1>9, <1>10, <1>13, RunsJoin
<1>15. QED BY <1>12, <1>14 DEF Runs, s, L

-----------------------------------------------------------------------------

\* A boot code that is done leaves its own sizes.
LEMMA SizesStep ==
  ASSUME Typed, Next, ~(\E p \in Packages : Start(p))
  PROVE  \/ sizes' = sizes
         \/ now = 0 /\ todo = <<>> /\ now' # 0 /\ flash' = flash /\ sizes' = <<BootSizes(pkg)>>
<1>1. CASE Finish
  <2>1. CASE now = 0
    <3>1. now' = 1 \/ now' = -1
      BY <1>1, <2>1 DEF Finish, Returns
    <3>2. QED BY <1>1, <2>1, <3>1 DEF Finish
  <2>2. CASE now # 0
    BY <1>1, <2>2 DEF Finish
  <2>3. QED BY <2>1, <2>2
<1>2. CASE ~Finish
  BY <1>2 DEF Next, ReturnNow, CallSucceeds, ToolsThere, Fails, EraseBlock, CopyBlock, BlocksDone, BlockFails,
              EndsShort, Verified, VerifyFails, PowerCut
<1>3. QED BY <1>1, <1>2

\* What a new installation starts with.
LEMMA StartIs ==
  ASSUME Typed, NEW p \in Packages, Start(p)
  PROVE  /\ now = -1 /\ p.flash = pkg.flash /\ pkg' = p /\ run' = run + 1 /\ flash' = flash /\ run \in Nat
         /\ p.with_boot => now' = 0 /\ todo' = BurnBoot(p) /\ sizes' = Append(sizes, BootSizes(p))
         /\ ~p.with_boot => now' = 1 /\ sizes' = sizes
<1>1. run \in Nat
  BY BurnAssumption DEF Typed, TypeOK
<1>2. QED BY <1>1 DEF Start, Steps

LEMMA SizedInit == Init => Sized
<1> SUFFICES ASSUME Init PROVE Sized
  OBVIOUS
<1>1. pkg \in Packages /\ now = -1 /\ sizes = <<BootSizes(pkg)>>
  BY DEF Init
<1> DEFINE S == SizesOn(pkg.flash)
           s == BootSizes(pkg)
<1>2. s \in S
  BY <1>1, SizesAre
<1> HIDE DEF S, s
<1>3. <<s>> \in Seq(S) /\ Len(<<s>>) = 1
  BY <1>2
<1>4. QED BY <1>1, <1>3 DEF Sized, Spare, S, s

LEMMA SizedNext == Typed /\ Sized /\ [Next]_vars => Sized'
<1> SUFFICES ASSUME Typed, Sized, [Next]_vars PROVE Sized'
  OBVIOUS
<1>1. CASE UNCHANGED vars
  BY <1>1 DEF vars, Sized, Spare
<1>2. ASSUME NEW p \in Packages, Start(p)
      PROVE  Sized'
  <2> DEFINE S == SizesOn(p.flash)
             s == BootSizes(p)
  <2>1. /\ now = -1 /\ p.flash = pkg.flash /\ pkg' = p
        /\ p.with_boot => now' = 0 /\ sizes' = Append(sizes, s)
        /\ ~p.with_boot => now' = 1 /\ sizes' = sizes
    BY <1>2, StartIs
  <2>2. sizes \in Seq(S) /\ Len(sizes) >= 1 /\ s \in S
    BY <2>1, SizesAre DEF Sized, Spare
  <2>3. pkg'.flash = p.flash /\ BootSizes(pkg') = s /\ SizesOn(pkg'.flash) = S
    BY <2>1
  <2> HIDE DEF S, s
  <2>4. CASE p.with_boot
    <3>1. Append(sizes, s) \in Seq(S) /\ Len(Append(sizes, s)) = Len(sizes) + 1 /\ Append(sizes, s)[Len(sizes) + 1] = s
      BY <2>2
    <3>2. Len(sizes') >= 2
      BY <2>1, <2>2, <2>4, <3>1
    <3>3. QED BY <2>1, <2>3, <2>4, <3>1, <3>2 DEF Sized, Spare
  <2>5. CASE ~p.with_boot
    BY <2>1, <2>2, <2>3, <2>5 DEF Sized, Spare
  <2>6. QED BY <2>4, <2>5
<1>3. CASE Next /\ ~(\E p \in Packages : Start(p))
  <2>1. /\ now # -1 /\ now \in Nat /\ pkg' = pkg /\ now' \in {-1, now, now + 1} /\ pkg \in Packages
    BY <1>3, GoesOn
  <2>2. CASE sizes' = sizes
    <3>1. now' = 0 => now = 0
      BY <2>1
    <3>2. Len(sizes) \in Nat
      BY DEF Sized
    <3>3. QED BY <2>1, <2>2, <3>1, <3>2 DEF Sized, Spare
  <2>3. CASE now = 0 /\ now' # 0 /\ sizes' = <<BootSizes(pkg)>>
    <3> DEFINE S == SizesOn(pkg.flash)
               s == BootSizes(pkg)
    <3>1. s \in S
      BY <2>1, SizesAre
    <3> HIDE DEF S, s
    <3>2. <<s>> \in Seq(S) /\ Len(<<s>>) = 1
      BY <3>1
    <3>3. sizes' = <<s>> /\ SizesOn(pkg'.flash) = S
      BY <2>1, <2>3 DEF S, s
    <3>4. QED BY <2>3, <3>2, <3>3 DEF Sized, Spare
  <2>4. QED BY <1>3, <2>2, <2>3, SizesStep
<1>4. QED BY <1>1, <1>2, <1>3

LEMMA OrderlyNext == Typed /\ Orderly /\ [Next]_vars => Orderly'
<1> SUFFICES ASSUME Typed, Orderly, [Next]_vars PROVE Orderly'
  OBVIOUS
<1>1. CASE UNCHANGED vars
  BY <1>1 DEF vars, Orderly
<1>2. SUFFICES ASSUME Next, NEW s, NEW L, pkg'.flash = "nand", now' = 0, todo' = L, s = BootSizes(pkg')
               PROVE  Ordered(s, L)
  BY <1>1 DEF Orderly
<1>3. CASE \E p \in Packages : Start(p)
  <2>1. PICK p \in Packages : Start(p)
    BY <1>3
  <2>2. pkg' = p /\ todo' = BurnBoot(p)
    BY <1>2, <2>1, StartIs
  <2>3. QED BY <1>2, <2>2, BootOrdered
<1>4. CASE ~(\E p \in Packages : Start(p))
  <2>1. /\ now # -1 /\ now \in Nat /\ pkg' = pkg /\ now' \in {-1, now, now + 1} /\ pkg \in Packages
    BY <1>2, <1>4, GoesOn
  <2>2. now = 0
    BY <1>2, <2>1
  <2>3. Ordered(s, todo)
    BY <1>2, <2>1, <2>2 DEF Orderly
  <2>4. ~Stops /\ ~Passes
    BY <1>2, <2>2 DEF Stops, Passes, Returns
  <2>5. CASE Shifts
    <3>1. todo # <<>> /\ todo' = Tail(todo)
      BY <2>5 DEF Shifts, Next1
    <3>2. Ordered(s, L)
      <4>1. PICK n \in Nat : /\ DOMAIN todo = 1..(n + 1) /\ DOMAIN L = 1..n
                             /\ \A j \in 1..n : L[j] = todo[j + 1]
        BY <1>2, <2>1, <3>1, TailIs
      <4>2. Paired(L)
        <5> SUFFICES ASSUME NEW j \in 1..n, L[j].op = "erase"
                     PROVE  j + 1 \in 1..n /\ L[j + 1].op = "copy" /\ L[j + 1].at = L[j].at /\ L[j + 1].n = L[j].n
          BY <4>1 DEF Paired
        <5>1. j + 1 \in 1..(n + 1) /\ L[j] = todo[j + 1] /\ Paired(todo)
          BY <2>3, <4>1 DEF Ordered
        <5>2. (j + 1) + 1 \in 1..(n + 1) /\ todo[(j + 1) + 1].op = "copy" /\ todo[(j + 1) + 1].at = L[j].at
              /\ todo[(j + 1) + 1].n = L[j].n
          <6>1. PICK m \in 1..(n + 1) : m = j + 1
            BY <5>1
          <6>2. m \in DOMAIN todo /\ todo[m] = L[j] /\ todo[m].op = "erase"
            BY <4>1, <5>1, <6>1
          <6>3. /\ m + 1 \in DOMAIN todo /\ todo[m + 1].op = "copy" /\ todo[m + 1].at = todo[m].at
                /\ todo[m + 1].n = todo[m].n
            BY <5>1, <6>2, Zenon DEF Paired
          <6>4. QED BY ONLY <4>1, <6>1, <6>2, <6>3, Zenon
        <5>3. j + 1 \in 1..n
          BY <5>2
        <5>4. L[j + 1] = todo[(j + 1) + 1]
          BY <4>1, <5>3
        <5>5. QED BY <5>2, <5>3, <5>4
      <4>3. Sorted(L)
        <5> SUFFICES ASSUME NEW i \in 1..n, NEW j \in 1..n, i < j, Writing(L[i]), Writing(L[j])
                     PROVE  L[i].at + L[i].n <= L[j].at + L[j].n
          BY <4>1 DEF Sorted
        <5>1. i + 1 \in 1..(n + 1) /\ j + 1 \in 1..(n + 1) /\ i + 1 < j + 1
          OBVIOUS
        <5>2. L[i] = todo[i + 1] /\ L[j] = todo[j + 1] /\ Sorted(todo)
          BY <2>3, <4>1 DEF Ordered
        <5>3. QED BY <4>1, <5>1, <5>2 DEF Sorted
      <4>4. Placed(s, L)
        <5>1. \A j \in 1..n : j + 1 \in 1..(n + 1)
          OBVIOUS
        <5>2. QED BY <2>3, <4>1, <5>1 DEF Ordered, Placed
      <4>5. QED BY <4>2, <4>3, <4>4 DEF Ordered
    <3>3. QED BY <1>4, <3>2
  <2>6. CASE EraseBlock \/ CopyBlock
    BY <1>2, <2>3, <2>6 DEF EraseBlock, CopyBlock
  <2>7. QED BY <1>2, <1>4, <2>4, <2>5, <2>6, StepIs
<1>5. QED BY <1>3, <1>4

-----------------------------------------------------------------------------

\* The block that a step changes is behind every boot code, or in the copy that is
\* being written.
LEMMA Touched ==
  ASSUME NandFits, Typed, Next, pkg.flash = "nand", NEW b \in Blocks, flash'[b] # flash[b]
  PROVE  \/ /\ now = 0 /\ todo # <<>> /\ Writing(todo[1]) /\ todo[1].at \in Nat
            /\ todo[1].at <= b /\ b < todo[1].at + todo[1].n
         \/ now # 0 /\ \A s \in SizesOn("nand") : Ending(s) <= b
<1>1. /\ now # -1 /\ todo # <<>> /\ todo[1].op \in {"erase", "copy"}
      /\ done \in Nat /\ done < todo[1].n /\ b = todo[1].at + done
  BY OneBlock
<1>2. Writing(todo[1]) /\ todo[1].at \in Nat /\ todo[1].n \in Nat
  <2>1. todo[1] \in AnyStep /\ Writing(todo[1])
    BY <1>1, HeadIs DEF Allowed, Writing
  <2>2. QED BY <2>1, WritingIs
<1>3. CASE now = 0
  BY <1>1, <1>2, <1>3
<1>4. CASE now # 0
  <2>1. pkg \in Packages /\ Burnable(pkg, now) /\ (Outside(pkg, now) \/ (First(pkg, now) <= b /\ b < Behind(pkg, now)))
    BY OwnBlock DEF Typed, TypeOK
  <2>2. Fits(pkg)
    BY <2>1 DEF NandFits
  <2>3. First(pkg, now) <= b
    BY <2>1, <2>2, Within
  <2>4. now \in 1..Len(pkg.images)
    BY <1>4, <2>1, PackageIs DEF Burnable
  <2>5. pkg.images[now].at \in Nat /\ pkg.boot.reserved <= pkg.images[now].at /\ First(pkg, now) = pkg.images[now].at
    BY <1>4, <2>1, <2>4, ImageIs, PackageIs DEF First
  <2>6. ASSUME NEW s \in SizesOn("nand")
        PROVE  Ending(s) <= b
    <3>1. Ending(s) <= pkg.boot.reserved /\ pkg.boot.reserved \in Nat /\ Ending(s) \in Nat
      BY <2>1, SizesFit
    <3>2. b \in Nat
      BY <1>1, <1>2
    <3>3. QED BY <2>3, <2>5, <3>1, <3>2
  <2>7. QED BY <1>4, <2>6
<1>5. QED BY <1>3, <1>4

\* A copy stays as long as none of its blocks is changed.
LEMMA IntactStays ==
  ASSUME NEW s, Twice(s), NEW x \in Sides, NEW c \in Turns, Intact(s, x, c), run \in Nat, run' \in {run, run + 1},
         \A b \in Blocks : Place(s, x, c) <= b /\ b < Place(s, x, c) + Much(s, x) => flash'[b] = flash[b]
  PROVE  Intact(s, x, c)'
<1> DEFINE at == Place(s, x, c)
           n  == Much(s, x)
<1>1. at \in Nat /\ n \in Nat
  BY PlaceIs
<1>2. PICK g \in 0..run : IsAt(Part(x), at, n, g)
  BY DEF Intact
<1>3. g \in 0..run'
  BY <1>2
<1> HIDE DEF at, n
<1>4. ASSUME NEW k \in 0..(n - 1)
      PROVE  at + k \in Blocks /\ flash'[at + k] = Cell(Part(x), k, n, g)
  <2>1. at + k \in Blocks /\ flash[at + k] = Cell(Part(x), k, n, g)
    BY <1>2 DEF IsAt
  <2>2. at <= at + k /\ at + k < at + n
    BY <1>1
  <2>3. QED BY <2>1, <2>2 DEF at, n
<1>5. IsAt(Part(x), at, n, g)'
  BY <1>4 DEF IsAt, Blocks
<1>6. QED BY <1>3, <1>5 DEF Intact, at, n

\* What the burn of a boot code is writing is one copy; it touches no other.
LEMMA HeadCopy ==
  ASSUME Typed, Orderly, pkg.flash = "nand", now = 0, todo # <<>>, Writing(todo[1])
  PROVE  LET s == BootSizes(pkg) IN
         /\ Twice(s) /\ s \in SizesOn("nand")
         /\ \E x \in Sides, c \in Turns :
              /\ todo[1].at = Place(s, x, c) /\ todo[1].n = Much(s, x) /\ (todo[1].op = "copy" => todo[1].name = Part(x))
              /\ \A y \in Sides, d \in Turns : Busy(s, y, d) => y = x /\ d = c
<1> DEFINE s == BootSizes(pkg)
<1>1. pkg \in Packages
  BY DEF Typed, TypeOK
<1>2. Twice(s) /\ s \in SizesOn("nand")
  BY <1>1, SizesAre
<1>3. Ordered(s, todo)
  BY DEF Orderly
<1>4. 1 \in DOMAIN todo
  <2>1. PICK n \in Nat : DOMAIN todo = 1..(n + 1)
    BY TailIs
  <2>2. QED BY <2>1
<1> HIDE DEF s
<1>5. PICK x \in Sides, c \in Turns :
         todo[1].at = Place(s, x, c) /\ todo[1].n = Much(s, x) /\ (todo[1].op = "copy" => todo[1].name = Part(x))
  BY <1>3, <1>4 DEF Ordered, Placed
<1>6. \A y \in Sides, d \in Turns : Busy(s, y, d) => y = x /\ d = c
  BY <1>2, <1>5, PlacesApart DEF Busy
<1>7. QED BY <1>2, <1>5, <1>6 DEF s

\* A copy of these sizes that is not being written stays.
LEMMA OthersStay ==
  ASSUME NandFits, Typed, Orderly, Next, pkg.flash = "nand", NEW s \in SizesOn("nand"),
         now = 0 => BootSizes(pkg) = s,
         NEW x \in Sides, NEW c \in Turns, Intact(s, x, c), ~Busy(s, x, c)
  PROVE  Intact(s, x, c)'
<1>1. pkg \in Packages /\ run \in Nat
  BY BurnAssumption DEF Typed, TypeOK
<1>2. Twice(s)
  BY <1>1, SizesFit
<1>3. run' \in {run, run + 1}
  BY DEF Next, Start, Finish, ReturnNow, CallSucceeds, ToolsThere, Fails, EraseBlock, CopyBlock, BlocksDone,
         BlockFails, EndsShort, Verified, VerifyFails, PowerCut
<1>4. ASSUME NEW b \in Blocks, Place(s, x, c) <= b, b < Place(s, x, c) + Much(s, x), flash'[b] # flash[b]
      PROVE  FALSE
  <2>1. Place(s, x, c) \in Nat /\ Much(s, x) \in Nat /\ Place(s, x, c) + Much(s, x) <= Ending(s) /\ Ending(s) \in Nat
    BY <1>2, PlaceIs
  <2>2. b \in Int
    BY BurnAssumption DEF Blocks
  <2>3. CASE now # 0
    <3>1. Ending(s) <= b
      BY <1>4, <2>3, Touched
    <3>2. QED BY <1>4, <2>1, <2>2, <3>1
  <2>4. CASE now = 0
    <3>1. todo # <<>> /\ Writing(todo[1]) /\ todo[1].at <= b /\ b < todo[1].at + todo[1].n
      BY <1>4, <2>4, Touched
    <3>2. PICK y \in Sides, d \in Turns : todo[1].at = Place(s, y, d) /\ todo[1].n = Much(s, y)
      BY <2>4, <3>1, HeadCopy
    <3>3. y # x \/ d # c
      BY <2>4, <3>1, <3>2 DEF Busy
    <3>4. Place(s, y, d) \in Nat /\ Much(s, y) \in Nat
      BY <1>2, PlaceIs
    <3>5. Place(s, x, c) + Much(s, x) <= Place(s, y, d) \/ Place(s, y, d) + Much(s, y) <= Place(s, x, c)
      BY <1>2, <3>3, PlacesApart
    <3>6. QED BY <1>4, <2>1, <2>2, <3>1, <3>2, <3>4, <3>5
  <2>5. QED BY <2>3, <2>4
<1>5. QED BY <1>1, <1>2, <1>3, <1>4, IntactStays

\* The boot code of the factory.
LEMMA FactoryHas ==
  ASSUME NEW p \in Packages, p.flash = "nand", NEW x \in Sides, NEW c \in Turns,
         NEW k \in 0..(Much(BootSizes(p), x) - 1), Place(BootSizes(p), x, c) + k \in Blocks
  PROVE  Factory(p)[Place(BootSizes(p), x, c) + k] = Cell(Part(x), k, Much(BootSizes(p), x), 0)
<1> DEFINE s == BootSizes(p)
           a == s[1]
           h == s[2]
<1>1. a \in Nat /\ a # 0 /\ h \in Nat /\ h # 0 /\ a = p.boot.hw /\ h = p.boot.boot
  BY SizesAre DEF Twice
<1>2. ASSUME NEW n \in Nat, n # 0, NEW i \in 0..(n - 1)
      PROVE  (c * n + i) % n = i /\ c * n + i \in 0..(4 * n - 1)
  <2> DEFINE q == (c * n + i) \div n
             r == (c * n + i) % n
  <2>1. c * n \in Nat /\ c * n + n <= 4 * n /\ n \in Nat \ {0}
    BY <1>2 DEF Turns
  <2>2. c * n + i \in 0..(4 * n - 1)
    BY <2>1
  <2>3. q \in Int /\ r \in 0..(n - 1) /\ c * n + i = n * q + r /\ c \in Int
    BY <1>2 DEF Turns
  <2> HIDE DEF q, r
  <2>4. q = c
    <3>1. CASE q < c
      <4>1. n * q + n <= n * c
        BY <2>1, <2>3, <3>1
      <4>2. QED BY <2>1, <2>3, <4>1
    <3>2. CASE q > c
      <4>1. n * q >= n * c + n
        BY <2>1, <2>3, <3>2
      <4>2. QED BY <2>1, <2>3, <4>1
    <3>3. QED BY <2>3, <3>1, <3>2
  <2>5. r = i
    BY <2>1, <2>3, <2>4
  <2>6. QED BY <2>2, <2>5 DEF r
<1>3. HwStart = 1 /\ HwStart + Copies * p.boot.hw = 1 + 4 * a /\ (1 + 4 * a) + Copies * p.boot.boot = 1 + 4 * a + 4 * h
  BY <1>1 DEF HwStart, Copies
<1>4. CASE x = "hw"
  <2> DEFINE b == 1 + c * a + k
  <2>1. Place(s, x, c) + k = b /\ Much(s, x) = a /\ k \in 0..(a - 1)
    BY <1>4 DEF Place, Much
  <2>2. c * a + k \in 0..(4 * a - 1) /\ (c * a + k) % a = k
    BY <1>1, <1>2, <2>1
  <2>3. b \in 1..((1 + 4 * a) - 1) /\ b - 1 = c * a + k
    <3> DEFINE m == c * a
    <3>1. m \in Nat /\ m + k \in 0..(4 * a - 1) /\ b = 1 + m + k
      BY <1>1, <2>2, TimesIs
    <3> HIDE DEF m, b
    <3>2. b \in 1..((1 + 4 * a) - 1) /\ b - 1 = m + k
      BY <1>1, <2>1, <3>1
    <3>3. QED BY <3>2 DEF m
  <2>4. b \in Blocks
    BY <2>1
  <2> HIDE DEF b
  <2>5. Factory(p)[b] = Cell(Part("hw"), (b - 1) % a, a, 0)
    BY <1>1, <1>3, <2>3, <2>4 DEF Factory
  <2>6. QED BY <1>4, <2>1, <2>2, <2>3, <2>5
<1>5. CASE x = "boot"
  <2> DEFINE b == (1 + 4 * a) + c * h + k
             f == 1 + 4 * a
  <2>1. Place(s, x, c) + k = b /\ Much(s, x) = h /\ k \in 0..(h - 1)
    <3>1. x # "hw"
      BY <1>5
    <3>2. QED BY <3>1 DEF Place, Much
  <2>2. c * h + k \in 0..(4 * h - 1) /\ (c * h + k) % h = k
    BY <1>1, <1>2, <2>1
  <2>3. f \in Nat /\ b \in f..((f + 4 * h) - 1) /\ b - f = c * h + k /\ ~(b \in 1..(f - 1))
    <3> DEFINE m == c * h
    <3>1. m \in Nat /\ m + k \in 0..(4 * h - 1) /\ b = f + m + k /\ f \in Nat
      BY <1>1, <2>2, TimesIs
    <3> HIDE DEF m, b, f
    <3>2. b \in f..((f + 4 * h) - 1) /\ b - f = m + k /\ ~(b \in 1..(f - 1))
      BY <1>1, <2>1, <3>1
    <3>3. QED BY <3>1, <3>2 DEF m
  <2>4. b \in Blocks
    BY <2>1
  <2> HIDE DEF b
  <2>5. Factory(p)[b] = Cell(Part("boot"), (b - f) % h, h, 0)
    BY <1>1, <1>3, <2>3, <2>4 DEF Factory
  <2>6. QED BY <1>5, <2>1, <2>2, <2>3, <2>5
<1>6. QED BY <1>4, <1>5 DEF Sides

LEMMA BackedInit == NandFits /\ Init => Backed
<1> SUFFICES ASSUME NandFits, Init, NEW s, NEW k \in Nat, NEW x \in Sides,
                    pkg.flash = "nand", sizes[1] = s, Len(sizes) = k + Spare
             PROVE  AllBut(k, s, x)
  BY DEF Backed
<1>1. pkg \in Packages /\ now = -1 /\ run = 0 /\ flash = Factory(pkg) /\ sizes = <<BootSizes(pkg)>>
  BY DEF Init
<1>2. s = BootSizes(pkg) /\ k = 0
  <2>1. Len(sizes) = 1 /\ sizes[1] = BootSizes(pkg)
    BY <1>1
  <2>2. Spare = 1
    BY <1>1 DEF Spare
  <2>3. k = 0
    <3>1. 1 = k + 1
      <4>1. Len(sizes) = 1 /\ Len(sizes) = k + 1
        BY <2>1, <2>2
      <4>2. QED BY <4>1
    <3>2. QED BY <3>1
  <2>4. QED BY <2>1, <2>3
<1>3. Twice(s) /\ s \in SizesOn("nand")
  BY <1>1, <1>2, SizesAre
<1>4. ASSUME NEW c \in Turns
      PROVE  Intact(s, x, c)
  <2>1. Place(s, x, c) \in Nat /\ Much(s, x) \in Nat /\ Place(s, x, c) + Much(s, x) <= Ending(s) /\ Ending(s) \in Nat
    BY <1>3, PlaceIs
  <2>2. Ending(s) <= FlashSize /\ FlashSize \in Nat
    <3>1. Ending(s) <= pkg.boot.reserved /\ pkg.boot.reserved \in 1..FlashSize /\ FlashSize \in Nat
      BY <1>1, <1>3, SizesFit, PackageIs
    <3>2. QED BY <2>1, <3>1
  <2>3. ASSUME NEW i \in 0..(Much(s, x) - 1)
        PROVE  Place(s, x, c) + i \in Blocks /\ flash[Place(s, x, c) + i] = Cell(Part(x), i, Much(s, x), 0)
    <3>1. Place(s, x, c) + i \in Blocks
      BY <2>1, <2>2 DEF Blocks
    <3>2. QED BY <1>1, <1>2, <3>1, FactoryHas
  <2>4. QED BY <1>1, <2>3 DEF Intact, IsAt
<1>5. [i \in 1..k |-> 0] \in [1..k -> Turns]
  BY DEF Turns
<1>6. QED BY <1>4, <1>5 DEF AllBut

\* At the end of its burn all copies of the boot code are there.
LEMMA BootDone ==
  ASSUME NandFits, IInv, pkg.flash = "nand", now = 0, todo = <<>>, NEW x \in Sides, NEW c \in Turns
  PROVE  Intact(BootSizes(pkg), x, c)
<1>1. pkg \in Packages /\ Burnable(pkg, 0) /\ run \in Nat
  BY BurnAssumption DEF IInv, Typed, TypeOK
<1>2. Fits(pkg)
  BY <1>1 DEF NandFits
<1>3. Complete(0) /\ 0 \notin lapses
  BY <1>2, WholeNow DEF IInv, Begun
<1> DEFINE L == BurnBoot(pkg)
           s == BootSizes(pkg)
<1>4. Steps(pkg, 0) = L /\ BootCopies(pkg, L)
  BY <1>1, NandList DEF Steps
<1> HIDE DEF L
<1>5. \A name, at, k : HasCopy(L, name, at, k) => IsAt(name, at, k, run)
  <2>1. \A t \in Range(L) : t.op = "copy" => There(t)
    BY <1>3, <1>4 DEF Complete
  <2>2. QED BY <2>1 DEF HasCopy, There
<1>6. /\ HasCopy(L, Part("hw"), 1 + c * pkg.boot.hw, pkg.boot.hw)
      /\ HasCopy(L, Part("boot"), 1 + 4 * pkg.boot.hw + c * pkg.boot.boot, pkg.boot.boot)
  BY <1>4 DEF BootCopies, Turns
<1>7. s[1] = pkg.boot.hw /\ s[2] = pkg.boot.boot
  BY <1>1, SizesAre
<1> HIDE DEF s
<1>8. HasCopy(L, Part(x), Place(s, x, c), Much(s, x))
  BY <1>6, <1>7 DEF Place, Much, Sides
<1>9. run \in 0..run
  BY <1>1
<1>10. QED BY <1>5, <1>8, <1>9 DEF Intact, s

\* A copy that has been written is whole.
LEMMA CopyDone ==
  ASSUME NandFits, IInv, Orderly, Shifts, pkg.flash = "nand", now = 0, todo[1].op = "copy",
         NEW s, s = BootSizes(pkg), NEW x \in Sides, NEW c \in Turns, Busy(s, x, c)
  PROVE  Intact(s, x, c)'
<1>1. Typed /\ pkg \in Packages /\ run \in Nat /\ run' = run /\ flash' = flash
  BY BurnAssumption DEF IInv, Typed, TypeOK, Shifts
<1>2. todo # <<>> /\ Writing(todo[1]) /\ todo[1].at = Place(s, x, c)
  BY DEF Busy
<1>3. todo[1].n = Much(s, x) /\ todo[1].name = Part(x)
  BY <1>1, <1>2, HeadCopy
<1>4. done = todo[1].n
  BY DEF Shifts
<1>5. Halfway
  <2>1. Fits(pkg)
    BY <1>1 DEF NandFits
  <2>2. QED BY <2>1 DEF IInv, Progress
<1>6. IsAt(Part(x), Place(s, x, c), Much(s, x), run)
  BY <1>2, <1>3, <1>4, <1>5 DEF Halfway, IsAt
<1>7. IsAt(Part(x), Place(s, x, c), Much(s, x), run)'
  BY <1>1, <1>6 DEF IsAt, Blocks
<1>8. run \in 0..run'
  BY <1>1
<1>9. QED BY <1>1, <1>7, <1>8 DEF Intact

\* A copy that is being written goes on, or is whole.
LEMMA BusyGoes ==
  ASSUME NandFits, IInv, Orderly, Next, ~(\E p \in Packages : Start(p)), pkg.flash = "nand", now = 0, now' = 0,
         NEW s, s = BootSizes(pkg), NEW x \in Sides, NEW c \in Turns, Busy(s, x, c)
  PROVE  Busy(s, x, c)' \/ Intact(s, x, c)'
<1>1. Typed
  BY DEF IInv
<1>2. todo # <<>> /\ Writing(todo[1]) /\ todo[1].at = Place(s, x, c)
  BY DEF Busy
<1>3. ~Stops /\ ~Passes
  BY <1>2 DEF Stops, Passes, Returns, Writing
<1>4. CASE EraseBlock \/ CopyBlock
  BY <1>2, <1>4 DEF EraseBlock, CopyBlock, Busy
<1>5. CASE Shifts
  <2>1. todo' = Tail(todo)
    BY <1>5 DEF Shifts, Next1
  <2>2. CASE todo[1].op = "erase"
    <3>1. PICK n \in Nat : /\ DOMAIN todo = 1..(n + 1) /\ DOMAIN Tail(todo) = 1..n
                           /\ \A j \in 1..n : Tail(todo)[j] = todo[j + 1]
      BY <1>1, <1>2, TailIs
    <3>2. Ordered(s, todo) /\ 1 \in DOMAIN todo
      BY <3>1 DEF Orderly
    <3>3. 1 + 1 \in 1..(n + 1) /\ todo[1 + 1].op = "copy" /\ todo[1 + 1].at = todo[1].at
      BY <2>2, <3>1, <3>2 DEF Ordered, Paired
    <3>4. 1 \in 1..n
      BY <3>3
    <3>5. Tail(todo)[1].op = "copy" /\ Tail(todo)[1].at = Place(s, x, c) /\ Tail(todo) # <<>>
      BY <1>2, <3>1, <3>3, <3>4
    <3>6. QED BY <2>1, <3>5 DEF Busy, Writing
  <2>3. CASE todo[1].op = "copy"
    BY <1>5, <2>3, CopyDone
  <2>4. QED BY <1>2, <2>2, <2>3 DEF Writing
<1>6. QED BY <1>1, <1>3, <1>4, <1>5, StepIs

\* What is not whole is no more than it was, or one copy more.
LEMMA AllButStays ==
  ASSUME NEW s, NEW k \in Nat, NEW x \in Sides, AllBut(k, s, x),
         \A c \in Turns : Intact(s, x, c) \/ Busy(s, x, c) => Intact(s, x, c)' \/ Busy(s, x, c)'
  PROVE  AllBut(k, s, x)'
<1>1. PICK lost \in [1..k -> Turns] :
        \A c \in Turns : (\E i \in 1..k : lost[i] = c) \/ Intact(s, x, c) \/ Busy(s, x, c)
  BY DEF AllBut
<1>2. \A c \in Turns : (\E i \in 1..k : lost[i] = c) \/ Intact(s, x, c)' \/ Busy(s, x, c)'
  BY <1>1
<1>3. \E f \in [1..k -> Turns] :
        \A c \in Turns : (\E i \in 1..k : f[i] = c) \/ Intact(s, x, c)' \/ Busy(s, x, c)'
  BY <1>1, <1>2
<1>4. QED BY <1>3 DEF AllBut

\* A burn that is cut short costs one copy.
LEMMA AllButOne ==
  ASSUME NEW s, NEW k \in Nat, NEW x \in Sides, AllBut(k, s, x), NEW d \in Turns,
         \A c \in Turns : Intact(s, x, c) \/ Busy(s, x, c) => c = d \/ Intact(s, x, c)'
  PROVE  AllBut(k + 1, s, x)'
<1>1. PICK lost \in [1..k -> Turns] :
        \A c \in Turns : (\E i \in 1..k : lost[i] = c) \/ Intact(s, x, c) \/ Busy(s, x, c)
  BY DEF AllBut
<1> DEFINE f == [i \in 1..(k + 1) |-> IF i = k + 1 THEN d ELSE lost[i]]
<1>2. \A i \in 1..(k + 1) : i # k + 1 => i \in 1..k
  OBVIOUS
<1>3. f \in [1..(k + 1) -> Turns]
  BY <1>1, <1>2
<1>4. k + 1 \in 1..(k + 1) /\ \A i \in 1..k : i \in 1..(k + 1) /\ i # k + 1
  OBVIOUS
<1>5. f[k + 1] = d /\ \A i \in 1..k : f[i] = lost[i]
  BY <1>4
<1> HIDE DEF f
<1>6. \A c \in Turns : (\E i \in 1..(k + 1) : f[i] = c) \/ Intact(s, x, c)' \/ Busy(s, x, c)'
  <2> SUFFICES ASSUME NEW c \in Turns, ~Intact(s, x, c)' PROVE \E i \in 1..(k + 1) : f[i] = c
    OBVIOUS
  <2>1. CASE c = d
    BY <1>4, <1>5, <2>1
  <2>2. CASE c # d
    <3>1. ~Intact(s, x, c) /\ ~Busy(s, x, c)
      BY <2>2
    <3>2. PICK i \in 1..k : lost[i] = c
      BY <1>1, <3>1
    <3>3. QED BY <1>4, <1>5, <3>2
  <2>3. QED BY <2>1, <2>2
<1>7. \E g \in [1..(k + 1) -> Turns] :
        \A c \in Turns : (\E i \in 1..(k + 1) : g[i] = c) \/ Intact(s, x, c)' \/ Busy(s, x, c)'
  BY <1>3, <1>6
<1>8. QED BY <1>7 DEF AllBut

LEMMA BackedNext == NandFits /\ IInv /\ Sized /\ Orderly /\ Backed /\ [Next]_vars => Backed'
<1> SUFFICES ASSUME NandFits, IInv, Sized, Orderly, Backed, [Next]_vars PROVE Backed'
  OBVIOUS
<1>1. CASE UNCHANGED vars
  <2>1. /\ pkg' = pkg /\ run' = run /\ now' = now /\ todo' = todo /\ flash' = flash /\ sizes' = sizes
    BY <1>1 DEF vars
  <2>2. Same' = Same /\ Spare' = Spare
    BY <2>1 DEF Same, Spare
  <2>3. \A s : \A x \in Sides, c \in Turns : Intact(s, x, c)' = Intact(s, x, c) /\ Busy(s, x, c)' = Busy(s, x, c)
    BY <2>1 DEF Intact, IsAt, Busy, Blocks
  <2>4. \A s : \A k \in Nat, x \in Sides : AllBut(k, s, x) => AllBut(k, s, x)'
    BY <2>3, AllButStays
  <2>5. QED BY <2>1, <2>2, <2>4 DEF Backed
<1>2. SUFFICES ASSUME Next, NEW s, NEW k \in Nat, NEW x \in Sides,
                      pkg'.flash = "nand", Same', sizes'[1] = s, Len(sizes') = k + Spare'
               PROVE  AllBut(k, s, x)'
  BY <1>1 DEF Backed
<1>3. Typed /\ pkg \in Packages /\ sizes \in Seq(SizesOn(pkg.flash)) /\ Len(sizes) >= Spare /\ Len(sizes) >= 1
  <2>1. Spare >= 1
    BY DEF Spare
  <2>2. Len(sizes) \in Nat /\ Spare \in Nat
    BY DEF Sized, Spare
  <2>3. QED BY <2>1, <2>2 DEF IInv, Typed, TypeOK, Sized
<1>4. CASE \E p \in Packages : Start(p)
  <2>1. PICK p \in Packages : Start(p)
    BY <1>4
  <2>2. /\ now = -1 /\ p.flash = pkg.flash /\ pkg' = p /\ pkg.flash = "nand"
        /\ p.with_boot => now' = 0 /\ sizes' = Append(sizes, BootSizes(p))
        /\ ~p.with_boot => now' = 1 /\ sizes' = sizes
    BY <1>2, <1>3, <2>1, StartIs
  <2>3. Same /\ sizes[1] = s /\ Len(sizes) = k + 1
    <3>1. CASE p.with_boot
      <4>1. /\ Len(sizes') = Len(sizes) + 1 /\ \A i \in 1..Len(sizes) : sizes'[i] = sizes[i]
            /\ Len(sizes) \in Nat
        BY <1>3, <2>2, <3>1
      <4>2. Spare' = 2
        BY <2>2, <3>1 DEF Spare
      <4>3. Len(sizes') = k + 2
        BY <1>2, <4>2
      <4>4. Len(sizes) = k + 1
        BY <4>1, <4>3
      <4>5. 1 \in 1..Len(sizes) /\ \A i \in 1..Len(sizes) : i \in 1..Len(sizes')
        BY <1>3, <4>1
      <4>6. sizes[1] = s
        BY <1>2, <4>1, <4>5
      <4>7. Same
        BY <1>2, <4>1, <4>5 DEF Same
      <4>8. QED BY <4>4, <4>6, <4>7
    <3>2. CASE ~p.with_boot
      <4>1. Spare' = 1
        BY <2>2, <3>2 DEF Spare
      <4>2. QED BY <1>2, <2>2, <3>2, <4>1 DEF Same
    <3>3. QED BY <3>1, <3>2
  <2>4. Spare = 1
    BY <2>2 DEF Spare
  <2>5. AllBut(k, s, x)
    BY <2>2, <2>3, <2>4 DEF Backed
  <2>6. s \in SizesOn("nand")
    BY <1>3, <2>2, <2>3
  <2>7. \A c \in Turns : Intact(s, x, c) \/ Busy(s, x, c) => Intact(s, x, c)' \/ Busy(s, x, c)'
    <3>1. \A c \in Turns : ~Busy(s, x, c)
      BY <2>2 DEF Busy
    <3>2. QED BY <1>2, <1>3, <2>2, <2>6, <3>1, OthersStay
  <2>8. QED BY <2>5, <2>7, AllButStays
<1>5. CASE ~(\E p \in Packages : Start(p))
  <2>1. /\ now # -1 /\ now \in Nat /\ pkg' = pkg /\ run' = run /\ now' \in {-1, now, now + 1} /\ pkg.flash = "nand"
        /\ run \in Nat
    BY <1>2, <1>3, <1>5, GoesOn, BurnAssumption DEF Typed, TypeOK
  <2>2. CASE sizes' = sizes
    <3>1. Same /\ sizes[1] = s
      BY <1>2, <2>2 DEF Same
    <3>2. s \in SizesOn("nand")
      BY <1>3, <2>1, <3>1
    <3>3. now = 0 => BootSizes(pkg) = s
      <4>1. Len(sizes) \in 1..Len(sizes)
        BY <1>3
      <4>2. QED BY <3>1, <4>1 DEF Sized, Same
    <3>4. \A c \in Turns : Intact(s, x, c) /\ ~Busy(s, x, c) => Intact(s, x, c)'
      BY <1>2, <1>3, <2>1, <3>2, <3>3, OthersStay
    <3>5. CASE now # 0
      <4>1. now' # 0
        BY <2>1, <3>5
      <4>2. Spare = 1 /\ Spare' = 1
        BY <3>5, <4>1 DEF Spare
      <4>3. AllBut(k, s, x)
        BY <1>2, <2>1, <2>2, <3>1, <4>2 DEF Backed
      <4>4. \A c \in Turns : ~Busy(s, x, c)
        BY <3>5 DEF Busy
      <4>5. QED BY <3>4, <4>3, <4>4, AllButStays
    <3>6. CASE now = 0 /\ now' = 0
      <4>1. Spare = 2 /\ Spare' = 2
        BY <3>6 DEF Spare
      <4>2. AllBut(k, s, x)
        BY <1>2, <2>1, <2>2, <3>1, <4>1 DEF Backed
      <4>3. \A c \in Turns : Busy(s, x, c) => Busy(s, x, c)' \/ Intact(s, x, c)'
        BY <1>2, <1>5, <2>1, <3>3, <3>6, BusyGoes
      <4>4. QED BY <3>4, <4>2, <4>3, AllButStays
    <3>7. CASE now = 0 /\ now' # 0
      <4>1. Spare = 2 /\ Spare' = 1
        BY <3>7 DEF Spare
      <4>2. Len(sizes) = k + 1 /\ Len(sizes) >= 2
        BY <1>2, <1>3, <2>2, <4>1
      <4>3. PICK h \in Nat : k = h + 1
        <5>1. k - 1 \in Nat /\ k = (k - 1) + 1
          BY <4>2
        <5>2. QED BY <5>1
      <4>4. Len(sizes) = h + 2
        BY <4>2, <4>3
      <4>5. AllBut(h, s, x)
        BY <2>1, <3>1, <4>1, <4>4 DEF Backed
      <4>6. \E d \in Turns : \A c \in Turns : Busy(s, x, c) => c = d
        <5>1. CASE \E c \in Turns : Busy(s, x, c)
          <6>1. todo # <<>> /\ Writing(todo[1])
            BY <5>1 DEF Busy
          <6>2. PICK y \in Sides, d \in Turns : \A z \in Sides, e \in Turns : Busy(s, z, e) => z = y /\ e = d
            BY <1>3, <2>1, <3>3, <3>7, <6>1, HeadCopy
          <6>3. QED BY <6>2
        <5>2. CASE ~(\E c \in Turns : Busy(s, x, c))
          BY <5>2 DEF Turns
        <5>3. QED BY <5>1, <5>2
      <4>7. PICK d \in Turns : \A c \in Turns : Busy(s, x, c) => c = d
        BY <4>6
      <4>8. AllBut(h + 1, s, x)'
        BY <3>4, <4>5, <4>7, AllButOne
      <4>9. QED BY <4>3, <4>8
    <3>8. QED BY <3>5, <3>6, <3>7
  <2>3. CASE now = 0 /\ todo = <<>> /\ now' # 0 /\ flash' = flash /\ sizes' = <<BootSizes(pkg)>>
    <3>1. s = BootSizes(pkg)
      BY <1>2, <2>3
    <3>2. k = 0
      <4>1. Len(sizes') = 1
        BY <2>3
      <4>2. Spare' = 1
        BY <2>3 DEF Spare
      <4>3. 1 = k + 1
        <5>1. Len(sizes') = 1 /\ Len(sizes') = k + 1
          BY <1>2, <4>1, <4>2
        <5>2. QED BY <5>1
      <4>4. QED BY <4>3
    <3>3. Twice(s)
      BY <1>3, <3>1, SizesAre
    <3>4. \A c \in Turns : Intact(s, x, c)'
      <4>1. \A c \in Turns : Intact(s, x, c)
        BY <2>1, <2>3, <3>1, BootDone
      <4>2. run' \in {run, run + 1} /\ \A b : flash'[b] = flash[b]
        BY <2>1, <2>3
      <4>3. QED BY <2>1, <3>3, <4>1, <4>2, IntactStays
    <3>5. [i \in 1..k |-> 0] \in [1..k -> Turns]
      BY DEF Turns
    <3>6. \E g \in [1..k -> Turns] :
            \A c \in Turns : (\E i \in 1..k : g[i] = c) \/ Intact(s, x, c)' \/ Busy(s, x, c)'
      BY <3>4, <3>5
    <3>7. QED BY <3>6 DEF AllBut
  <2>4. QED BY <1>2, <1>3, <1>5, <2>2, <2>3, SizesStep
<1>6. QED BY <1>4, <1>5

-----------------------------------------------------------------------------

\* The first copy of the new boot code ends before the last of the old one.
LEMMA FollowIs ==
  ASSUME NEW old, NEW new, Twice(old), Twice(new), Follow(old, new), NEW x \in Sides
  PROVE  Place(new, x, 0) + Much(new, x) <= Place(old, x, 3)
<1>1. old[1] \in Nat /\ old[2] \in Nat /\ new[1] \in Nat /\ new[2] \in Nat
  BY DEF Twice
<1>2. new[1] <= 3 * old[1] /\ 1 + 4 * new[1] + 1 * new[2] <= 1 + 4 * old[1] + 3 * old[2]
  <2>1. HwStart = 1 /\ Copies = 4 /\ Copies - 1 = 3
    BY DEF HwStart, Copies
  <2>2. QED BY <2>1 DEF Follow
<1>3. CASE x = "hw"
  <2>1. Place(new, x, 0) = 1 + 0 * new[1] /\ Much(new, x) = new[1] /\ Place(old, x, 3) = 1 + 3 * old[1]
    BY <1>3 DEF Place, Much
  <2>2. QED BY <1>1, <1>2, <2>1
<1>4. CASE x = "boot"
  <2>1. /\ Place(new, x, 0) = 1 + 4 * new[1] + 0 * new[2] /\ Much(new, x) = new[2]
        /\ Place(old, x, 3) = 1 + 4 * old[1] + 3 * old[2]
    BY <1>4 DEF Place, Much
  <2>2. QED BY <1>1, <1>2, <2>1
<1>5. QED BY <1>3, <1>4 DEF Sides

\* Until the first copy of a part is written, the last copy of the old one stays.
LEMMA OldStays ==
  ASSUME NandFits, Typed, Orderly, Next, pkg.flash = "nand", now = 0, NEW old, NEW new, new = BootSizes(pkg),
         Twice(old), Follow(old, new), NEW x \in Sides, Due(new, x), Intact(old, x, 3)
  PROVE  Intact(old, x, 3)'
<1>1. pkg \in Packages /\ run \in Nat /\ 0 \in Turns /\ 3 \in Turns
  BY BurnAssumption DEF Typed, TypeOK, Turns
<1>2. Twice(new) /\ Ordered(new, todo)
  BY <1>1, SizesAre DEF Orderly
<1>3. run' \in {run, run + 1}
  BY DEF Next, Start, Finish, ReturnNow, CallSucceeds, ToolsThere, Fails, EraseBlock, CopyBlock, BlocksDone,
         BlockFails, EndsShort, Verified, VerifyFails, PowerCut
<1>4. PICK j \in DOMAIN todo : todo[j].op = "copy" /\ todo[j].at = Place(new, x, 0)
  BY DEF Due
<1>5. todo[j].n = Much(new, x)
  <2>1. PICK y \in Sides, d \in Turns : todo[j].at = Place(new, y, d) /\ todo[j].n = Much(new, y)
    BY <1>2, <1>4 DEF Ordered, Placed, Writing
  <2>2. y = x
    BY <1>1, <1>2, <1>4, <2>1, PlacesApart
  <2>3. QED BY <2>1, <2>2
<1>6. Place(new, x, 0) + Much(new, x) <= Place(old, x, 3)
  BY <1>2, FollowIs
<1>7. /\ Place(new, x, 0) \in Nat /\ Much(new, x) \in Nat /\ Place(old, x, 3) \in Nat /\ Much(old, x) \in Nat
  BY <1>1, <1>2, PlaceIs
<1>8. ASSUME NEW b \in Blocks, Place(old, x, 3) <= b, b < Place(old, x, 3) + Much(old, x), flash'[b] # flash[b]
      PROVE  FALSE
  <2>1. todo # <<>> /\ Writing(todo[1]) /\ todo[1].at \in Nat /\ todo[1].at <= b /\ b < todo[1].at + todo[1].n
    BY <1>8, Touched
  <2>2. PICK n \in Nat : DOMAIN todo = 1..(n + 1)
    BY <2>1, TailIs
  <2>3. todo[1].at + todo[1].n <= Place(new, x, 0) + Much(new, x)
    <3>1. CASE j = 1
      <4>1. Place(new, x, 0) + Much(new, x) <= Place(new, x, 0) + Much(new, x)
        BY <1>7
      <4>2. QED BY <1>4, <1>5, <3>1, <4>1
    <3>2. CASE j # 1
      <4>1. 1 \in DOMAIN todo /\ 1 < j
        BY <2>2, <3>2
      <4>2. Writing(todo[j])
        BY <1>4 DEF Writing
      <4>3. todo[1].at + todo[1].n <= todo[j].at + todo[j].n
        BY <1>2, <2>1, <4>1, <4>2 DEF Ordered, Sorted
      <4>4. QED BY <1>4, <1>5, <4>3
    <3>3. QED BY <3>1, <3>2
  <2>4. PICK y \in Sides, d \in Turns : todo[1].n = Much(new, y)
    BY <2>1, HeadCopy
  <2>5. todo[1].n \in Nat /\ b \in Int
    BY <1>2, <2>4, PlaceIs, <1>1, BurnAssumption DEF Blocks
  <2>6. QED BY <1>6, <1>7, <1>8, <2>1, <2>3, <2>5
<1>9. QED BY <1>1, <1>3, <1>8, IntactStays

\* From then on the first copy of the new one stays.
LEMMA NewStays ==
  ASSUME NandFits, Typed, Orderly, Next, pkg.flash = "nand", now = 0, NEW new, new = BootSizes(pkg),
         NEW x \in Sides, ~Due(new, x), Intact(new, x, 0)
  PROVE  Intact(new, x, 0)'
<1>1. pkg \in Packages /\ 0 \in Turns
  BY DEF Typed, TypeOK, Turns
<1>2. new \in SizesOn("nand") /\ Ordered(new, todo)
  BY <1>1, SizesAre DEF Orderly
<1>3. ~Busy(new, x, 0)
  <2> SUFFICES ASSUME Busy(new, x, 0) PROVE FALSE
    OBVIOUS
  <2>1. todo # <<>> /\ Writing(todo[1]) /\ todo[1].at = Place(new, x, 0)
    BY DEF Busy
  <2>2. PICK n \in Nat : DOMAIN todo = 1..(n + 1)
    BY <2>1, TailIs
  <2>3. 1 \in DOMAIN todo
    BY <2>2
  <2>4. CASE todo[1].op = "copy"
    BY <2>1, <2>3, <2>4 DEF Due
  <2>5. CASE todo[1].op = "erase"
    <3>1. 1 + 1 \in DOMAIN todo /\ todo[1 + 1].op = "copy" /\ todo[1 + 1].at = todo[1].at
      BY <1>2, <2>3, <2>5 DEF Ordered, Paired
    <3>2. QED BY <2>1, <3>1 DEF Due
  <2>6. QED BY <2>1, <2>4, <2>5 DEF Writing
<1>4. QED BY <1>1, <1>2, <1>3, OthersStay

\* What the sequence of sizes holds.
LEMMA FirstIn ==
  ASSUME NEW S, NEW q \in Seq(S)
  PROVE  (Len(q) = 1 => q[1] \in S) /\ (Len(q) = 2 => q[1] \in S /\ q[2] \in S)
<1>1. Len(q) = 1 => 1 \in 1..Len(q)
  OBVIOUS
<1>2. Len(q) = 2 => 1 \in 1..Len(q) /\ 2 \in 1..Len(q)
  OBVIOUS
<1>3. \A i \in 1..Len(q) : q[i] \in S
  OBVIOUS
<1>4. QED BY <1>1, <1>2, <1>3

LEMMA ResizedInit == Init => Resized
<1> SUFFICES ASSUME Init PROVE Resized
  OBVIOUS
<1>1. Len(sizes) = 1
  BY DEF Init
<1>2. QED BY <1>1 DEF Resized

LEMMA ResizedNext ==
  NandFits /\ IInv /\ Sized /\ Orderly /\ Backed /\ Resized /\ [Next]_vars => Resized'
<1> SUFFICES ASSUME NandFits, IInv, Sized, Orderly, Backed, Resized, [Next]_vars PROVE Resized'
  OBVIOUS
<1>1. CASE UNCHANGED vars
  <2>1. /\ pkg' = pkg /\ run' = run /\ now' = now /\ todo' = todo /\ flash' = flash /\ sizes' = sizes
    BY <1>1 DEF vars
  <2>2. \A s : \A x \in Sides, c \in Turns : Intact(s, x, c)' = Intact(s, x, c) /\ Due(s, x)' = Due(s, x)
    BY <2>1 DEF Intact, IsAt, Due, Blocks
  <2>3. 0 \in Turns /\ 3 \in Turns
    BY DEF Turns
  <2>4. SUFFICES ASSUME NEW old, NEW new, NEW x \in Sides,
                        pkg'.flash = "nand", Len(sizes') = 2, sizes'[1] = old, sizes'[2] = new, Follow(old, new)
                 PROVE  IF now' = 0
                          THEN (Due(new, x)' => Intact(old, x, 3)') /\ (~Due(new, x)' => Intact(new, x, 0)')
                          ELSE Intact(old, x, 3)' \/ Intact(new, x, 0)'
    BY DEF Resized
  <2>5. IF now = 0
          THEN (Due(new, x) => Intact(old, x, 3)) /\ (~Due(new, x) => Intact(new, x, 0))
          ELSE Intact(old, x, 3) \/ Intact(new, x, 0)
    BY <2>1, <2>4 DEF Resized
  <2>6. QED BY <2>1, <2>2, <2>3, <2>5
<1>2. SUFFICES ASSUME Next, NEW old, NEW new, NEW x \in Sides,
                      pkg'.flash = "nand", Len(sizes') = 2, sizes'[1] = old, sizes'[2] = new, Follow(old, new)
               PROVE  IF now' = 0
                        THEN (Due(new, x)' => Intact(old, x, 3)') /\ (~Due(new, x)' => Intact(new, x, 0)')
                        ELSE Intact(old, x, 3)' \/ Intact(new, x, 0)'
  BY <1>1 DEF Resized
<1>3. /\ Typed /\ pkg \in Packages /\ sizes \in Seq(SizesOn(pkg.flash)) /\ Len(sizes) \in Nat
      /\ 0 \in Turns /\ 3 \in Turns
  BY DEF IInv, Typed, TypeOK, Sized, Turns
<1>4. CASE \E p \in Packages : Start(p)
  <2>1. PICK p \in Packages : Start(p)
    BY <1>4
  <2>2. /\ now = -1 /\ p.flash = pkg.flash /\ pkg' = p /\ pkg.flash = "nand"
        /\ p.with_boot => now' = 0 /\ todo' = BurnBoot(p) /\ sizes' = Append(sizes, BootSizes(p))
        /\ ~p.with_boot => now' = 1 /\ sizes' = sizes
    BY <1>2, <1>3, <2>1, StartIs
  <2>3. \A s : \A c \in Turns : ~Busy(s, x, c)
    BY <2>2 DEF Busy
  <2>4. CASE p.with_boot
    <3>1. /\ Len(sizes') = Len(sizes) + 1 /\ \A i \in 1..Len(sizes) : sizes'[i] = sizes[i]
          /\ sizes'[Len(sizes) + 1] = BootSizes(p)
      BY <1>3, <2>2, <2>4
    <3>2. Len(sizes) = 1
      <4>1. 2 = Len(sizes) + 1
        BY <1>2, <3>1
      <4>2. \A n \in Nat : 2 = n + 1 => n = 1
        OBVIOUS
      <4>3. Len(sizes) \in Nat
        BY <1>3
      <4>4. QED BY <4>1, <4>2, <4>3
    <3>3. new = BootSizes(p) /\ sizes[1] = old
      BY <1>2, <3>1, <3>2
    <3>4. AllBut(0, old, x)
      <4>1. Same
        BY <3>2 DEF Same
      <4>2. Spare = 1
        BY <2>2 DEF Spare
      <4>3. Len(sizes) = 0 + Spare
        BY <3>2, <4>2
      <4>4. QED BY <2>2, <3>3, <4>1, <4>3 DEF Backed
    <3>5. Intact(old, x, 3)
      <4>1. \A i \in 1..0 : FALSE
        OBVIOUS
      <4>2. QED BY <1>3, <2>3, <3>4, <4>1 DEF AllBut
    <3>6. old \in SizesOn("nand")
      BY <1>3, <2>2, <3>2, <3>3, FirstIn
    <3>7. Intact(old, x, 3)'
      BY <1>2, <1>3, <2>2, <2>3, <3>5, <3>6, OthersStay
    <3>8. Due(new, x)'
      <4>1. \E j \in DOMAIN BurnBoot(p) : BurnBoot(p)[j].op = "copy" /\ BurnBoot(p)[j].at = Place(new, x, 0)
        BY <1>2, <2>2, <3>3, BootOrdered
      <4>2. todo' = BurnBoot(p)
        BY <2>2, <2>4
      <4>3. QED BY <4>1, <4>2 DEF Due
    <3>9. QED BY <3>7, <3>8
  <2>5. CASE ~p.with_boot
    <3>1. now' # 0 /\ sizes' = sizes
      BY <2>2, <2>5
    <3>2. Intact(old, x, 3) \/ Intact(new, x, 0)
      BY <1>2, <2>2, <3>1 DEF Resized
    <3>3. old \in SizesOn("nand") /\ new \in SizesOn("nand")
      BY <1>2, <1>3, <2>2, <3>1, FirstIn
    <3>4. Intact(old, x, 3)' \/ Intact(new, x, 0)'
      BY <1>2, <1>3, <2>2, <2>3, <3>2, <3>3, OthersStay
    <3>5. QED BY <3>1, <3>4
  <2>6. QED BY <2>4, <2>5
<1>5. CASE ~(\E p \in Packages : Start(p))
  <2>1. /\ now # -1 /\ now \in Nat /\ pkg' = pkg /\ run' = run /\ now' \in {-1, now, now + 1} /\ pkg.flash = "nand"
    BY <1>2, <1>3, <1>5, GoesOn
  <2>2. sizes' = sizes
    <3>1. sizes' # <<BootSizes(pkg)>>
      BY <1>2
    <3>2. QED BY <1>2, <1>3, <1>5, <3>1, SizesStep
  <2>3. old \in SizesOn("nand") /\ new \in SizesOn("nand") /\ Twice(old)
    <3>1. old \in SizesOn("nand") /\ new \in SizesOn("nand")
      BY <1>2, <1>3, <2>1, <2>2, FirstIn
    <3>2. QED BY <1>3, <2>1, <3>1, SizesFit
  <2>4. IF now = 0
          THEN (Due(new, x) => Intact(old, x, 3)) /\ (~Due(new, x) => Intact(new, x, 0))
          ELSE Intact(old, x, 3) \/ Intact(new, x, 0)
    BY <1>2, <2>1, <2>2 DEF Resized
  <2>5. CASE now # 0
    <3>1. now' # 0
      BY <2>1, <2>5
    <3>2. \A s : \A c \in Turns : ~Busy(s, x, c)
      BY <2>5 DEF Busy
    <3>3. Intact(old, x, 3)' \/ Intact(new, x, 0)'
      BY <1>2, <1>3, <2>1, <2>3, <2>4, <2>5, <3>2, OthersStay
    <3>4. QED BY <3>1, <3>3
  <2>6. CASE now = 0
    <3>1. new = BootSizes(pkg)
      <4>1. sizes[Len(sizes)] = BootSizes(pkg)
        BY <2>6 DEF Sized
      <4>2. QED BY <1>2, <2>2, <4>1
    <3>2. /\ Due(new, x) => Intact(old, x, 3) /\ Intact(old, x, 3)'
          /\ ~Due(new, x) => Intact(new, x, 0)'
      <4>1. ASSUME Due(new, x) PROVE Intact(old, x, 3) /\ Intact(old, x, 3)'
        BY <1>2, <1>3, <2>1, <2>3, <2>4, <2>6, <3>1, <4>1, OldStays
      <4>2. ASSUME ~Due(new, x) PROVE Intact(new, x, 0)'
        BY <1>2, <1>3, <2>1, <2>4, <2>6, <3>1, <4>2, NewStays
      <4>3. QED BY <4>1, <4>2
    <3>3. CASE Stops \/ Passes
      <4>1. now' # 0
        BY <2>6, <3>3 DEF Stops, Passes, Returns
      <4>2. QED BY <3>2, <4>1
    <3>4. CASE EraseBlock \/ CopyBlock
      <4>1. Due(new, x)' = Due(new, x)
        BY <3>4 DEF EraseBlock, CopyBlock, Due
      <4>2. QED BY <3>2, <4>1
    <3>5. CASE Shifts
      <4>1. todo # <<>> /\ todo' = Tail(todo)
        BY <3>5 DEF Shifts, Next1
      <4>2. PICK n \in Nat : /\ DOMAIN todo = 1..(n + 1) /\ DOMAIN Tail(todo) = 1..n
                             /\ \A j \in 1..n : Tail(todo)[j] = todo[j + 1]
        BY <1>3, <2>1, <4>1, TailIs
      <4>3. Due(new, x)' => Due(new, x)
        <5>1. \A j \in 1..n : j + 1 \in 1..(n + 1)
          OBVIOUS
        <5>2. QED BY <4>1, <4>2, <5>1 DEF Due
      <4>4. ASSUME Due(new, x), ~Due(new, x)'
            PROVE  Intact(new, x, 0)'
        <5>1. PICK j \in DOMAIN todo : todo[j].op = "copy" /\ todo[j].at = Place(new, x, 0)
          BY <4>4 DEF Due
        <5>2. CASE j = 1
          <6>1. Busy(new, x, 0) /\ todo[1].op = "copy"
            BY <2>6, <4>1, <5>1, <5>2 DEF Busy, Writing
          <6>2. QED BY <1>3, <2>1, <2>6, <3>1, <3>5, <6>1, CopyDone
        <5>3. CASE j # 1
          <6>1. j - 1 \in 1..n /\ (j - 1) + 1 = j
            BY <4>2, <5>3
          <6>2. Tail(todo)[j - 1] = todo[j]
            BY <4>2, <6>1
          <6>3. Due(new, x)'
            BY <4>1, <4>2, <5>1, <6>1, <6>2 DEF Due
          <6>4. QED BY <4>4, <6>3
        <5>4. QED BY <5>2, <5>3
      <4>5. QED BY <3>2, <4>3, <4>4
    <3>6. QED BY <1>2, <1>3, <1>5, <3>3, <3>4, <3>5, StepIs
  <2>7. QED BY <2>5, <2>6
<1>6. QED BY <1>4, <1>5

-----------------------------------------------------------------------------

\* A copy that is Intact is one of those BackupSurvives asks for.
LEMMA WholeIs ==
  ASSUME NEW s, Twice(s), NEW x \in Sides, NEW c \in Turns, Intact(s, x, c)
  PROVE  \E b \in Blocks : WholeCopy(Part(x), b)
<1> DEFINE at == Place(s, x, c)
           n  == Much(s, x)
<1>1. at \in Nat /\ n \in Nat /\ n > 0
  BY PlaceIs
<1>2. PICK g : IsAt(Part(x), at, n, g)
  BY DEF Intact
<1> HIDE DEF at, n
<1>3. 0 \in 0..(n - 1) /\ at + 0 = at
  BY <1>1
<1>4. at \in Blocks /\ flash[at] = Cell(Part(x), 0, n, g)
  BY <1>2, <1>3 DEF IsAt
<1>5. flash[at][3] = n /\ flash[at][4] = g
  BY <1>4 DEF Cell
<1>6. WholeCopy(Part(x), at)
  BY <1>1, <1>2, <1>5 DEF WholeCopy
<1>7. QED BY <1>4, <1>6

\* There are four copies.
LEMMA FourTurns == 0 \in Turns /\ 1 \in Turns /\ 2 \in Turns /\ 3 \in Turns
BY DEF Turns

\* One of four copies is left: of those not lost, at most one is being written.
LEMMA BackedTells ==
  ASSUME NandFits, IInv, Sized, Orderly, Backed, Len(sizes) <= Copies, Same, pkg.flash = "nand", NEW x \in Sides
  PROVE  \E b \in Blocks : WholeCopy(Part(x), b)
<1>1. Typed /\ pkg \in Packages /\ sizes \in Seq(SizesOn("nand")) /\ Len(sizes) \in Nat /\ Len(sizes) >= Spare
  BY DEF IInv, Typed, TypeOK, Sized
<1>2. Spare \in 1..2 /\ (now = 0 <=> Spare = 2)
  BY DEF Spare
<1>3. PICK s : s = sizes[1]
  OBVIOUS
<1>4. PICK k \in Nat : Len(sizes) = k + Spare
  <2>1. Len(sizes) - Spare \in Nat /\ Len(sizes) = (Len(sizes) - Spare) + Spare
    BY <1>1, <1>2
  <2>2. QED BY <2>1
<1>5. s \in SizesOn("nand") /\ Twice(s)
  <2>1. s \in SizesOn("nand")
    BY <1>1, <1>2, <1>3
  <2>2. QED BY <1>1, <2>1, SizesFit
<1>6. AllBut(k, s, x)
  BY <1>3, <1>4 DEF Backed
<1>7. PICK lost \in [1..k -> Turns] :
        \A c \in Turns : (\E i \in 1..k : lost[i] = c) \/ Intact(s, x, c) \/ Busy(s, x, c)
  BY <1>6 DEF AllBut
<1>8. k + Spare <= 4
  BY <1>4 DEF Copies
<1>9. \E c \in Turns : Intact(s, x, c)
  <2>1. CASE now # 0
    <3>0. PICK f, g, h : f = lost[1] /\ g = lost[2] /\ h = lost[3]
      OBVIOUS
    <3>0a. PICK d \in Turns : d # f /\ d # g /\ d # h
      BY FourTurns
    <3>1. d # lost[1] /\ d # lost[2] /\ d # lost[3]
      BY <3>0, <3>0a
    <3>2. \A i \in 1..k : i = 1 \/ i = 2 \/ i = 3
      BY <1>2, <1>8
    <3>3. ~(\E i \in 1..k : lost[i] = d)
      BY <3>1, <3>2
    <3>4. ~Busy(s, x, d)
      BY <2>1 DEF Busy
    <3>5. QED BY <1>7, <3>3, <3>4
  <2>2. CASE now = 0
    <3>1. BootSizes(pkg) = s
      <4>1. Len(sizes) \in 1..Len(sizes)
        BY <1>1, <1>2
      <4>2. QED BY <1>3, <2>2, <4>1 DEF Sized, Same
    <3>2. \E e \in Turns : \A c \in Turns : Busy(s, x, c) => c = e
      <4>1. CASE \E c \in Turns : Busy(s, x, c)
        <5>1. todo # <<>> /\ Writing(todo[1])
          BY <4>1 DEF Busy
        <5>2. PICK y \in Sides, e \in Turns : \A z \in Sides, c \in Turns : Busy(s, z, c) => z = y /\ c = e
          BY <1>1, <2>2, <3>1, <5>1, HeadCopy
        <5>3. QED BY <5>2
      <4>2. CASE ~(\E c \in Turns : Busy(s, x, c))
        BY <4>2 DEF Turns
      <4>3. QED BY <4>1, <4>2
    <3>3. PICK e \in Turns : \A c \in Turns : Busy(s, x, c) => c = e
      BY <3>2
    <3>0. PICK f, g : f = lost[1] /\ g = lost[2]
      OBVIOUS
    <3>0a. PICK d \in Turns : d # f /\ d # g /\ d # e
      BY FourTurns
    <3>4. d # lost[1] /\ d # lost[2] /\ d # e
      BY <3>0, <3>0a
    <3>5. k <= 2
      BY <1>2, <1>8, <2>2
    <3>6. \A i \in 1..k : i = 1 \/ i = 2
      BY <3>5
    <3>7. ~(\E i \in 1..k : lost[i] = d)
      BY <3>4, <3>6
    <3>8. QED BY <1>7, <3>3, <3>4, <3>7
  <2>3. QED BY <2>1, <2>2
<1>10. QED BY <1>5, <1>9, WholeIs

\* One of the last old and the first new copy is there.
LEMMA ResizedTells ==
  ASSUME NandFits, IInv, Sized, Resized, Len(sizes) = 2, Follow(sizes[1], sizes[2]), pkg.flash = "nand", NEW x \in Sides
  PROVE  \E b \in Blocks : WholeCopy(Part(x), b)
<1>1. pkg \in Packages /\ sizes \in Seq(SizesOn("nand")) /\ 0 \in Turns /\ 3 \in Turns
  BY DEF IInv, Typed, TypeOK, Sized, Turns
<1>2. PICK old, new : old = sizes[1] /\ new = sizes[2]
  OBVIOUS
<1>3. old \in SizesOn("nand") /\ new \in SizesOn("nand")
  BY <1>1, <1>2, FirstIn
<1>4. Twice(old) /\ Twice(new)
  BY <1>1, <1>3, SizesFit
<1>5. Intact(old, x, 3) \/ Intact(new, x, 0)
  BY <1>2 DEF Resized
<1>6. QED BY <1>1, <1>4, <1>5, WholeIs

\* The invariant of the two theorems below: that of BurnedWhole, and what it says of the
\* copies of the boot code.
Survives == IInv /\ Sized /\ Orderly /\ (NandFits => Backed /\ Resized)

LEMMA SurvivesInit == Init => Survives
BY IInvInit, SizedInit, BackedInit, ResizedInit DEF Survives, Init, Orderly

LEMMA SurvivesNext == Survives /\ [Next]_vars => Survives'
<1> SUFFICES ASSUME Survives, [Next]_vars PROVE Survives'
  OBVIOUS
<1>1. IInv' /\ Sized' /\ Orderly' /\ Typed
  BY IInvNext, SizedNext, OrderlyNext DEF Survives, IInv
<1>2. ASSUME NandFits
      PROVE  Backed' /\ Resized'
  BY <1>2, BackedNext, ResizedNext DEF Survives
<1>3. NandFits' = NandFits
  BY DEF NandFits, Fits, BootFits, BootEnd, Overruns, Low
<1>4. QED BY <1>1, <1>2, <1>3 DEF Survives

\* The two parts that have copies.
LEMMA SidesAre == \A name \in {Part("hw"), Part("boot")} : \E x \in Sides : name = Part(x)
BY DEF Sides

\* As long as the sizes of the boot code stay and no four burns of it in a row are cut
\* short, whatever fails, a NAND flash keeps a whole copy of both of its parts.
THEOREM CopySurvives == Spec => []BootCopySurvives
<1>1. Survives => BootCopySurvives
  <2> SUFFICES ASSUME Survives, NandFits, Len(sizes) <= Copies, \A i \in 1..Len(sizes) : sizes[i] = sizes[1],
                      pkg.flash = "nand", NEW name \in {Part("hw"), Part("boot")}
               PROVE  \E b \in Blocks : WholeCopy(name, b)
    BY DEF BootCopySurvives, BackupSurvives
  <2>1. PICK x \in Sides : name = Part(x)
    BY SidesAre
  <2>2. Same
    BY DEF Same
  <2>3. QED BY <2>1, <2>2, BackedTells DEF Survives
<1>2. QED BY <1>1, SurvivesInit, SurvivesNext, PTL DEF Spec

\* So does it when a boot code of other sizes is burned over one that was whole, if the
\* first copies of the new one end before the last ones of the old.
THEOREM CopySurvivesResize == Spec => []ResizeSurvives
<1>1. Survives => ResizeSurvives
  <2> SUFFICES ASSUME Survives, NandFits, Len(sizes) = 2, Follow(sizes[1], sizes[2]),
                      pkg.flash = "nand", NEW name \in {Part("hw"), Part("boot")}
               PROVE  \E b \in Blocks : WholeCopy(name, b)
    BY DEF ResizeSurvives, BackupSurvives
  <2>1. PICK x \in Sides : name = Part(x)
    BY SidesAre
  <2>2. QED BY <2>1, ResizedTells DEF Survives
<1>2. QED BY <1>1, SurvivesInit, SurvivesNext, PTL DEF Spec

=============================================================================
