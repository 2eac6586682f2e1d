--------------------------- MODULE TagFlowProofs ---------------------------
(* Proofs about TagFlow, for any set of packages.                            *)
EXTENDS TagFlowImplements, FiniteSetTheorems, TLAPS

-----------------------------------------------------------------------------
(* The two orders.                                                           *)

\* The cases of the switch and the loop name each image once.
LEMMA FlowOrder ==
  /\ \A k \in 1..22 : Flow[k] \in Images
  /\ \A j, k \in 1..22 : Flow[j] = Flow[k] => j = k
<1>1. \A k \in 1..22 : Flow[k] \in Images
  BY DEF Flow, Images, Fws, Dts, Logos, Partitions, Others
<1>2. \A j, k \in 1..22 : Flow[j] = Flow[k] => j = k
  BY DEF Flow
<1>3. QED BY <1>1, <1>2

\* Every image has its turn, but rootfs, which only the NAS build burns.
LEMMA FlowCovers == \A i \in Images \ {"rootfs"} : \E k \in 1..22 : Flow[k] = i
<1>1. /\ Flow[1] = "etc" /\ Flow[2] = "kernel" /\ Flow[3] = "rescue_dt"
      /\ Flow[4] = "kernel_dt" /\ Flow[5] = "rescue_rootfs"
      /\ Flow[6] = "kernel_rootfs" /\ Flow[7] = "audio" /\ Flow[8] = "dalogo"
      /\ Flow[9] = "dilogo" /\ Flow[10] = "dvlogo" /\ Flow[11] = "res"
      /\ Flow[12] = "cache" /\ Flow[13] = "data" /\ Flow[14] = "system"
  BY DEF Flow
<1>2. /\ Flow[15] = "p1" /\ Flow[16] = "p2" /\ Flow[17] = "p3" /\ Flow[18] = "p4"
      /\ Flow[19] = "p5" /\ Flow[20] = "p6" /\ Flow[21] = "p7" /\ Flow[22] = "p8"
  BY DEF Flow
<1>3. QED BY <1>1, <1>2 DEF Images, Fws, Dts, Logos, Partitions, Others

\* The format loop names each partition once.
LEMMA FormatPartitions ==
  /\ \A k \in 1..14 : FormatOrder[k] \in Partitions
  /\ \A j, k \in 1..14 : FormatOrder[j] = FormatOrder[k] => j = k
BY DEF FormatOrder, Partitions, Others

\* Firmware and partitions are different images, and SUCCESS is neither.
LEMMA ImageKinds ==
  /\ Images = Fws \cup Partitions /\ Fws \cap Partitions = {} /\ "SUCCESS" \notin Images
  /\ Logos \subseteq Fws /\ Dts \subseteq Fws /\ Logos \cap Dts = {}
BY DEF Images, Fws, Partitions, Dts, Logos, Others

\* The positions the loops stop at.
LEMMA Ends == FORMATTED = 15 /\ COMPLETE = 23
BY DEF FORMATTED, COMPLETE

-----------------------------------------------------------------------------
(* The table's operations.                                                   *)

\* Removing a name keeps a list of partitions, and every other name in it.
LEMMA WithoutKeeps ==
  ASSUME NEW s \in Seq(Partitions), NEW name \in Partitions
  PROVE  /\ Without(s, name) \in Seq(Partitions)
         /\ \A i \in Partitions \ {name} :
              (\E k \in 1..Len(Without(s, name)) : Without(s, name)[k] = i)
                <=> (\E k \in 1..Len(s) : s[k] = i)
<1>1. CASE ~ \E k \in 1..Len(s) : s[k] = name
  BY <1>1 DEF Without
<1>2. CASE \E k \in 1..Len(s) : s[k] = name
  <2> DEFINE at == CHOOSE k \in 1..Len(s) : s[k] = name
             w  == [k \in 1..(Len(s) - 1) |-> IF k = at THEN s[Len(s)] ELSE s[k]]
  <2>1. at \in 1..Len(s) /\ s[at] = name
    BY <1>2
  <2>2. Without(s, name) = w
    BY <1>2 DEF Without
  <2> HIDE DEF at
  <2>3. w \in Seq(Partitions) /\ Len(w) = Len(s) - 1
    <3>1. Len(s) \in Nat \ {0} /\ \A k \in 1..Len(s) : s[k] \in Partitions
      BY <2>1
    <3>2. w \in [1..(Len(s) - 1) -> Partitions]
      BY <2>1, <3>1
    <3> QED BY <3>1, <3>2
  <2>4. ASSUME NEW i \in Partitions \ {name}
        PROVE  (\E k \in 1..Len(w) : w[k] = i) <=> (\E k \in 1..Len(s) : s[k] = i)
    <3>1. ASSUME NEW k \in 1..Len(w), w[k] = i PROVE \E l \in 1..Len(s) : s[l] = i
      BY <2>1, <2>3, <3>1
    <3>2. ASSUME NEW k \in 1..Len(s), s[k] = i PROVE \E l \in 1..Len(w) : w[l] = i
      <4>1. CASE k = Len(s)
        <5>1. at \in 1..Len(w) /\ w[at] = i
          BY <2>1, <2>3, <3>2, <4>1
        <5> QED BY <5>1
      <4>2. CASE k # Len(s)
        <5>1. k \in 1..Len(w) /\ w[k] = i
          BY <2>1, <2>3, <3>2, <4>2
        <5> QED BY <5>1
      <4> QED BY <4>1, <4>2
    <3> QED BY <3>1, <3>2
  <2> HIDE DEF w
  <2> QED BY <2>2, <2>3, <2>4
<1> QED BY <1>1, <1>2

\* Entering an image adds it to the table and nothing else.
LEMMA EnterAdds ==
  ASSUME TypeOK, NEW i \in Images, Enter(i)
  PROVE  /\ part' \in Seq(Partitions)
         /\ fw' \in [Fws -> {"zero", "this", "earlier"}]
         /\ \A j \in Images : Entered(j)' <=> Entered(j) \/ j = i
         /\ \A j \in Fws \ {i} : fw'[j] = fw[j]
<1>1. CASE i \in Fws
  BY <1>1, ImageKinds DEF Enter, TypeOK, Entered, Listed
<1>2. CASE i \notin Fws
  <2>1. i \in Partitions /\ fw' = fw
    BY <1>2, ImageKinds DEF Enter
  <2>2. PICK s : /\ s = part \/ s = Without(part, i)
                 /\ part' = Append(s, i)
    BY <1>2 DEF Enter
  <2>3. /\ s \in Seq(Partitions)
        /\ \A j \in Partitions \ {i} : (\E k \in 1..Len(s) : s[k] = j) <=> Listed(j)
    <3>1. part \in Seq(Partitions)
      BY DEF TypeOK
    <3>2. CASE s = part
      BY <3>1, <3>2 DEF Listed
    <3>3. CASE s = Without(part, i)
      <4>1. /\ Without(part, i) \in Seq(Partitions)
            /\ \A j \in Partitions \ {i} :
                 (\E k \in 1..Len(Without(part, i)) : Without(part, i)[k] = j)
                   <=> (\E k \in 1..Len(part) : part[k] = j)
        BY <2>1, <3>1, WithoutKeeps
      <4> QED BY <3>3, <4>1 DEF Listed
    <3> QED BY <2>2, <3>2, <3>3
  <2>4. /\ part' \in Seq(Partitions) /\ Len(part') = Len(s) + 1
        /\ \A k \in 1..Len(s) : part'[k] = s[k]
        /\ part'[Len(s) + 1] = i
    BY <2>1, <2>2, <2>3
  <2>5. Len(s) \in Nat
    BY <2>3
  <2>6. ASSUME NEW j \in Partitions PROVE Listed(j)' <=> Listed(j) \/ j = i
    <3>1. Listed(j)' <=> (\E k \in 1..Len(s) : s[k] = j) \/ j = i
      <4>1. Listed(j)' <=> \E k \in 1..(Len(s) + 1) : part'[k] = j
        BY <2>4 DEF Listed
      <4> QED BY <2>4, <2>5, <4>1
    <3> QED BY <2>3, <3>1
  <2> QED BY <2>1, <2>4, <2>6, <1>2, ImageKinds DEF Entered, TypeOK
<1> QED BY <1>1, <1>2

\* Clearing an image's entry leaves the other entries, and only drops it.
LEMMA ClearDrops ==
  ASSUME TypeOK, NEW i \in Images, Clear(i), part' = part
  PROVE  /\ fw' \in [Fws -> {"zero", "this", "earlier"}]
         /\ \A j \in Images : Entered(j)' => Entered(j)
         /\ \A j \in Images : Entered(j) /\ ~(j = i /\ i \in Logos) => Entered(j)'
         /\ \A j \in Fws : fw'[j] = fw[j] \/ fw'[j] = "zero"
         /\ i \in Logos => fw'[i] = "zero"
BY ImageKinds DEF Clear, TypeOK, Entered, Listed

-----------------------------------------------------------------------------
(* The type invariant.                                                       *)

\* What Current names while the flow runs.
LEMMA CurrentImage ==
  ASSUME TypeOK, Running
  PROVE  /\ Current \in Images
         /\ Formatting  => fmt \in 1..14 /\ Current = FormatOrder[fmt]
                             /\ Current \in Partitions
         /\ ~Formatting => fmt = FORMATTED /\ tag \in 1..22 /\ Current = Flow[tag]
<1>1. tag \in 1..22
  BY Ends DEF TypeOK, Running
<1>2. Formatting => fmt \in 1..14
  BY Ends DEF TypeOK, Formatting
<1>3. ~Formatting => fmt = FORMATTED
  BY Ends DEF TypeOK, Formatting
<1>4. QED BY <1>1, <1>2, <1>3, FlowOrder, FormatPartitions, ImageKinds DEF Current

\* One turn of either loop.
LEMMA AdvanceOne ==
  ASSUME TypeOK, Running, Advance
  PROVE  /\ fmt' \in 1..FORMATTED /\ tag' \in 1..COMPLETE
         /\ Formatting  => fmt' = fmt + 1 /\ tag' = tag
         /\ ~Formatting => fmt' = fmt /\ tag' = tag + 1 /\ ~Formatting'
<1>1. CASE Formatting
  <2>1. fmt' = fmt + 1 /\ tag' = tag /\ fmt \in 1..14
    BY <1>1, CurrentImage DEF Advance
  <2> QED BY <1>1, <2>1, Ends DEF TypeOK
<1>2. CASE ~Formatting
  <2>1. tag' = tag + 1 /\ fmt' = fmt /\ tag \in 1..22 /\ fmt = FORMATTED
    BY <1>2, CurrentImage DEF Advance
  <2> QED BY <1>2, <2>1, Ends DEF TypeOK, Formatting
<1>3. QED BY <1>1, <1>2

\* The variables keep their types.
THEOREM TypeCorrect == Spec => []TypeOK
<1>1. Init => TypeOK
  <2> SUFFICES ASSUME Init PROVE TypeOK
    OBVIOUS
  <2>1. fmt \in 1..FORMATTED /\ tag \in 1..COMPLETE
    BY Ends DEF Init
  <2>2. part \in Seq(Partitions)
    BY DEF Init, RecoveredParts
  <2>3. fw \in [Fws -> {"zero", "this", "earlier"}]
    BY DEF Init
  <2>4. QED BY <2>1, <2>2, <2>3 DEF Init, TypeOK
<1>2. TypeOK /\ [Next]_vars => TypeOK'
  <2> SUFFICES ASSUME TypeOK, [Next]_vars PROVE TypeOK'
    OBVIOUS
  <2>1. CASE Skip
    <3>1. Running /\ Clear(Current) /\ Advance /\ part' = part
      BY <2>1 DEF Skip
    <3>2. /\ fw' \in [Fws -> {"zero", "this", "earlier"}]
          /\ fmt' \in 1..FORMATTED /\ tag' \in 1..COMPLETE
      BY <3>1, CurrentImage, ClearDrops, AdvanceOne
    <3> QED BY <2>1, <3>1, <3>2 DEF Skip, TypeOK
  <2>2. CASE Begin
    BY <2>2 DEF Begin, TypeOK, table
  <2>3. CASE Burned
    <3>1. Running /\ Enter(Current) /\ Advance
      BY <2>3 DEF Burned
    <3>2. /\ fw' \in [Fws -> {"zero", "this", "earlier"}] /\ part' \in Seq(Partitions)
          /\ fmt' \in 1..FORMATTED /\ tag' \in 1..COMPLETE
      BY <3>1, CurrentImage, EnterAdds, AdvanceOne
    <3> QED BY <2>3, <3>2 DEF Burned, TypeOK
  <2>4. CASE NothingToWrite
    <3>1. Running /\ Enter(Current) /\ Advance
      BY <2>4 DEF NothingToWrite
    <3>2. /\ fw' \in [Fws -> {"zero", "this", "earlier"}] /\ part' \in Seq(Partitions)
          /\ fmt' \in 1..FORMATTED /\ tag' \in 1..COMPLETE
      BY <3>1, CurrentImage, EnterAdds, AdvanceOne
    <3> QED BY <2>4, <3>2 DEF NothingToWrite, TypeOK
  <2>5. CASE Fails
    <3>1. Running /\ Current \in Images
      BY <2>5, CurrentImage DEF Fails
    <3>2. CASE Tolerates(Current)
      <4>1. Clear(Current) /\ Advance /\ part' = part /\ ret' = ret
        BY <2>5, <3>2 DEF Fails
      <4>2. /\ fw' \in [Fws -> {"zero", "this", "earlier"}]
            /\ fmt' \in 1..FORMATTED /\ tag' \in 1..COMPLETE
        BY <3>1, <4>1, ClearDrops, AdvanceOne
      <4> QED BY <2>5, <4>1, <4>2 DEF Fails, TypeOK
    <3>3. CASE ~Tolerates(Current)
      BY <2>5, <3>1, <3>3 DEF Fails, TypeOK
    <3> QED BY <3>2, <3>3
  <2>6. CASE Complete
    BY <2>6 DEF Complete, TypeOK
  <2>7. CASE UNCHANGED vars
    BY <2>7 DEF vars, TypeOK
  <2> QED BY <2>1, <2>2, <2>3, <2>4, <2>5, <2>6, <2>7 DEF Next
<1>3. QED BY <1>1, <1>2, PTL DEF Spec

-----------------------------------------------------------------------------
(* The inductive invariant.                                                  *)

\* The format comes before the flow, and only the end of the flow is complete.
Phases ==
  /\ Formatting => tag = 1 /\ boottype # "COMPLETE"
  /\ boottype = "COMPLETE" => tag = COMPLETE

\* The image being written is one whose turn it is and that is to be written.
Writing ==
  busy => /\ Running
          /\ ~Skips(Current)
          /\ Formatting  => Kind(Current) = "null"
          /\ ~Formatting => Kind(Current) \in {"file", "erase"}

\* The current image may be half written, also after a failure that ends the burn.
Midway == busy \/ ret # "SUCCESS"

\* Partitions whose format is to come are as they were.
FormatAhead ==
  \A k \in fmt..14 :
    Kind(FormatOrder[k]) = "null" =>
      region[FormatOrder[k]] = "old" \/ (Midway /\ Formatting /\ k = fmt)

\* Images whose turn is to come are as they were and not in the table, but for
\* the ones that were formatted.
FlowAhead ==
  \A k \in tag..22 :
    Kind(Flow[k]) # "null" =>
      /\ ~Entered(Flow[k])
      /\ region[Flow[k]] = "old" \/ (Midway /\ ~Formatting /\ k = tag)

\* What the flow has passed is in the table if it is needed.
Behind ==
  \A k \in 1..(tag - 1) :
    /\ Flow[k] \in Required => Entered(Flow[k])
    /\ Flow[k] \in Fws /\ fw[Flow[k]] = "earlier" => Flow[k] \in Dts /\ ~pkg.install_dtb

IInv ==
  TypeOK /\ Phases /\ Writing /\ FormatAhead /\ FlowAhead /\ Behind /\ ListedIsWhole

-----------------------------------------------------------------------------
\* The package fixes what is needed and how each image is burned.
LEMMA PackageFixed ==
  ASSUME pkg' = pkg
  PROVE  Required' = Required /\ \A i \in Images : Kind(i)' = Kind(i)
BY DEF Required, UpdateEtc, RecoveredParts, Kind

\* An image that is passed over is not needed.
LEMMA SkippedNotNeeded ==
  ASSUME TypeOK, Running, ~Formatting, Skips(Current)
  PROVE  /\ Current \notin Required
         /\ Current \in Fws => Current \in Logos \/ (Current \in Dts /\ ~pkg.install_dtb)
<1>1. Current \in Images
  BY CurrentImage
<1>2. UpdateEtc(pkg)
  BY DEF UpdateEtc, RecoveredParts
<1>3. \/ Current \in Dts /\ ~pkg.install_dtb
      \/ Current \in Logos \cup Others \cup {"res", "etc"} /\ Current \notin pkg.sized
  BY <1>2 DEF Skips
<1>4. QED BY <1>3 DEF Required, Dts, Logos, Others, Fws

\* A failure is passed over only for an image that is not needed.
LEMMA ToleratedNotNeeded ==
  ASSUME Tolerates(Current)
  PROVE  /\ Current \notin Required /\ ~Formatting
         /\ Current \in Fws => Current \in Logos
BY DEF Tolerates, Required, Dts, Logos, Others, Fws

\* Every step that ends the turn of the current image keeps the invariant if it
\* leaves the other images alone and enters this one when it must, and only then.
LEMMA PassOn ==
  ASSUME IInv, TypeOK', Running, Advance, pkg' = pkg, boottype' = boottype,
         ret' = ret, busy' = FALSE, NEW i, i = Current,
         \A j \in Images \ {i} : region'[j] = region[j],
         \A j \in Images \ {i} : Entered(j)' <=> Entered(j),
         \A j \in Fws \ {i} : fw'[j] = fw[j],
         Entered(i)' => Holds(i)',
         Formatting /\ Kind(i) # "null" =>
           region'[i] = region[i] /\ (Entered(i)' <=> Entered(i)),
         ~Formatting /\ i \in Required => Entered(i)',
         ~Formatting /\ i \in Fws /\ fw'[i] = "earlier" =>
           i \in Dts /\ ~pkg.install_dtb
  PROVE  IInv'
<1>1. i \in Images /\ TypeOK
  BY CurrentImage DEF IInv
<1>2. Required' = Required /\ \A j \in Images : Kind(j)' = Kind(j)
  BY PackageFixed
<1>3. /\ ~Midway'
      /\ ret = "SUCCESS"
  BY DEF Midway, Running
<1>4. /\ Formatting  => fmt' = fmt + 1 /\ tag' = tag /\ fmt \in 1..14
                          /\ i = FormatOrder[fmt]
      /\ ~Formatting => fmt' = fmt /\ tag' = tag + 1 /\ ~Formatting' /\ fmt = FORMATTED
                          /\ tag \in 1..22 /\ i = Flow[tag]
  BY <1>1, AdvanceOne, CurrentImage
<1>5. Phases'
  <2>1. boottype # "COMPLETE"
    BY Ends DEF IInv, Phases, Running
  <2>2. Formatting' => tag' = 1
    BY <1>4 DEF IInv, Phases
  <2> QED BY <2>1, <2>2 DEF Phases
<1>6. Writing'
  BY DEF Writing
<1>7. FormatAhead'
  <2>1. ASSUME NEW k \in fmt'..14, Kind(FormatOrder[k])' = "null"
        PROVE  region'[FormatOrder[k]] = "old"
    <3>1. Formatting /\ fmt' = fmt + 1 /\ k \in fmt..14 /\ k # fmt /\ k \in 1..14
      BY <1>1, <1>4, Ends DEF TypeOK, Formatting
    <3>2. FormatOrder[k] # i /\ FormatOrder[k] \in Images
      BY <1>4, <3>1, FormatPartitions, ImageKinds
    <3>3. region[FormatOrder[k]] = "old"
      BY <1>2, <2>1, <3>1, <3>2 DEF IInv, FormatAhead
    <3> QED BY <3>2, <3>3
  <2> QED BY <2>1 DEF FormatAhead
<1>8. FlowAhead'
  <2>1. ASSUME NEW k \in tag'..22, Kind(Flow[k])' # "null"
        PROVE  ~Entered(Flow[k])' /\ region'[Flow[k]] = "old"
    <3>1. k \in tag..22 /\ k \in 1..22 /\ Flow[k] \in Images
      <4>1. tag \in Nat /\ tag >= 1 /\ (tag' = tag \/ tag' = tag + 1)
        BY <1>1, <1>4 DEF TypeOK
      <4>2. k \in tag..22 /\ k \in 1..22
        BY <4>1
      <4> QED BY <4>2, FlowOrder
    <3>2. Kind(Flow[k]) # "null"
      BY <1>2, <2>1, <3>1
    <3>3. ~(~Formatting /\ k = tag)
      BY <1>1, <1>4 DEF TypeOK
    <3>4. ~Entered(Flow[k]) /\ region[Flow[k]] = "old"
      BY <3>1, <3>2, <3>3 DEF IInv, FlowAhead
    <3>5. CASE Flow[k] = i
      <4>1. Formatting
        BY <1>4, <3>1, <3>3, <3>5, FlowOrder
      <4> QED BY <3>2, <3>4, <3>5, <4>1
    <3>6. CASE Flow[k] # i
      BY <3>1, <3>4, <3>6
    <3> QED BY <3>5, <3>6
  <2> QED BY <2>1 DEF FlowAhead
<1>9. Behind'
  <2>1. ASSUME NEW k \in 1..(tag' - 1)
        PROVE  /\ Flow[k] \in Required => Entered(Flow[k])'
               /\ Flow[k] \in Fws /\ fw'[Flow[k]] = "earlier"
                    => Flow[k] \in Dts /\ ~pkg.install_dtb
    <3>1. k \in 1..22 /\ (k \in 1..(tag - 1) \/ (~Formatting /\ k = tag))
      <4>1. tag \in 1..23 /\ tag' \in 1..23
        BY <1>1, Ends DEF TypeOK
      <4>2. CASE Formatting
        BY <1>4, <4>1, <4>2
      <4>3. CASE ~Formatting
        BY <1>4, <4>1, <4>3
      <4> QED BY <4>2, <4>3
    <3>2. CASE ~Formatting /\ k = tag
      BY <1>4, <3>2
    <3>3. CASE k \in 1..(tag - 1)
      <4>1. ~Formatting
        BY <1>1, <3>3 DEF IInv, Phases
      <4>2. Flow[k] \in Images /\ Flow[k] # i
        BY <1>4, <3>1, <3>3, <4>1, FlowOrder
      <4>3. /\ Flow[k] \in Required => Entered(Flow[k])
            /\ Flow[k] \in Fws /\ fw[Flow[k]] = "earlier"
                 => Flow[k] \in Dts /\ ~pkg.install_dtb
        BY <3>3 DEF IInv, Behind
      <4> QED BY <4>2, <4>3
    <3> QED BY <3>1, <3>2, <3>3
  <2> QED BY <1>2, <2>1 DEF Behind
<1>10. ListedIsWhole'
  <2>1. ASSUME NEW j \in Images, Entered(j)' PROVE Holds(j)'
    <3>1. CASE j = i
      BY <2>1, <3>1
    <3>2. CASE j # i
      <4>1. Holds(j) /\ region'[j] = region[j]
        BY <2>1, <3>2 DEF IInv, ListedIsWhole
      <4> QED BY <1>2, <4>1 DEF Holds
    <3> QED BY <3>1, <3>2
  <2> QED BY <2>1 DEF ListedIsWhole
<1>11. QED BY <1>5, <1>6, <1>7, <1>8, <1>9, <1>10 DEF IInv

-----------------------------------------------------------------------------
(* The steps.                                                                *)

LEMMA InitInvariant == Init => IInv
<1> SUFFICES ASSUME Init PROVE IInv
  OBVIOUS
<1>1. TypeOK
  <2>1. fmt \in 1..FORMATTED /\ tag \in 1..COMPLETE
    BY Ends DEF Init
  <2>2. part \in Seq(Partitions)
    BY DEF Init, RecoveredParts
  <2>3. fw \in [Fws -> {"zero", "this", "earlier"}]
    BY DEF Init
  <2>4. QED BY <2>1, <2>2, <2>3 DEF Init, TypeOK
<1>2. \A i \in Images : ~Entered(i) /\ region[i] = "old"
  BY ImageKinds DEF Init, Entered, Listed, RecoveredParts
<1>3. Phases /\ Writing
  BY DEF Init, Phases, Writing
<1>4. FormatAhead
  <2>1. \A k \in fmt..14 : FormatOrder[k] \in Images
    BY <1>1, FormatPartitions, ImageKinds, SMTT(20) DEF TypeOK
  <2> QED BY <1>2, <2>1 DEF FormatAhead
<1>5. FlowAhead
  <2>1. \A k \in tag..22 : Flow[k] \in Images
    <3>1. tag = 1
      BY DEF Init
    <3> QED BY <3>1, FlowOrder
  <2> QED BY <1>2, <2>1 DEF FlowAhead
<1>6. Behind
  BY DEF Init, Behind
<1>7. ListedIsWhole
  BY <1>2 DEF ListedIsWhole
<1>8. QED BY <1>1, <1>3, <1>4, <1>5, <1>6, <1>7 DEF IInv

\* What is about to be written is as it was, and not in the table.
LEMMA FreshBefore ==
  ASSUME IInv, Running, ~Skips(Current), ~busy, Kind(Current) # "null" \/ Formatting
  PROVE  region[Current] = "old" /\ (Kind(Current) # "none" => ~Entered(Current))
<1>1. Current \in Images /\ TypeOK /\ ~Midway
  BY CurrentImage DEF IInv, Midway, Running
<1>2. CASE Formatting
  <2>1. Kind(Current) = "null" /\ Current = FormatOrder[fmt] /\ fmt \in fmt..14
    BY <1>1, <1>2, CurrentImage DEF Skips, IInv
  <2>2. region[Current] = "old"
    BY <1>1, <2>1 DEF IInv, FormatAhead
  <2> QED BY <1>1, <2>1, <2>2 DEF IInv, ListedIsWhole, Holds
<1>3. CASE ~Formatting
  <2>1. Current = Flow[tag] /\ tag \in tag..22 /\ Kind(Flow[tag]) # "null"
    BY <1>1, <1>3, CurrentImage DEF IInv
  <2> QED BY <1>1, <2>1 DEF IInv, FlowAhead
<1>4. QED BY <1>2, <1>3

LEMMA SkipInvariant == IInv /\ TypeOK' /\ Skip => IInv'
<1> SUFFICES ASSUME IInv, TypeOK', Skip PROVE IInv'
  OBVIOUS
<1>1. PICK i : i = Current
  OBVIOUS
<1>2. /\ TypeOK /\ Running /\ Skips(i) /\ Clear(i) /\ Advance /\ ~busy
      /\ UNCHANGED <<pkg, busy, part, boottype, ret, region>>
  BY <1>1 DEF Skip, IInv
<1>3. i \in Images /\ (Formatting => i \in Partitions)
  BY <1>1, <1>2, CurrentImage
<1>4. /\ \A j \in Images : Entered(j)' => Entered(j)
      /\ \A j \in Images : Entered(j) /\ ~(j = i /\ i \in Logos) => Entered(j)'
      /\ \A j \in Fws \ {i} : fw'[j] = fw[j]
      /\ i \in Logos => fw'[i] = "zero"
  BY <1>2, <1>3, ClearDrops DEF Clear, TypeOK
<1>5. Holds(i)' <=> Holds(i)
  BY <1>2, <1>3, PackageFixed DEF Holds
<1>6. Entered(i)' => Holds(i)'
  BY <1>3, <1>4, <1>5 DEF IInv, ListedIsWhole
<1>7. ~Formatting => i \notin Required /\ (i \in Fws => i \in Logos \/ (i \in Dts /\ ~pkg.install_dtb))
  BY <1>1, <1>2, SkippedNotNeeded
<1>8. Formatting => (Entered(i)' <=> Entered(i))
  BY <1>3, <1>4, ImageKinds
<1>9. /\ \A j \in Images \ {i} : region'[j] = region[j]
      /\ \A j \in Images \ {i} : Entered(j)' <=> Entered(j)
      /\ Formatting /\ Kind(i) # "null" =>
           region'[i] = region[i] /\ (Entered(i)' <=> Entered(i))
  BY <1>2, <1>4, <1>8
<1>10. ~Formatting /\ i \in Fws /\ fw'[i] = "earlier" => i \in Dts /\ ~pkg.install_dtb
  BY <1>4, <1>7
<1>11. busy' = FALSE /\ pkg' = pkg /\ boottype' = boottype /\ ret' = ret
  BY <1>2 DEF TypeOK
<1>12. QED BY <1>1, <1>2, <1>4, <1>6, <1>7, <1>9, <1>10, <1>11, PassOn

LEMMA BeginInvariant == IInv /\ TypeOK' /\ Begin => IInv'
<1> SUFFICES ASSUME IInv, TypeOK', Begin PROVE IInv'
  OBVIOUS
<1>1. PICK i : i = Current
  OBVIOUS
<1>2. /\ TypeOK /\ Running /\ ~busy /\ ~Skips(i) /\ Writes(i)
      /\ busy' /\ region' = [region EXCEPT ![i] = "torn"]
      /\ UNCHANGED <<pkg, fmt, tag, table, ret>>
  BY <1>1 DEF Begin, IInv
<1>3. i \in Images
  BY <1>1, <1>2, CurrentImage
<1>4. /\ Required' = Required /\ \A j \in Images : Kind(j)' = Kind(j)
      /\ Current' = Current /\ Formatting' = Formatting /\ Running' = Running
      /\ \A j \in Images : Entered(j)' = Entered(j)
      /\ Skips(Current)' = Skips(Current)
  <2>1. Required' = Required /\ \A j \in Images : Kind(j)' = Kind(j)
    BY <1>2, PackageFixed
  <2>2. Current' = Current /\ Formatting' = Formatting /\ Running' = Running
    BY <1>2 DEF Current, Formatting, Running
  <2>3. \A j \in Images : Entered(j)' = Entered(j)
    BY <1>2 DEF Entered, Listed, table
  <2>4. Skips(Current)' = Skips(Current)
    BY <1>2, <2>2 DEF Skips, Kind, Listed, UpdateEtc, RecoveredParts, table
  <2> QED BY <2>1, <2>2, <2>3, <2>4
<1>5. /\ Kind(i) \in {"file", "erase", "null"}
      /\ Formatting => Kind(i) = "null"
      /\ ~Formatting => Kind(i) # "null"
  BY <1>2 DEF Writes, Skips
<1>6. region[i] = "old" /\ ~Entered(i)
  BY <1>1, <1>2, <1>5, FreshBefore
<1>7. Phases'
  BY <1>2, <1>4 DEF IInv, Phases, table
<1>8. Writing'
  BY <1>1, <1>2, <1>3, <1>4, <1>5 DEF Writing
<1>9. \A j \in Images \ {i} : region'[j] = region[j]
  BY <1>2 DEF TypeOK
<1>10. FormatAhead'
  <2>1. ASSUME NEW k \in fmt'..14, Kind(FormatOrder[k])' = "null"
        PROVE  region'[FormatOrder[k]] = "old" \/ (Formatting /\ k = fmt)
    <3>1. k \in 1..14 /\ k \in fmt..14 /\ FormatOrder[k] \in Images
      BY <1>2, FormatPartitions, ImageKinds, SMTT(20) DEF TypeOK
    <3>2. region[FormatOrder[k]] = "old" /\ Kind(FormatOrder[k]) = "null"
      BY <1>2, <1>4, <2>1, <3>1 DEF IInv, FormatAhead, Midway, Running
    <3>3. FormatOrder[k] = i => Formatting /\ k = fmt
      BY <1>1, <1>2, <1>5, <3>1, <3>2, CurrentImage, FormatPartitions
    <3> QED BY <1>9, <3>1, <3>2, <3>3
  <2> QED BY <1>2, <1>4, <2>1 DEF FormatAhead, Midway
<1>11. FlowAhead'
  <2>1. ASSUME NEW k \in tag'..22, Kind(Flow[k])' # "null"
        PROVE  /\ ~Entered(Flow[k])'
               /\ region'[Flow[k]] = "old" \/ (~Formatting /\ k = tag)
    <3>1. k \in 1..22 /\ k \in tag..22 /\ Flow[k] \in Images
      <4>1. tag' = tag /\ tag \in 1..23
        BY <1>2, Ends DEF TypeOK
      <4>2. k \in 1..22 /\ k \in tag..22
        BY <4>1
      <4> QED BY <4>2, FlowOrder
    <3>2. region[Flow[k]] = "old" /\ ~Entered(Flow[k]) /\ Kind(Flow[k]) # "null"
      BY <1>2, <1>4, <2>1, <3>1 DEF IInv, FlowAhead, Midway, Running
    <3>3. Flow[k] = i => ~Formatting /\ k = tag
      BY <1>1, <1>2, <1>5, <3>1, <3>2, CurrentImage, FlowOrder
    <3> QED BY <1>4, <1>9, <3>1, <3>2, <3>3
  <2> QED BY <1>2, <1>4, <2>1 DEF FlowAhead, Midway
<1>12. Behind'
  <2>1. ASSUME NEW k \in 1..(tag' - 1) PROVE k \in 1..(tag - 1) /\ Flow[k] \in Images
    <3>1. tag' = tag /\ tag \in 1..23
      BY <1>2, Ends DEF TypeOK
    <3>2. k \in 1..22 /\ k \in 1..(tag - 1)
      BY <3>1
    <3> QED BY <3>2, FlowOrder
  <2> QED BY <1>2, <1>4, <2>1 DEF IInv, Behind, table
<1>13. ListedIsWhole'
  <2>1. ASSUME NEW j \in Images, Entered(j)' PROVE Holds(j)'
    <3>1. Entered(j) /\ j # i /\ Holds(j)
      BY <1>4, <1>6, <2>1 DEF IInv, ListedIsWhole
    <3> QED BY <1>4, <1>9, <3>1 DEF Holds
  <2> QED BY <2>1 DEF ListedIsWhole
<1>14. QED BY <1>7, <1>8, <1>10, <1>11, <1>12, <1>13 DEF IInv

\* Entering an image that is as it should be, at the end of its turn.
LEMMA EnterInvariant ==
  ASSUME IInv, TypeOK', NEW i, i = Current, Running, Enter(i), Advance,
         UNCHANGED <<pkg, boottype, ret>>, busy' = FALSE,
         \A j \in Images \ {i} : region'[j] = region[j],
         region'[i] = "new" \/ Kind(i) = "none",
         Formatting => Kind(i) = "null"
  PROVE  IInv'
<1>1. TypeOK /\ i \in Images
  BY CurrentImage DEF IInv
<1>2. /\ \A j \in Images : Entered(j)' <=> Entered(j) \/ j = i
      /\ \A j \in Fws \ {i} : fw'[j] = fw[j]
  BY <1>1, EnterAdds
<1>3. Holds(i)' /\ Entered(i)'
  BY <1>1, <1>2, PackageFixed DEF Holds
<1>4. ~(i \in Fws /\ fw'[i] = "earlier")
  BY <1>3 DEF Entered
<1>5. \A j \in Images \ {i} : Entered(j)' <=> Entered(j)
  BY <1>2
<1>6. pkg' = pkg /\ boottype' = boottype /\ ret' = ret
  OBVIOUS
<1>7. QED BY <1>2, <1>3, <1>4, <1>5, <1>6, PassOn

LEMMA BurnedInvariant == IInv /\ TypeOK' /\ Burned => IInv'
<1> SUFFICES ASSUME IInv, TypeOK', Burned PROVE IInv'
  OBVIOUS
<1>1. PICK i : i = Current
  OBVIOUS
<1>2. /\ TypeOK /\ Running /\ busy /\ Enter(i) /\ Advance
      /\ busy' = FALSE /\ region' = [region EXCEPT ![i] = "new"]
      /\ UNCHANGED <<pkg, boottype, ret>>
  BY <1>1 DEF Burned, IInv
<1>3. i \in Images
  BY <1>1, <1>2, CurrentImage
<1>4. region'[i] = "new" /\ \A j \in Images \ {i} : region'[j] = region[j]
  BY <1>2, <1>3 DEF TypeOK
<1>5. Formatting => Kind(i) = "null"
  BY <1>1, <1>2 DEF IInv, Writing
<1>6. QED BY <1>1, <1>2, <1>4, <1>5, EnterInvariant

LEMMA NothingToWriteInvariant == IInv /\ TypeOK' /\ NothingToWrite => IInv'
<1> SUFFICES ASSUME IInv, TypeOK', NothingToWrite PROVE IInv'
  OBVIOUS
<1>1. PICK i : i = Current
  OBVIOUS
<1>2. /\ TypeOK /\ Running /\ ~busy /\ ~Skips(i) /\ Kind(i) = "none"
      /\ Enter(i) /\ Advance
      /\ UNCHANGED <<pkg, busy, boottype, ret, region>>
  BY <1>1 DEF NothingToWrite, IInv
<1>3. Formatting => Kind(i) = "null"
  BY <1>2 DEF Skips
<1>4. busy' = FALSE
  BY <1>2 DEF TypeOK
<1>5. QED BY <1>1, <1>2, <1>3, <1>4, EnterInvariant

LEMMA FailsInvariant == IInv /\ TypeOK' /\ Fails => IInv'
<1> SUFFICES ASSUME IInv, TypeOK', Fails PROVE IInv'
  OBVIOUS
<1>1. PICK i : i = Current
  OBVIOUS
<1>2. /\ TypeOK /\ Running /\ busy' = FALSE
      /\ UNCHANGED <<pkg, boottype, region>>
  BY DEF Fails, IInv
<1>3. i \in Images
  BY <1>1, <1>2, CurrentImage
<1>4. CASE Tolerates(i)
  <2>1. Clear(i) /\ Advance /\ part' = part /\ ret' = ret
    BY <1>1, <1>4 DEF Fails
  <2>2. /\ \A j \in Images : Entered(j)' => Entered(j)
        /\ \A j \in Images : Entered(j) /\ ~(j = i /\ i \in Logos) => Entered(j)'
        /\ \A j \in Fws \ {i} : fw'[j] = fw[j]
        /\ i \in Logos => fw'[i] = "zero"
    BY <1>2, <1>3, <2>1, ClearDrops DEF Clear, TypeOK
  <2>3. i \notin Required /\ ~Formatting /\ (i \in Fws => i \in Logos)
    BY <1>1, <1>4, ToleratedNotNeeded
  <2>4. Holds(i)' <=> Holds(i)
    BY <1>2, <1>3, PackageFixed DEF Holds
  <2>5. Entered(i)' => Holds(i)'
    BY <1>3, <2>2, <2>4 DEF IInv, ListedIsWhole
  <2>6. \A j \in Images \ {i} : Entered(j)' <=> Entered(j)
    BY <2>2
  <2>7. ~Formatting /\ i \in Fws /\ fw'[i] = "earlier" => i \in Dts /\ ~pkg.install_dtb
    BY <2>2, <2>3
  <2>8. /\ pkg' = pkg /\ boottype' = boottype
        /\ \A j \in Images \ {i} : region'[j] = region[j]
    BY <1>2
  <2> QED BY <1>1, <1>2, <2>1, <2>2, <2>3, <2>5, <2>6, <2>7, <2>8, PassOn
<1>5. CASE ~Tolerates(i)
  <2>1. ret' = i /\ UNCHANGED <<fmt, tag, fw, part>>
    BY <1>1, <1>5 DEF Fails
  <2>2. /\ Required' = Required /\ \A j \in Images : Kind(j)' = Kind(j)
        /\ \A j \in Images : (Entered(j)' <=> Entered(j)) /\ (Holds(j)' <=> Holds(j))
        /\ Formatting' = Formatting
    <3>1. Required' = Required /\ \A j \in Images : Kind(j)' = Kind(j)
      BY <1>2, PackageFixed
    <3> QED BY <1>2, <2>1, <3>1 DEF Entered, Listed, Holds, Formatting
  <2>3. Midway'
    BY <1>3, <2>1, ImageKinds DEF Midway
  <2>4. Phases' /\ Writing'
    BY <1>2, <2>1, <2>2 DEF IInv, Phases, Writing
  <2>5. FormatAhead'
    <3>1. ASSUME NEW k \in fmt..14 PROVE FormatOrder[k] \in Images
      <4>1. fmt \in 1..15
        BY <1>2, Ends DEF TypeOK
      <4>2. k \in 1..14
        BY <4>1
      <4> QED BY <4>2, FormatPartitions, ImageKinds
    <3> QED BY <1>2, <2>1, <2>2, <2>3, <3>1 DEF IInv, FormatAhead
  <2>6. FlowAhead'
    <3>1. ASSUME NEW k \in tag..22 PROVE Flow[k] \in Images
      <4>1. tag \in 1..23
        BY <1>2, Ends DEF TypeOK
      <4>2. k \in 1..22
        BY <4>1
      <4> QED BY <4>2, FlowOrder
    <3> QED BY <1>2, <2>1, <2>2, <2>3, <3>1 DEF IInv, FlowAhead
  <2>7. Behind'
    <3>1. ASSUME NEW k \in 1..(tag - 1) PROVE Flow[k] \in Images
      <4>1. tag \in 1..23
        BY <1>2, Ends DEF TypeOK
      <4>2. k \in 1..22
        BY <4>1
      <4> QED BY <4>2, FlowOrder
    <3> QED BY <1>2, <2>1, <2>2, <3>1 DEF IInv, Behind
  <2>8. ListedIsWhole'
    BY <2>2 DEF IInv, ListedIsWhole
  <2> QED BY <2>4, <2>5, <2>6, <2>7, <2>8 DEF IInv
<1>6. QED BY <1>4, <1>5

LEMMA CompleteInvariant == IInv /\ TypeOK' /\ Complete => IInv'
<1> SUFFICES ASSUME IInv, TypeOK', Complete PROVE IInv'
  OBVIOUS
<1>1. /\ tag = COMPLETE /\ boottype' = "COMPLETE"
      /\ UNCHANGED <<pkg, fmt, tag, busy, part, fw, ret, region>>
  BY DEF Complete
<1>2. ~Formatting /\ ~busy
  BY <1>1, Ends DEF IInv, Phases, Writing, Running
<1>3. Phases'
  BY <1>1, <1>2 DEF Phases, Formatting
<1>4. Writing'
  BY <1>1, <1>2 DEF Writing
<1>5. FormatAhead' /\ FlowAhead'
  BY <1>1 DEF IInv, FormatAhead, FlowAhead, Midway, Formatting, Kind, Entered, Listed
<1>6. Behind'
  BY <1>1 DEF IInv, Behind, Required, UpdateEtc, RecoveredParts, Entered, Listed
<1>7. ListedIsWhole'
  BY <1>1 DEF IInv, ListedIsWhole, Entered, Listed, Holds, Kind
<1>8. QED BY <1>3, <1>4, <1>5, <1>6, <1>7 DEF IInv

LEMMA StutterInvariant == IInv /\ UNCHANGED vars => IInv'
BY DEF IInv, vars, TypeOK, Phases, Writing, Running, Current, Formatting, Skips,
       UpdateEtc, RecoveredParts, FormatAhead, FlowAhead, Midway, Behind, Required,
       ListedIsWhole, Entered, Listed, Holds, Kind

\* IInv is inductive.
THEOREM Invariant == Spec => []IInv
<1>1. IInv /\ TypeOK' /\ [Next]_vars => IInv'
  BY SkipInvariant, BeginInvariant, BurnedInvariant, NothingToWriteInvariant,
     FailsInvariant, CompleteInvariant, StutterInvariant DEF Next
<1>2. QED BY <1>1, InitInvariant, TypeCorrect, PTL DEF Spec

-----------------------------------------------------------------------------
(* What follows from it.                                                     *)

\* The table never lists an image that is not whole in the flash.
THEOREM ListedIsWholeAlways == Spec => []ListedIsWhole
<1>1. IInv => ListedIsWhole
  BY DEF IInv
<1>2. QED BY <1>1, Invariant, PTL

\* A table that says COMPLETE has every image the package needs, burned.
THEOREM CompleteMeansBurnedAlways == Spec => []CompleteMeansBurned
<1>1. IInv => CompleteMeansBurned
  <2> SUFFICES ASSUME IInv, boottype = "COMPLETE", NEW i \in Required
               PROVE  Entered(i) /\ Holds(i)
    BY DEF CompleteMeansBurned
  <2>1. i \in Images \ {"rootfs"}
    BY DEF Required, Images, Fws, Dts, Partitions, Others
  <2>2. PICK k \in 1..22 : Flow[k] = i
    BY <2>1, FlowCovers
  <2>3. k \in 1..(tag - 1)
    BY Ends DEF IInv, Phases
  <2>4. Entered(i)
    BY <2>2, <2>3 DEF IInv, Behind
  <2> QED BY <2>1, <2>4 DEF IInv, ListedIsWhole
<1>2. QED BY <1>1, Invariant, PTL

\* A table that says COMPLETE has no firmware of an earlier installation, but for
\* device trees that the package does not install.
THEOREM NoStaleFirmwareAlways == Spec => []NoStaleFirmware
<1>1. IInv => NoStaleFirmware
  <2> SUFFICES ASSUME IInv, boottype = "COMPLETE", NEW i \in Fws, fw[i] = "earlier"
               PROVE  i \in Dts /\ ~pkg.install_dtb
    BY DEF NoStaleFirmware
  <2>1. i \in Images \ {"rootfs"}
    BY DEF Images, Fws, Dts, Logos, Partitions, Others
  <2>2. PICK k \in 1..22 : Flow[k] = i
    BY <2>1, FlowCovers
  <2>3. k \in 1..(tag - 1)
    BY Ends DEF IInv, Phases
  <2> QED BY <2>2, <2>3 DEF IInv, Behind
<1>2. QED BY <1>1, Invariant, PTL

\* What the installation has burned it does not destroy again.
THEOREM BurnedStaysAlways == Spec => BurnedStays
<1>1. IInv /\ TypeOK' /\ [Next]_vars => [\A i \in Images : region[i] = "new" => region'[i] = "new"]_vars
  <2> SUFFICES ASSUME IInv, Next, NEW j \in Images, region[j] = "new"
               PROVE  region'[j] = "new"
    OBVIOUS
  <2>1. CASE Begin
    <3>1. Kind(Current) # "null" \/ Formatting
      BY <2>1 DEF Begin, Writes
    <3>2. region[Current] = "old" /\ region' = [region EXCEPT ![Current] = "torn"]
      BY <2>1, <3>1, FreshBefore DEF Begin
    <3> QED BY <3>2 DEF IInv, TypeOK
  <2>2. CASE Burned
    BY <2>2 DEF Burned, IInv, TypeOK
  <2>3. CASE Skip \/ NothingToWrite \/ Fails \/ Complete
    BY <2>3 DEF Skip, NothingToWrite, Fails, Complete
  <2> QED BY <2>1, <2>2, <2>3 DEF Next
<1>2. QED BY <1>1, Invariant, TypeCorrect, PTL DEF Spec, BurnedStays

-----------------------------------------------------------------------------
(* The part list.                                                            *)

Distinct(s) == \A j, k \in 1..Len(s) : s[j] = s[k] => j = k

\* Removing a name from a list without repetitions leaves one, and removes it.
LEMMA WithoutDistinct ==
  ASSUME NEW s \in Seq(Partitions), NEW name \in Partitions, Distinct(s)
  PROVE  /\ Distinct(Without(s, name))
         /\ \A k \in 1..Len(Without(s, name)) : Without(s, name)[k] # name
<1>1. CASE ~ \E k \in 1..Len(s) : s[k] = name
  BY <1>1 DEF Without
<1>2. CASE \E k \in 1..Len(s) : s[k] = name
  <2> DEFINE at == CHOOSE k \in 1..Len(s) : s[k] = name
             w  == [k \in 1..(Len(s) - 1) |-> IF k = at THEN s[Len(s)] ELSE s[k]]
  <2>1. at \in 1..Len(s) /\ s[at] = name
    BY <1>2
  <2>2. Without(s, name) = w
    BY <1>2 DEF Without
  <2> HIDE DEF at
  <2>3. Len(s) \in Nat \ {0} /\ Len(w) = Len(s) - 1
    <3>1. Len(s) \in Nat \ {0} /\ \A k \in 1..Len(s) : s[k] \in Partitions
      BY <2>1
    <3>2. w \in [1..(Len(s) - 1) -> Partitions]
      BY <2>1, <3>1
    <3> QED BY <3>1, <3>2
  <2>4. \A k \in 1..Len(w) :
          \E l \in 1..Len(s) : w[k] = s[l] /\ l # at /\ (l = IF k = at THEN Len(s) ELSE k)
    <3> TAKE k \in 1..Len(w)
    <3>1. CASE k = at
      <4>1. w[k] = s[Len(s)] /\ Len(s) \in 1..Len(s) /\ Len(s) # at
        BY <2>3, <3>1
      <4> QED BY <3>1, <4>1
    <3>2. CASE k # at
      <4>1. w[k] = s[k] /\ k \in 1..Len(s)
        BY <2>3, <3>2
      <4> QED BY <3>2, <4>1
    <3> QED BY <3>1, <3>2
  <2> HIDE DEF w
  <2>5. ASSUME NEW k \in 1..Len(w) PROVE w[k] # name
    BY <2>1, <2>4 DEF Distinct
  <2>6. ASSUME NEW j \in 1..Len(w), NEW k \in 1..Len(w), w[j] = w[k] PROVE j = k
    <3>1. PICK a \in 1..Len(s) : w[j] = s[a] /\ a = IF j = at THEN Len(s) ELSE j
      BY <2>4
    <3>2. PICK b \in 1..Len(s) : w[k] = s[b] /\ b = IF k = at THEN Len(s) ELSE k
      BY <2>4
    <3>3. a = b
      BY <2>6, <3>1, <3>2 DEF Distinct
    <3> QED BY <2>3, <3>1, <3>2, <3>3
  <2> QED BY <2>2, <2>5, <2>6 DEF Distinct
<1> QED BY <1>1, <1>2

\* A list without repetitions has room for one more name.
LEMMA AppendDistinct ==
  ASSUME NEW s \in Seq(Partitions), NEW i \in Partitions, Distinct(s),
         \A k \in 1..Len(s) : s[k] # i
  PROVE  Distinct(Append(s, i))
BY DEF Distinct

\* There are fourteen partitions, so a list without repetitions has no more names.
LEMMA DistinctIsShort ==
  ASSUME NEW s \in Seq(Partitions), Distinct(s)
  PROVE  Len(s) <= 14
<1> DEFINE n    == Len(s)
           turn == [k \in 1..n |-> CHOOSE t \in 1..14 : FormatOrder[t] = s[k]]
<1>1. n \in Nat /\ \A k \in 1..n : s[k] \in Partitions
  OBVIOUS
<1>2. \A i \in Partitions : \E t \in 1..14 : FormatOrder[t] = i
  <2>1. /\ FormatOrder[1] = "rootfs" /\ FormatOrder[2] = "res" /\ FormatOrder[3] = "cache"
        /\ FormatOrder[4] = "data" /\ FormatOrder[5] = "system" /\ FormatOrder[6] = "p1"
        /\ FormatOrder[7] = "p2" /\ FormatOrder[8] = "p3" /\ FormatOrder[9] = "p4"
        /\ FormatOrder[10] = "p5" /\ FormatOrder[11] = "p6" /\ FormatOrder[12] = "p7"
        /\ FormatOrder[13] = "p8" /\ FormatOrder[14] = "etc"
    BY DEF FormatOrder
  <2> QED BY <2>1 DEF Partitions, Others
<1>3. ASSUME NEW k \in 1..n PROVE turn[k] \in 1..14 /\ FormatOrder[turn[k]] = s[k]
  BY <1>1, <1>2
<1>4. turn \in [1..n -> 1..14]
  BY <1>3
<1>5. ASSUME NEW j \in 1..n, NEW k \in 1..n, turn[j] = turn[k] PROVE j = k
  <2>1. s[j] = s[k]
    BY <1>3, <1>5
  <2> QED BY <2>1 DEF Distinct
<1> HIDE DEF turn
<1>6. /\ IsFiniteSet(1..n) /\ Cardinality(1..n) = n
      /\ IsFiniteSet(1..14) /\ Cardinality(1..14) = 14
  <2> HIDE DEF n
  <2>1. 1 \in Int /\ n \in Int /\ 14 \in Int
    BY <1>1
  <2>2. /\ IsFiniteSet(1..n) /\ Cardinality(1..n) = IF 1 > n THEN 0 ELSE n - 1 + 1
        /\ IsFiniteSet(1..14) /\ Cardinality(1..14) = IF 1 > 14 THEN 0 ELSE 14 - 1 + 1
    BY <2>1, FS_Interval, Zenon
  <2> QED BY <1>1, <2>2
<1>7. ~ (14 < n)
  <2> HIDE DEF n
  <2> SUFFICES ASSUME 14 < n PROVE FALSE
    OBVIOUS
  <2> DEFINE S == 1..n
             T == 1..14
  <2>1. /\ IsFiniteSet(S) /\ IsFiniteSet(T) /\ Cardinality(T) < Cardinality(S)
        /\ turn \in [S -> T]
    BY <1>4, <1>6
  <2>2. \A j, k \in S : turn[j] = turn[k] => j = k
    BY <1>5
  <2> HIDE DEF S, T
  <2>3. \E j, k \in S : j # k /\ turn[j] = turn[k]
    BY <2>1, FS_PigeonHole
  <2> QED BY <2>2, <2>3
<1> QED BY <1>1, <1>7

\* A name that is entered is not in the list, or is taken out of it first: the other
\* partitions, for which the code does not look, have not had their turn yet.
LEMMA EnterDistinct ==
  ASSUME IInv, Distinct(part), Running, ~Skips(Current), Enter(Current)
  PROVE  Distinct(part')
<1>1. PICK i : i = Current
  OBVIOUS
<1>2. TypeOK /\ i \in Images /\ part \in Seq(Partitions)
  BY <1>1, CurrentImage DEF IInv, TypeOK
<1>3. CASE i \in Fws
  BY <1>1, <1>3 DEF Enter
<1>4. CASE i \notin Fws /\ (Formatting \/ i \notin Others)
  <2>1. i \in Partitions /\ part' = Append(Without(part, i), i)
    BY <1>1, <1>2, <1>4, ImageKinds DEF Enter
  <2>2. Without(part, i) \in Seq(Partitions)
    BY <1>2, <2>1, WithoutKeeps
  <2> QED BY <1>2, <2>1, <2>2, WithoutDistinct, AppendDistinct
<1>5. CASE i \notin Fws /\ ~Formatting /\ i \in Others
  <2>1. i \in Partitions /\ part' = Append(part, i)
    BY <1>1, <1>2, <1>5, ImageKinds DEF Enter
  <2>2. i \in pkg.sized
    BY <1>1, <1>5 DEF Skips
  <2>3. pkg \in Package /\ PackageOK(pkg)
    BY <1>2, PackagesAssumption DEF TypeOK
  <2>4. Kind(i) # "null"
    BY <1>5, <2>1, <2>2, <2>3 DEF Kind, PackageOK
  <2>5. tag \in 1..22 /\ i = Flow[tag]
    BY <1>1, <1>2, <1>5, CurrentImage
  <2>6. tag \in tag..22
    BY <2>5
  <2>7. ~Entered(i)
    BY <2>4, <2>5, <2>6 DEF IInv, FlowAhead
  <2>8. \A k \in 1..Len(part) : part[k] # i
    BY <1>5, <2>7 DEF Entered, Listed
  <2> QED BY <1>2, <2>1, <2>8, AppendDistinct
<1> QED BY <1>3, <1>4, <1>5

NoRepeats == Distinct(part)

\* No partition is entered twice and the list never outgrows its array, although
\* add_part looks at neither, for all packages and whatever fails.
THEOREM PartListSoundAlways == Spec => []PartListSound
<1>1. Init => NoRepeats
  BY DEF Init, NoRepeats, Distinct, RecoveredParts
<1>2. ASSUME IInv, NoRepeats, [Next]_vars PROVE NoRepeats'
  <2>1. CASE Burned
    <3>1. busy /\ Running /\ Enter(Current)
      BY <2>1 DEF Burned
    <3>2. ~Skips(Current)
      <4>1. Writing
        BY <1>2 DEF IInv
      <4> QED BY <3>1, <4>1, Zenon DEF Writing
    <3> QED BY <1>2, <3>1, <3>2, EnterDistinct DEF NoRepeats
  <2>2. CASE NothingToWrite
    BY <1>2, <2>2, EnterDistinct DEF NothingToWrite, NoRepeats
  <2>3. CASE Skip \/ Begin \/ Fails \/ Complete \/ UNCHANGED vars
    <3>1. part' = part
      BY <2>3 DEF Skip, Begin, Fails, Complete, table, vars
    <3> QED BY <1>2, <3>1 DEF NoRepeats
  <2> QED BY <1>2, <2>1, <2>2, <2>3 DEF Next
<1>3. Spec => []NoRepeats
  BY <1>1, <1>2, Invariant, PTL DEF Spec
<1>4. TypeOK /\ NoRepeats => PartListSound
  <2> SUFFICES ASSUME TypeOK, NoRepeats PROVE PartListSound
    OBVIOUS
  <2>1. part \in Seq(Partitions)
    BY DEF TypeOK
  <2>2. Len(part) \in Nat /\ Len(part) <= 14
    BY <2>1, DistinctIsShort DEF NoRepeats
  <2> QED BY <2>2 DEF PartListSound, NoRepeats, Distinct
<1> QED BY <1>3, <1>4, TypeCorrect, PTL

=============================================================================
