------------------------- MODULE TagFlowPlanProofs -------------------------
(* TagFlow implements BurnPlan, for any set of packages.                     *)
EXTENDS TagFlowProofs

\* The images in the table, and the one being written, as the plan sees them.
InTable == {i \in Images : Entered(i)}
Written == IF busy THEN Current ELSE "SUCCESS"

\* An image in its turn is not in the table yet, unless it was formatted.
LEMMA NotEnteredYet ==
  ASSUME IInv, Running, ~Formatting, Kind(Current) # "null"
  PROVE  ~Entered(Current)
<1>1. Current = Flow[tag] /\ tag \in tag..22
  BY CurrentImage DEF IInv
<1>2. QED BY <1>1 DEF IInv, FlowAhead

\* The burn goes on before and after every step but a failure and the last one.
LEMMA RunningOn ==
  ASSUME IInv, Running, ret' = ret, boottype' = boottype
  PROVE  Outcome = "running" /\ Outcome' = "running"
BY Ends DEF IInv, Phases, Running, Outcome

\* Clearing the entry of an image in its turn takes nothing out of the table.
LEMMA ClearKeepsTable ==
  ASSUME IInv, Running, NEW i, i = Current, Clear(i), part' = part, pkg' = pkg
  PROVE  InTable' = InTable
<1>1. TypeOK /\ i \in Images /\ (Formatting => i \in Partitions)
  BY CurrentImage DEF IInv
<1>2. i \in Logos => ~Entered(i)
  <2> SUFFICES ASSUME i \in Logos PROVE ~Entered(i)
    OBVIOUS
  <2>1. ~Formatting /\ Kind(i) = "file"
    BY <1>1, ImageKinds DEF Kind
  <2> QED BY <2>1, NotEnteredYet
<1>3. \A j \in Images : Entered(j)' <=> Entered(j)
  BY <1>1, <1>2, ClearDrops
<1>4. QED BY <1>3 DEF InTable

\* Entering an image adds it to the plan's list.
LEMMA EnterAddsToTable ==
  ASSUME TypeOK, NEW i \in Images, Enter(i)
  PROVE  InTable' = InTable \cup {i}
<1>1. \A j \in Images : Entered(j)' <=> Entered(j) \/ j = i
  BY EnterAdds
<1>2. QED BY <1>1 DEF InTable

\* A partition is in the table when it is in the part list.
LEMMA StoredByTable ==
  Stored = [j \in Images |-> IF Kind(j) = "none" /\ j \in InTable THEN "new" ELSE region[j]]
<1>1. \A j \in Images : Kind(j) = "none" => (Listed(j) <=> j \in InTable)
  BY DEF Kind, InTable, Entered
<1>2. QED BY <1>1 DEF Stored

LEMMA InitRefines == Init => Plan!Init
<1> SUFFICES ASSUME Init PROVE Plan!Init
  OBVIOUS
<1>1. Required \in SUBSET Images
  BY DEF Required, Images, Fws, Dts, Partitions, Others
<1>2. InTable = {} /\ Stored = [i \in Images |-> "old"]
  BY ImageKinds DEF Init, InTable, Entered, Listed, Stored, RecoveredParts
<1>3. Written = "SUCCESS" /\ Outcome = "running"
  BY DEF Init, Written, Outcome
<1>4. QED BY <1>1, <1>2, <1>3 DEF Plan!Init, InTable, Written

LEMMA SkipRefines == IInv /\ Skip => UNCHANGED Plan!vars
<1> SUFFICES ASSUME IInv, Skip PROVE UNCHANGED Plan!vars
  OBVIOUS
<1>1. PICK i : i = Current
  OBVIOUS
<1>2. /\ Running /\ Clear(i) /\ ~busy
      /\ UNCHANGED <<pkg, busy, part, boottype, ret, region>>
  BY <1>1 DEF Skip
<1>3. InTable' = InTable
  BY <1>1, <1>2, ClearKeepsTable
<1>4. Required' = Required /\ Stored' = Stored
  BY <1>2, PackageFixed DEF Stored, Listed
<1>5. Written' = Written /\ Outcome' = Outcome
  BY <1>2 DEF Written, Outcome
<1>6. QED BY <1>3, <1>4, <1>5 DEF Plan!vars, InTable, Written

LEMMA BeginRefines == IInv /\ Begin => \E i \in Images : Plan!Start(i)
<1> SUFFICES ASSUME IInv, Begin PROVE \E i \in Images : Plan!Start(i)
  OBVIOUS
<1>1. PICK i : i = Current
  OBVIOUS
<1>2. /\ TypeOK /\ Running /\ ~busy /\ ~Skips(i) /\ Writes(i)
      /\ busy' = TRUE /\ region' = [region EXCEPT ![i] = "torn"]
      /\ UNCHANGED <<pkg, fmt, tag, table, ret>>
  BY <1>1 DEF Begin, IInv
<1>3. i \in Images
  BY <1>1, <1>2, CurrentImage
<1>4. region[i] = "old" /\ Kind(i) # "none"
  BY <1>1, <1>2, FreshBefore DEF Writes
<1>5. /\ Required' = Required /\ InTable' = InTable
      /\ \A j \in Images : Kind(j)' = Kind(j)
  BY <1>2, PackageFixed DEF InTable, Entered, Listed, table
<1>6. Stored' = [Stored EXCEPT ![i] = "torn"] /\ Stored[i] = "old"
  <2>1. Stored' = [j \in Images |-> IF Kind(j) = "none" /\ j \in InTable THEN "new" ELSE region'[j]]
    BY <1>5, StoredByTable DEF Stored, Listed, InTable, Entered, Kind
  <2> QED BY <1>2, <1>3, <1>4, <2>1, StoredByTable DEF TypeOK
<1>7. Written = "SUCCESS" /\ Written' = i
  BY <1>1, <1>2 DEF Written, Current, Formatting
<1>8. Outcome = "running" /\ Outcome' = "running"
  BY <1>2, RunningOn DEF table
<1>9. Plan!Start(i)
  BY <1>5, <1>6, <1>7, <1>8 DEF Plan!Start, Plan!Between, InTable, Written
<1>10. QED BY <1>3, <1>9

LEMMA BurnedRefines == IInv /\ Burned => Plan!Finish
<1> SUFFICES ASSUME IInv, Burned PROVE Plan!Finish
  OBVIOUS
<1>1. PICK i : i = Current
  OBVIOUS
<1>2. /\ TypeOK /\ Running /\ busy /\ Enter(i)
      /\ busy' = FALSE /\ region' = [region EXCEPT ![i] = "new"]
      /\ UNCHANGED <<pkg, boottype, ret>>
  BY <1>1 DEF Burned, IInv
<1>3. i \in Images /\ i # "SUCCESS"
  BY <1>1, <1>2, CurrentImage, ImageKinds
<1>4. InTable' = InTable \cup {i}
  BY <1>2, <1>3, EnterAddsToTable
<1>5. Kind(i) # "none"
  BY <1>1, <1>2 DEF IInv, Writing
<1>6. Required' = Required /\ \A j \in Images : Kind(j)' = Kind(j)
  BY <1>2, PackageFixed
<1>7. Stored' = [Stored EXCEPT ![i] = "new"]
  <2>1. Stored' = [j \in Images |-> IF Kind(j) = "none" /\ j \in InTable' THEN "new" ELSE region'[j]]
    <3>1. \A j \in Images : Kind(j) = "none" => (Listed(j)' <=> j \in InTable')
      BY DEF Kind, InTable, Entered
    <3> QED BY <1>6, <3>1 DEF Stored
  <2> QED BY <1>2, <1>3, <1>4, <1>5, <2>1, StoredByTable DEF TypeOK
<1>8. Written = i /\ Written' = "SUCCESS"
  BY <1>1, <1>2 DEF Written
<1>9. Outcome = "running" /\ Outcome' = "running"
  BY <1>2, RunningOn
<1>10. QED
  BY <1>3, <1>4, <1>6, <1>7, <1>8, <1>9 DEF Plan!Finish, Plan!Burning, InTable, Written

LEMMA NothingToWriteRefines ==
  IInv /\ NothingToWrite => \E i \in Images : Plan!Put(i)
<1> SUFFICES ASSUME IInv, NothingToWrite PROVE \E i \in Images : Plan!Put(i)
  OBVIOUS
<1>1. PICK i : i = Current
  OBVIOUS
<1>2. /\ TypeOK /\ Running /\ ~busy /\ ~Skips(i) /\ Kind(i) = "none" /\ Enter(i)
      /\ UNCHANGED <<pkg, busy, boottype, ret, region>>
  BY <1>1 DEF NothingToWrite, IInv
<1>3. i \in Images
  BY <1>1, <1>2, CurrentImage
<1>4. region[i] = "old" /\ i \notin InTable
  <2>1. ~Formatting
    BY <1>2 DEF Skips
  <2>2. region[i] = "old"
    BY <1>1, <1>2, FreshBefore
  <2>3. ~Entered(i)
    BY <1>1, <1>2, <2>1, NotEnteredYet
  <2> QED BY <2>2, <2>3 DEF InTable
<1>5. InTable' = InTable \cup {i}
  BY <1>2, <1>3, EnterAddsToTable
<1>6. Required' = Required /\ \A j \in Images : Kind(j)' = Kind(j)
  BY <1>2, PackageFixed
<1>7. Stored' = [Stored EXCEPT ![i] = "new"] /\ Stored[i] = "old"
  <2>1. Stored' = [j \in Images |-> IF Kind(j) = "none" /\ j \in InTable' THEN "new" ELSE region'[j]]
    <3>1. \A j \in Images : Kind(j) = "none" => (Listed(j)' <=> j \in InTable')
      BY DEF Kind, InTable, Entered
    <3> QED BY <1>6, <3>1 DEF Stored
  <2> QED BY <1>2, <1>3, <1>4, <1>5, <2>1, StoredByTable
<1>8. Written = "SUCCESS" /\ Written' = "SUCCESS"
  BY <1>2 DEF Written
<1>9. Outcome = "running" /\ Outcome' = "running"
  BY <1>2, RunningOn
<1>10. Plan!Put(i)
  BY <1>5, <1>6, <1>7, <1>8, <1>9 DEF Plan!Put, Plan!Between, InTable, Written
<1>11. QED BY <1>3, <1>10

LEMMA FailsRefines ==
  IInv /\ Fails => Plan!Fail \/ Plan!GiveUp \/ UNCHANGED Plan!vars
<1> SUFFICES ASSUME IInv, Fails
             PROVE  Plan!Fail \/ Plan!GiveUp \/ UNCHANGED Plan!vars
  OBVIOUS
<1>1. PICK i : i = Current
  OBVIOUS
<1>2. /\ TypeOK /\ Running /\ busy' = FALSE
      /\ UNCHANGED <<pkg, boottype, region>>
  BY DEF Fails, IInv
<1>3. i \in Images /\ i # "SUCCESS"
  BY <1>1, <1>2, CurrentImage, ImageKinds
<1>4. Required' = Required
  BY <1>2, PackageFixed
<1>5. part' = part => Stored' = Stored
  BY <1>2 DEF Stored, Listed, Kind
<1>6. Written' = "SUCCESS" /\ (busy => Written = i) /\ (~busy => Written = "SUCCESS")
  BY <1>1, <1>2 DEF Written
<1>7. CASE Tolerates(i)
  <2>1. Clear(i) /\ part' = part /\ ret' = ret
    BY <1>1, <1>7 DEF Fails
  <2>2. InTable' = InTable /\ i \notin Required
    BY <1>1, <1>2, <1>7, <2>1, ClearKeepsTable, ToleratedNotNeeded
  <2>3. Outcome = "running" /\ Outcome' = "running"
    BY <1>2, <2>1, RunningOn
  <2>4. CASE busy
    <3>1. Plan!GiveUp
      BY <1>3, <1>4, <1>5, <1>6, <2>1, <2>2, <2>3, <2>4
         DEF Plan!GiveUp, Plan!Burning, InTable, Written
    <3> QED BY <3>1
  <2>5. CASE ~busy
    <3>1. UNCHANGED Plan!vars
      BY <1>4, <1>5, <1>6, <2>1, <2>2, <2>3, <2>5 DEF Plan!vars, InTable, Written
    <3> QED BY <3>1
  <2> QED BY <2>4, <2>5
<1>8. CASE ~Tolerates(i)
  <2>1. ret' = i /\ fw' = fw /\ part' = part
    BY <1>1, <1>8 DEF Fails
  <2>2. InTable' = InTable
    BY <2>1 DEF InTable, Entered, Listed
  <2>3. Outcome = "running" /\ Outcome' = "failed"
    BY <1>2, <1>3, <2>1, Ends DEF IInv, Phases, Running, Outcome
  <2>4. Plan!Fail
    BY <1>4, <1>5, <1>6, <2>1, <2>2, <2>3 DEF Plan!Fail, InTable, Written
  <2> QED BY <2>4
<1>9. QED BY <1>7, <1>8

LEMMA CompleteRefines == IInv /\ Complete => Plan!Conclude
<1> SUFFICES ASSUME IInv, Complete PROVE Plan!Conclude
  OBVIOUS
<1>1. /\ ret = "SUCCESS" /\ tag = COMPLETE /\ boottype # "COMPLETE"
      /\ boottype' = "COMPLETE"
      /\ UNCHANGED <<pkg, fmt, tag, busy, part, fw, ret, region>>
  BY DEF Complete
<1>2. Outcome = "running" /\ Outcome' = "complete"
  BY <1>1 DEF Outcome
<1>3. Written = "SUCCESS" /\ Written' = "SUCCESS"
  BY <1>1, Ends DEF IInv, Writing, Running, Written
<1>4. Required \subseteq InTable
  <2>1. ASSUME NEW i \in Required PROVE i \in InTable
    <3>1. i \in Images \ {"rootfs"}
      BY DEF Required, Images, Fws, Dts, Partitions, Others
    <3>2. PICK k \in 1..22 : Flow[k] = i
      BY <3>1, FlowCovers
    <3>3. k \in 1..(tag - 1)
      BY <1>1, Ends
    <3> QED BY <3>1, <3>2, <3>3 DEF IInv, Behind, InTable
  <2> QED BY <2>1
<1>5. Required' = Required /\ InTable' = InTable /\ Stored' = Stored
  BY <1>1, PackageFixed DEF InTable, Entered, Stored, Listed, Kind
<1>6. QED BY <1>2, <1>3, <1>4, <1>5 DEF Plan!Conclude, Plan!Between, InTable, Written

\* The two switches implement the plan: each of their steps is a step of it, or
\* one it does not see.
THEOREM PlanImplemented == Spec => ImplementsPlan
<1>1. IInv /\ [Next]_vars => [Plan!Next]_(Plan!vars)
  <2> SUFFICES ASSUME IInv, [Next]_vars PROVE Plan!Next \/ UNCHANGED Plan!vars
    OBVIOUS
  <2>1. CASE Skip
    BY <2>1, SkipRefines
  <2>2. CASE Begin
    BY <2>2, BeginRefines DEF Plan!Next
  <2>3. CASE Burned
    BY <2>3, BurnedRefines DEF Plan!Next
  <2>4. CASE NothingToWrite
    BY <2>4, NothingToWriteRefines DEF Plan!Next
  <2>5. CASE Fails
    BY <2>5, FailsRefines DEF Plan!Next
  <2>6. CASE Complete
    BY <2>6, CompleteRefines DEF Plan!Next
  <2>7. CASE UNCHANGED vars
    BY <2>7 DEF vars, Plan!vars, Required, UpdateEtc, RecoveredParts, Stored, Listed,
                Kind, Entered, Current, Formatting, Outcome
  <2> QED BY <2>1, <2>2, <2>3, <2>4, <2>5, <2>6, <2>7 DEF Next
<1>2. QED BY <1>1, InitRefines, Invariant, PTL DEF Spec, ImplementsPlan, Plan!Spec
=============================================================================
