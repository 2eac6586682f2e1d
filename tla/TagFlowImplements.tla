------------------------- MODULE TagFlowImplements -------------------------
(* TagFlow implements BurnPlan.                                              *)
EXTENDS TagFlow

Stored ==
  [i \in Images |-> IF Kind(i) = "none" /\ Listed(i) THEN "new" ELSE region[i]]

Outcome ==
  IF ret # "SUCCESS" THEN "failed"
  ELSE IF boottype = "COMPLETE" THEN "complete" ELSE "running"

Plan == INSTANCE BurnPlan WITH
          NoImage <- "SUCCESS",
          needed  <- Required,
          stored  <- Stored,
          listed  <- {i \in Images : Entered(i)},
          current <- IF busy THEN Current ELSE "SUCCESS",
          outcome <- Outcome

\* The two switches and their eMMC format loop, with all their cases, keep the
\* promise of the plan: no image is written twice or entered before it is whole,
\* a failure is passed over only for an image that is not needed, and the end is
\* not reached without the others.
ImplementsPlan == Plan!Spec
=============================================================================
