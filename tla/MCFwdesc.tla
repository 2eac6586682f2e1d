------------------------------ MODULE MCFwdesc ------------------------------
(* Instances of Fwdesc for TLC.                                              *)
EXTENDS Fwdesc

Make(lacking, n) == [firmware |-> Firmware \ lacking, partitions |-> n]

\* All the firmware, one of the bootfiles, no device tree, no file systems; no
\* partition, a few, and as many as part_desc holds.
SmallSystems ==
  {Make({}, 0), Make({"audio_file", "video_file"}, 2), Make({"kernel_dt"}, 1),
   Make({"rescue_rootfs", "kernel_rootfs"} \cup Bootfiles, 9)}

\* As many partitions as can be configured.
LargeSystems == {Make({}, n) : n \in 8..14}
=============================================================================
