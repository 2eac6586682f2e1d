SPECIFICATION Spec
CONSTANT Packages <- EtcPackages
INVARIANT EtcKept
CHECK_DEADLOCK FALSE
