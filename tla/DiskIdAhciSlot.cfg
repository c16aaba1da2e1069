\* get_disks over an AHCI controller with one port of two command slots,
\* whose driver issues one command meanwhile; the NVMe controller fails
\* its checks for good.
CONSTANTS
  L = 2
  MaxAer = 0
  Garbage = {2}
  Ports = {1}
  N = 2
  MaxOsIssues = 1
  NvmeBars = {"sizeMismatch"}
  AhciHbas = {"ok"}
SPECIFICATION Spec
\* get_disks returns and the system stops.
CHECK_DEADLOCK FALSE
PROPERTIES OsCommandsIntact
