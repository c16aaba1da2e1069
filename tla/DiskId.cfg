\* get_disks over one NVMe controller with two-entry admin queues and one
\* AHCI port with one command slot; each controller may pass its checks,
\* read as all ones (asleep) or fail for good.
CONSTANTS
  L = 2
  MaxAer = 0
  Garbage = {2}
  Ports = {1}
  N = 1
  MaxOsIssues = 1
  NvmeBars = {"ok", "allOnes", "sizeMismatch"}
  AhciHbas = {"ok", "allOnes"}
SPECIFICATION Spec
\* get_disks returns and the system stops.
CHECK_DEADLOCK FALSE
INVARIANTS TypeOK
PROPERTIES GetDisksReturns
