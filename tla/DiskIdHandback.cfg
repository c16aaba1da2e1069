\* get_disks over an NVMe controller with three-entry admin queues that
\* passes its checks, and an AHCI controller with one port.
CONSTANTS
  L = 3
  MaxAer = 0
  Garbage = {3}
  Ports = {1}
  N = 1
  MaxOsIssues = 0
  NvmeBars = {"ok"}
  AhciHbas = {"ok"}
SPECIFICATION Spec
\* get_disks returns and the system stops.
CHECK_DEADLOCK FALSE
INVARIANTS QueuesHandedBack
