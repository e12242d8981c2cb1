SPECIFICATION Spec
CONSTANTS
  V3Page = 4
  RamBase = 100
  DtbOffset = 4
  KernelOffset = 8
  RamdiskAlign = 4
  TreeCells = 2
  Configs <- MCConfigs
  VcpuExits <- MCVcpuExits
  MaxClicks = 4
CHECK_DEADLOCK FALSE
INVARIANTS ManagerSettled OneStartPosted BootsChosenKernel
