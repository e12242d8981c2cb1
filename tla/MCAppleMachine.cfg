SPECIFICATION MachineSpec
CONSTANTS
    Width = 8
    Page = 16
    Gpr <- MCGpr
    RamBase = 64
    RamSize = 48
    KernelSpace = 192
    VirtBase = 208
    PhysBase = 72
    PairLow = 16
    PairHigh = 32
    Programs <- MCPrograms
    DeviceValues <- MCDeviceValues
    Starts <- MCStarts
    StructCells = 96
    StrNames = 20
    NoNode = NoNode
    DefaultSlide = 8
    Rev3Ram = 100
    TreeRoom = 16
    ArgsRoom = 8
    TreeCells = 4
    ArgsCells = 2
    Setups <- MCSetups
    BootPrograms <- MCBootPrograms
INVARIANTS FetchesKernelEntry GuestImageIntact EditedTreeDescribes SetupReadsLiveData HandleReleased
PROPERTY ExecutesA64
CHECK_DEADLOCK FALSE
