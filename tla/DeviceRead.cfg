SPECIFICATION Spec
CONSTANTS
    Width = 8
    Page = 16
    Gpr <- MCGpr
    RamBase = 64
    RamSize = 48
    KernelSpace = 192
    VirtBase = 208
    PhysBase = 72
    PairLow = 16
    PairHigh = 32
    Programs <- MCPrograms
    DeviceValues <- MCDeviceValues
    Starts <- MCStarts
PROPERTY DeviceReadReturns
CHECK_DEADLOCK FALSE
