SPECIFICATION Spec
CONSTANTS
    W = 4
    Task = {t1, t2}
    Kernel = kernel
    KernelRoot = 300
    Pool <- MCPool
    BootTable <- MCBootTable
    KernelMaps <- MCKernelMaps
    TaskMaps <- MCTaskMaps
    Watch <- MCWatch
    None = None
SYMMETRY Symmetry
PROPERTIES
    NothingIsTorn
