CONSTANTS
  MAX_MODULES = 2
  CMDLINE_MAX_LEN = 3
  EXEC_PATH_MAX = 4
  PAGE_SIZE = 2
  MAX_FRAMES = 16
  BitmapBytes = 1
  KernelEnd = 5
  MemEnd = 24
  ModuleLists <- MCModuleLists
  Paths <- MCPaths
SPECIFICATION BootSpec
INVARIANTS
  ModulesSurvive
  FindsByName
