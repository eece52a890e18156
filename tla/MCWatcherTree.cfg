\* Two value watchers, one of them read-only, and three levels of directories.
CONSTANTS
  Values = {v1, v2}
  Functions = {}
  Writable = {v1}
  Type <- MCType
  Byte = {0, 1}
  Width <- MCWidth
  Uint16 = "uint16"
  Streams <- MCStreams
  Paths <- MCPaths
  Director = Director
  Absent = Absent
  Failed = Failed
  NoValue = NoValue
SPECIFICATION Spec
INVARIANTS TypeOK TreeInv VisitsAll DoneIsDone
PROPERTIES ImplementsTable
