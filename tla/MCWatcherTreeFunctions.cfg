\* A function watcher and a value watcher in the same directory.
CONSTANTS
  Values = {v1}
  Functions = {f1}
  Writable = {v1, f1}
  Type <- MCType
  Byte = {0}
  Width <- MCWidth
  Uint16 = "uint16"
  Streams <- OneStream
  Paths <- ShortPaths
  Director = Director
  Absent = Absent
  Failed = Failed
  NoValue = NoValue
SPECIFICATION Spec
INVARIANTS VisitsAll
