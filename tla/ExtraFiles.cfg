CONSTANTS
    file1 = file1  file2 = file2  x = x  y = y
    Requests = {r1, r2}
    FileNames = {file1, file2}
    Contents = {x, y}
    Empty = Empty
    FileLists <- Lists
    NoObject = NoObject
    MaxObjects = 3
    MaxFailures = 1
    MaxRequests = 3
SPECIFICATION Spec
INVARIANTS OneConfigMapPerFile AckedIsStored
SYMMETRY Symmetry
CHECK_DEADLOCK FALSE
