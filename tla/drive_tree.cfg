CONSTANTS
  r1 = r1  r2 = r2
  Ids = {1, 2, 3, 4, 5, 6, 7, 8, 9, 10}
  Names = {"a", "b", "/"}
  Slash = "/"
  Spelled <- Written
  Root = 0
  Requests = {r1, r2}
  MaxRequests = 3
  MaxDepth = 2
  Seeds <- Trees
  LocalDir <- SubDir
SPECIFICATION Spec
CONSTRAINT Unspoiled
INVARIANT TypeOK
INVARIANT Attached
INVARIANT BrowsingShowsLive
PROPERTY UploadEndKeepsPlace
SYMMETRY AnyRequest
\* Requests run out, and then nothing is left to do.
CHECK_DEADLOCK FALSE
