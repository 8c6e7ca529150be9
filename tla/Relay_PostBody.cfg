SPECIFICATION RelaySpec
CONSTANTS
  HEAD_BUF_SIZE = 16
  CHUNK = 2
  Responses <- MCResponses
  BodyBytes <- MCBodyBytes
  PostBodies <- MCPostBodies
  OK = OK
  NotFound = NotFound
  Absent = Absent
INVARIANTS
  PostBodyArrives
