SPECIFICATION Spec
CONSTANTS
  Requests <- MCRequests
  MaxWords = 3
  MaxResults = 3
INVARIANTS TypeOK TaggedTextIsTheText UnusedOverlap RolesAreTheirTokens PartsAreInOrder
CHECK_DEADLOCK FALSE
