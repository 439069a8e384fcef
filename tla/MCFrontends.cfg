\* The MCP server, the command line and the Carbon hook over the registry.
CONSTANTS
  Programs <- PROGRAMS
  Specs <- all_specs
  Layouts <- LAYOUTS
  Messages <- MCMessages
  MaxMessages = 3
  Lines <- MCLines
  Owners <- MCOwners
  Updates <- MCUpdates
  MaxUpdates = 2
  Stored <- MCStored
  Pastes <- MCPastes
SPECIFICATION MCSpec
INVARIANTS
  FrontsTypeOK
  RepliesInOrder
  SameAnswer
  GreenIsEarned
  CountersAddUp
  DropIsDeserved
  FieldIsOfTheVerdict
PROPERTY OnlyOthersHoldUp
CHECK_DEADLOCK FALSE
