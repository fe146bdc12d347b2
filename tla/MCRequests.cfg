SPECIFICATION Spec
CONSTANTS
  MaxDepth = 6
  MaxEdits = 2
  Schemas <- AllSchemas
  Edited <- EditedSlices
  Deserializers <- AllDeserializers
  MaxNesting = 12
  Definitions <- AllDefinitions
  Build <- AgencyBuild
INVARIANTS
  AcceptsWhatConforms
  FirstFaultReported
  HintsChangeNothing
  NothingLost
