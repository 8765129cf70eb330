\* The real migrations, and any of at most two statements each way, on two schemas.
SPECIFICATION Spec
CONSTANTS
  Objects <- MCObjects
  Definitions = {"plain", "changed", "hypertable"}
  Tables <- MCTables
  Seen <- MCObjects
  References <- MCReferences
  Chains <- MCChains
  Injected <- MCInjected
  NoTable = NoTable
INVARIANTS
  TypeOK
  ResetIsHead
  NothingWedges
  StrictVerdictIsRight
  CoreSchemaReverses
