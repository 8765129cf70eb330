\* The real migrations, and one that creates IF NOT EXISTS and drops nothing.
SPECIFICATION Spec
CONSTANTS
  Objects <- MCObjects
  Definitions = {"plain", "changed", "hypertable"}
  Tables <- MCTables
  Seen <- MCObjects
  References <- MCReferences
  Chains <- MCIdempotent
  Injected <- MCInjected
  NoTable = NoTable
INVARIANTS
  VerdictAsFromEmpty
