\* Scripts of any length with up to two heredocs in waiting.
SPECIFICATION Spec
CONSTANTS
  Off = {}
  MaxPending = 2
  Excluded = {"escape", "assignment", "keyword", "heredoc", "hash", "redirect", "join"}
INVARIANTS
  TypeOK
  SpansAgree
  NoFalsePass
  RealProbesFound
  StartInStep
