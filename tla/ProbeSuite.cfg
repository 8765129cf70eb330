\* The whole suite against a check with up to two broken parts, any two.
SPECIFICATION Spec
CONSTANTS
  Suspects <- Parts
INVARIANTS
  TypeOK
  EveryRegressionIsNoticed
  NoticedByItsCase
  BashAgrees
