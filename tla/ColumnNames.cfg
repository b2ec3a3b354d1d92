\* Field lists of up to two values of every kind, and numbers of every form.
SPECIFICATION Spec
CONSTANTS
  NoNames = NoNames
  Atom <- MCAtom
  EmptyCell <- MCEmptyCell
  NoNamePrefix <- MCNoNamePrefix
  Inputs <- MCInputs
INVARIANTS NumbersReadBack RefusedWithoutARecord NamedAsCanonical
CHECK_DEADLOCK FALSE
