SPECIFICATION Spec
CONSTANTS
  Cased = {a}
  Digits = {seven}
  Plain = {enter}
  Enter = enter
  Nodes = {n1, n2, n3}
  NULL = NULL
  SizeMod = 6
INVARIANT ReadsWhatWasTyped
