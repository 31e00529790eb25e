\* One pair of the first type, two of the second.
CONSTANTS
  StrLen = 3
  MaxPairs = 2
  ExtMax <- SomeExtMax
  Letters = {"a", "b", "c"}
  NUL = NUL
  Junk = Junk
  Strings <- SomeStrings
  Null = Null
  IntMax = 7
SPECIFICATION Spec
INVARIANTS NamesAgree
PROPERTIES ImplementsTable
