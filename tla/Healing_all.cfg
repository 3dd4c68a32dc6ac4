\* Wards that fail after two values, or never pulse; the first may be replaced.
SPECIFICATION Spec
CONSTANTS
  MaxWards = 2
  FailAfter = 2
  Taken = 3
INVARIANTS WardsInTurn NothingLost
PROPERTIES ReplacedWardsEnd StreamResumes AllEnd
