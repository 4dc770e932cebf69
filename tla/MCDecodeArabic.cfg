SPECIFICATION Spec
CONSTANTS
  Ascii = {"n", "a"}
  Lead = {"D8"}
  Trail = {"A7"}
  Separators <- MCSeparators
  MaxContent = 3
  MaxJournal = 4
INVARIANTS JournalDecodes
CHECK_DEADLOCK FALSE
