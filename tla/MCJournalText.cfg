SPECIFICATION Spec
CONSTANTS
  Ascii = {"n", "a"}
  Lead = {"D8"}
  Trail = {"A7"}
  Separators <- MCSeparators
  MaxContent = 3
  MaxJournal = 7
INVARIANTS Inv LinesSurviveCuts
CHECK_DEADLOCK FALSE
