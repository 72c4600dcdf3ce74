SPECIFICATION Spec
CONSTANTS
  Texts <- MCTexts
  Globals = 1
  Liberties = {}
  StackTop = 80
  MaxDepth = 4
CHECK_DEADLOCK FALSE
INVARIANTS TypeOK
PROPERTIES ImplementsLexicalScoping ReturnsToCaller StaysInProcedure
