SPECIFICATION Spec
CONSTANTS
  Texts <- Inward
  Globals = 1
  Liberties = {"uplevel VAR parameter"}
  StackTop = 80
  MaxDepth = 4
CHECK_DEADLOCK FALSE
PROPERTIES ImplementsLexicalScoping
