\* Commands in any order, any number of times.
SPECIFICATION Spec
CONSTANTS
  Commands <- Commands_
  Dirs <- Dirs_
  Here <- Here_
  Modules <- Modules_
  Copies <- Copies_
  HandWritten <- HandWritten_
  Objects <- Objects_
  READ_MAX = 65000
  PARSER_MAX_EXTRA_RDFS = 1
INVARIANTS TypeOK OffersAreBacked
PROPERTIES CommandsAreAtomic ImplementsInterfaces
