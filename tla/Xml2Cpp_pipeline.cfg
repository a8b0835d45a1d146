SPECIFICATION Spec
CONSTANTS
  Documents <- MCDocuments
  Texts <- MCTexts
  Classes = {"Person"}
  Sizes = {0, 2}
  Bodies <- MCBodies
CHECK_DEADLOCK FALSE
INVARIANTS
  DocumentBuilt
  TypesAgree
  
  ValuesArrive
  OnlyItsTypes
  IntrospectionIsTrue
