\* A list of up to three elements, inserted and deleted anywhere.
CONSTANTS
  MAXSIZE = 5
  Elem = {a, b}
  NoElem = NoElem
SPECIFICATION Spec
PROPERTIES ImplementsList
