CONSTANTS
  Lines <- MCLines
  Managers = {m1, m2}
  NoManager = NoManager
  Handlers = {h1, h2}
  NoHandler = NoHandler
SPECIFICATION Spec
SYMMETRY Interchangeable
INVARIANTS
  TypeOK
  RightHandler
  InServiceAccounted
  EnabledIffActive
  NoDanglingHandler
PROPERTIES
  EoiEndsOwnService
  LostOnlyInDeactivate
  RegistrationKept
