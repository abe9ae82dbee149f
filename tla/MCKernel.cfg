CONSTANTS
  Lines <- MCLines
  Managers = {interrupts}
  NoManager = NoManager
  Handlers = {keyboard, mouse}
  NoHandler = NoHandler
  interrupts = interrupts
  keyboard = keyboard
  mouse = mouse
SPECIFICATION KernelSpec
INVARIANTS
  DevicesHandled
PROPERTIES
  RequestsServed
