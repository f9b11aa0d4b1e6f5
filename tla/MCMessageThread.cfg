SPECIFICATION Spec
CONSTANTS
  brief = brief
  verbose = verbose
  Systems = {brief, verbose}
  Default = brief
  None = None
  Setups <- MCSetups
INVARIANTS
  TypeOK
  AnswersUnderItsSystem
PROPERTIES
  IsConversation
  TurnsEnd
CHECK_DEADLOCK FALSE
