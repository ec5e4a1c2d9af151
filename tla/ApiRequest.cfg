CONSTANTS
  r1 = r1
  Request = {r1}
  Limit = 2
  Window = 2
SPECIFICATION Spec
INVARIANTS
  AdmissionBound
  EffectOnce
  AnswerTellsEffect
PROPERTIES
  KnockingIsHeard
  RequestEnds
