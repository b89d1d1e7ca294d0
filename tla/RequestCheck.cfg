SPECIFICATION Spec
CHECK_DEADLOCK FALSE
INVARIANTS
  RequestsCheckedAsRuled
  AccessAsConfigured
