SPECIFICATION Spec
CONSTANTS
  H = 2
  TauMaxes = {1, 3}
  IntAdvances = {0, 3, 99}
  Quanta = {0, 1}
  TEnd = 11
  INF = 99
INVARIANTS
  TypeOK TimesAgree InputsAgree MeasurementAge
\* The loop ends at t_end.
CHECK_DEADLOCK FALSE
