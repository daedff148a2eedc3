SPECIFICATION Spec
CONSTANTS
  Controllers = {c1, c2}
  Readers = {daemon}
  Daemon = daemon
  Settings <- MCSettings
  Tuning <- MCTuning
  Switch <- MCSwitch
  MaxBatches = 2
  MaxTraces = 1
SYMMETRY Symmetry
INVARIANTS GenerationsVouch NoToggleLost UndisturbedTraceAgrees
