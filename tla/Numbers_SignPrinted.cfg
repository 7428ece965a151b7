SPECIFICATION Spec
CONSTANTS
  Draws <- MCDraws
  Phases <- MCPhases
INVARIANT PrintedIsMeant
