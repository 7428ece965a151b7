SPECIFICATION Spec
CONSTANTS
  Draws <- MCDraws
  Phases <- MCPhases
INVARIANTS FieldsFit MagnitudeExact ReadsBack LineFits
