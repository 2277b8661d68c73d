SPECIFICATION Spec
CONSTANTS
  Families <- MCFamilies
INVARIANTS
  TypeOK
  EngineEvaluatesWhatEditorAccepts
