CONSTANTS
  Fail = Fail
  None = None
  Scale = 10
  Sig = 4
  Database = "d"
  Inputs <- MCInputs
  Schemas <- MCSchemas
  PrimaryKeys <- MCPrimaryKeys
  Literals <- MCLiterals
SPECIFICATION Spec
INVARIANTS AsWritten Accepted WellDefined EffectLast
