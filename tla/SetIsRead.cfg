SPECIFICATION ConfigTextSpec
CONSTANTS
  MaxLines = 3
  MaxTextEdits = 1
INVARIANT SetIsRead
CHECK_DEADLOCK FALSE
