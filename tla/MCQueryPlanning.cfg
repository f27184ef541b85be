SPECIFICATION Spec
CONSTANTS
    RowId = RowId
    Null = Null
    Columns <- MCColumns
    Contents <- MCContents
    Statements <- MCStatements
INVARIANT PlanMeansStatement
CHECK_DEADLOCK FALSE
