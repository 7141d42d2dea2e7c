\* Up to five alembic commands, any of which may fail or be cut short by a
\* crash at any operation.  The model stops when the commands run out.
CONSTANT MaxRuns = 5
SPECIFICATION Spec
INVARIANT IdleSchemaMatchesVersion
CHECK_DEADLOCK FALSE
