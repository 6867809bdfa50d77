SPECIFICATION ScriptSpec
CONSTANTS
    LineMax = 2
    MaxLength = 5
    Scripts <- MCScripts
INVARIANT RunsTheScript
CHECK_DEADLOCK FALSE
