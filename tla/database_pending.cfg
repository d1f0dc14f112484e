\* The ten statements of the schema, any number of crashes and errors.
SPECIFICATION Spec
CONSTANTS
    Statements = 10
INVARIANTS
    NothingPending
