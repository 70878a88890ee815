SPECIFICATION Spec
INVARIANTS
    TypeOK
    NothingLeftHeld
    UsersHaveDevice
    WorkLeftOnlyByLateEdge
CHECK_DEADLOCK FALSE
