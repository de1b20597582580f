SPECIFICATION Spec
PROPERTY CompletedStays
CHECK_DEADLOCK FALSE
