SPECIFICATION Spec
CONSTANT NBuyers = 2
INVARIANT NativelyBridged
CHECK_DEADLOCK FALSE
