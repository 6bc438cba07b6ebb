CONSTANT Calls = {c1, c2}
SPECIFICATION TaskSpec
PROPERTIES DropCancelsTask AwaitableUsed WaiterAnswered ImplementsCall
CHECK_DEADLOCK FALSE
