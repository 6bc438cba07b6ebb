CONSTANT Calls = {c1}
SPECIFICATION FutureSpec
PROPERTY DroppedEndsOperation
CHECK_DEADLOCK FALSE
