CONSTANT Calls = {c1}
SPECIFICATION FutureSpec
INVARIANT CancelledTakesNothing
CHECK_DEADLOCK FALSE
