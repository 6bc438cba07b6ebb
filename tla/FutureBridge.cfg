CONSTANT Calls = {c1, c2}
SPECIFICATION FutureSpec
PROPERTIES CancelEndsOperation CancelPreempts ResultDelivered ImplementsCall
CHECK_DEADLOCK FALSE
