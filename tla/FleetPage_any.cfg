\* Calls in every order, or one at a time.
SPECIFICATION PageSpec
CONSTANT MaxCalls = 5
CHECK_DEADLOCK FALSE
INVARIANTS LatchOpens MembershipIsTrue FindingsDrawn
