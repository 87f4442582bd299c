SPECIFICATION LandingSpec
CONSTANT Entries = {0, 1}
INVARIANT HiddenIsObserved
CHECK_DEADLOCK FALSE
