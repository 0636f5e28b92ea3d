\* Three calls, so that values of the third may be mixed with those of two
\* before.  After the last call there is no step.
CONSTANT MaxCalls = 3
SPECIFICATION Spec
INVARIANTS TypeOK MixIsPrefix OkMeansNew
CHECK_DEADLOCK FALSE
