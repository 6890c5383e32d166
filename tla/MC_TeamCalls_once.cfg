\* One call, made again and again in four handlers; three that die or throw.
CONSTANTS
  Nil = Nil
  Keys = {"report"}
  Requests = {"h1", "h2", "h3", "h4"}
  MaxFailures = 3
  MaxPauses = 0
SPECIFICATION CallsFairSpec
CHECK_DEADLOCK FALSE
INVARIANTS
  EffectOnce
  OneAnswer
PROPERTIES
  CallsAreAnswered
