\* Patches of up to one port more than the arrays hold.
CONSTANTS
  Values = {0, 1}
  Zero = 0
  Garbage = Garbage
  PortsMax = 2
  Patchable <- SomeConfigs
  Askable <- SomePorts
SPECIFICATION Spec
INVARIANTS InBounds NothingElseLost AnswerOrNothing
