\* One process: calls one after the other, as the sweep and the lab run them.
SPECIFICATION FairSpec
CONSTANTS
  Clients = {c1}
  Prompt = TRUE
PROPERTIES ImplementsSwitch CallReturns
