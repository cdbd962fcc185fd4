\* Two processes whose calls may overlap.
SPECIFICATION Spec
CONSTANTS
  Clients = {c1, c2}
  Prompt = FALSE
SYMMETRY Symmetry
INVARIANT Inv
PROPERTIES SuccessMeansMode TogglesTowardsGoal
