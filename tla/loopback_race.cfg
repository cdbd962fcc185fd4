\* Two processes: what the comment of the disabling call says of the toggle.
SPECIFICATION Spec
CONSTANTS
  Clients = {c1, c2}
  Prompt = TRUE
SYMMETRY Symmetry
PROPERTY ToggleOnlyIfEnabled
