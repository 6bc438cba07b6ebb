SPECIFICATION Spec
CONSTANTS
  None = None
  Off = Off
  Labels = {lb}
  Max = 3
  Conns = {k1, k2, k3}
  Objs = {o1, o2}
  Calls = {a1}
  Reserved = {r1}
  MaxPipes = 2
  Dials <- MCDials
  Modes <- MCModes
  Pools <- MCPools
  Decisions <- MCDecisions
  Choices <- MCChoices
  Keywords <- MCKeywords
  Configs <- MCConfigs
SYMMETRY Alike
INVARIANTS PipesInv MembersShareOptions
PROPERTIES RefusalKeepsCarrier
