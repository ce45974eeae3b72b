\* Two deployers and three deployments: two that overlap and one after them.
CONSTANTS
  Nothing = Nothing
  Empty = Empty
  Mixed = Mixed
  Deployers = {d1, d2}
  MaxDeploys = 3
  Tries = 2
SYMMETRY Deployment
SPECIFICATION DeploySpec
INVARIANTS DeployTypeOK CatalogueAndKeyHold SettledIsUsable
CHECK_DEADLOCK FALSE
