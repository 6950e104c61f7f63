CONSTANTS
  robot = robot
  local = local
  ghost = ghost
  standby = standby
  service = service
  lead = lead
  bogus = bogus
  image = image
  update = update
  detect = detect
  Machines = {robot, local}
  Issuer = robot
  States = {standby, service, lead}
  Bare = {standby}
  TopicsOf <- BareTopicsOf
  ServicesOf <- MCServicesOf
  Assigned <- MCAssigned
  Edges <- MCEdges
  Commands <- BareCommands
  MaxCommands = 3
  Lossy = {local}
  Restarting = {local}
  None = None
SPECIFICATION Spec
INVARIANTS
  NodesLive
CHECK_DEADLOCK FALSE
