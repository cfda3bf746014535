\* Two devices, the second one's client may report a failed attempt and its end; two clients.
CONSTANTS
  Handler = {h1, h2}
  ReportsBoth = {h2}
  MaxQueued = 2
  Conn = {c1, c2}
  GatewayAccess = GatewayAccess
  HdlcdClients = HdlcdClients
  RoutingEntity = RoutingEntity
  Pool = Pool
SPECIFICATION MainSpec
INVARIANTS TypeOK SingleAttempt NeverGivesUp CallbacksFindTheirObjects NothingOutlivesIoService
PROPERTIES ConnectionKept ExceptionDestroysNothing Reconnects MainReturns
