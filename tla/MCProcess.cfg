SPECIFICATION SpecProcess
CONSTANTS
  edge = edge
  inner = inner
  odd = odd
  client = client
  q1 = q1
  q2 = q2
  q3 = q3
  Requests = {q1, q2, q3}
  Hosts <- AllHosts
  Items <- Listing
  MaxOwn = 2
  MaxProxies = 2
  HandlerCodes = {200, 400, 404, 500}
  CORSOn = TRUE
INVARIANTS
  OnlyForcedStopFails
  ChargedToNearest
  LoggedAsSent
  EnvelopeMatches
  BodyDecodedAsSent
PROPERTY ProcessEnds
