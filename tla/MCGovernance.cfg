SPECIFICATION Spec
CONSTANTS
  e1 = e1
  e2 = e2
  e3 = e3
  q1 = q1
  c1 = c1
  c2 = c2
  None = None
  Requests = {q1}
  Executions = {e1, e2, e3}
  Contents = {c1, c2}
  RequestOf <- SameRequest
  ContentOf <- OneStranger
  Provided = {e2}
  Middlewares <- FivePlaces
  MaxTier = 1
  MaxChanges = 1
  Sealers = {s1, s2}
  Registries = {r1, r2}
  Tools <- SomeTools
  Pipelines <- SomePipelines
  Profiles <- SomeProfiles
  NoProfile = NoProfile
  MaxEdits = 2
  n1 = n1
  n2 = n2
  h1 = h1
  h2 = h2
  v1 = v1
  v2 = v2
  v3 = v3
  Envelopes = {n1, n2}
  IssuedAt <- Issued
  NotBefore <- Starts
  ExpiresAt <- Ends
  Hosts = {h1, h2}
  Verifiers = {v1, v2, v3}
  HostOf <- TwoHosts
  Skew = 1
  MaxLifetime = 3
  MaxClock = 6
INVARIANTS
  ToolIsGoverned EveryEndIsObserved SealedIsProduction OncePerEnvelope
PROPERTIES
  RefinesSingleGrant DenialIsFinal OnlyTightens
CHECK_DEADLOCK FALSE
