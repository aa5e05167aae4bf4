SPECIFICATION MCSpec
CONSTANTS
  Junk = Junk
  Blank = Blank
  NoRequest = NoRequest
  AbsentMember = AbsentMember
  JsonLength <- MCJsonLength
  Requests <- MCRequests
  Responses <- MCResponses
  Configurations <- MCConfigurations
  Fixtures <- MCFixtures
  Observations <- MCObservations
INVARIANTS
  ArtifactsStayValid
  RequestsReadTheSame
  RemovalsAreTold
  PlannedProvidersMayBeUsed
  TraceReplays
  ExportsAccountForEvents
  OutcomeIsTheLastAttempt
  SecretsStayOut
  HookPairsMeet
  
  ComparisonsAgreeBothWays
CHECK_DEADLOCK FALSE
