SPECIFICATION StartupSpec
CONSTANTS
  Process = {p1, p2}
  HarnessId = {h1, h2}
  NULL = NULL
INVARIANTS AdoptedIsRegistered IdentityKeptAlone SchemaInOrder OpenedIsCurrent LoneOpenerSucceeds
PROPERTIES HostsFollowState OpensEnd
CHECK_DEADLOCK FALSE
