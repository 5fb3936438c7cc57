SPECIFICATION Spec
CONSTANTS
  MaxAttempts = 4
  MaxDays = 1
  Retention = 0
  Keep = 3
  MaxLimit = 2
  Limits <- NoDays
  Queries <- TwoSearches
  MaxReadings = 5
  Ticks <- AnyTick
  MaxBytes = 1
  Cap = 4
  Points = {1, 2}
  Bits = 3
  Private <- Low
  Reserved <- Top
  Tunnel = "tun"
  Remote <- Server
  Lan4 <- HomeRoutes
  Lan6 <- HomeRoutes6
  OnLink <- OwnSubnet
  Offers <- Pushes
  Carried6 <- SomeIpv6
  Links <- SomeLinks
  RuleDomains <- SomeDomains
  Processes = {service, command}
  Service = service
  MaxNumber = 2
  Branches = {main, fork}
  MaxEdits = 3
  Machines <- SomeMachines
  Comment = Comment
  Junk = Junk
  Unstamped = Unstamped
  None = None
INVARIANT PagesComplete
INVARIANT SeriesFaithful
INVARIANT ScopeExact
INVARIANT AccusedRightly
 
INVARIANT MigrationsApplied
INVARIANT DriftTold
CHECK_DEADLOCK FALSE
