SPECIFICATION Spec
CONSTANTS
  Daemons = {"vpn1", "vpn2"}
  Bundles = {"vpn"}
  AutoVpn = TRUE
  AllowDegraded = FALSE
  Retries = 3
  MaxTokens = 1
  MaxFaults = 0
  MaxDrops = 0
  MaxCrashes = 1
INVARIANT TokenNoLongerNeeded
