SPECIFICATION FairSpec
CONSTANTS
  Daemons = {"vpn1", "vpn2"}
  Bundles = {"vpn", "optional", "https", "bare", "unusable"}
  AutoVpn = TRUE
  AllowDegraded = FALSE
  Retries = 2
  MaxTokens = 2
  MaxFaults = 2
  MaxDrops = 1
  MaxCrashes = 1
INVARIANT NodeTypeOK
INVARIANT CredentialsKept
INVARIANT RunningKeyIsTrusted
INVARIANT NoOrphanDaemon
INVARIANT CleanEndStopsVpn
PROPERTY StartupEnds
