SPECIFICATION Spec
CONSTANTS
  Loaders = {l1, l2}
  Readers = {r1}
  Texts <- ReloadTexts
  FirstText <- FirstLines
  Flows <- SomeFlows
  Public <- PublicAddresses
  Files <- SomeFiles
  WIDTH <- Widths
  MAX_FILES <- FileLimits
  MAX_DOMAIN_LENGTH = 5
  MAX_LABEL = 2
  MAX_BLOCKLIST_ENTRIES = 2
  MAX_HOSTS_ENTRIES = 3
  MAX_LISTENERS = 2
  MAX_RULES = 2
  MAX_PROXY_ENDPOINTS = 1
  MAX_DNS_RESOLVERS = 2
  MAX_CONFIG_BYTES = 6
SYMMETRY LoaderSymmetry
INVARIANTS LastKnownGood DnsAsWritten PolicyObeyed DecidesByAuthority TextsMeanWhatTheySay
