\* Two parties that may each be owner, relayer and contributor.
CONSTANTS
  Address = {alice, bob}
  NoAddr = NoAddr
  Nobody = Nobody
  Root = {r1, r2}
  NoRoot = NoRoot
  Timestamp = {0, 1}
  Garbage = Garbage
  Truncated = Truncated
SPECIFICATION RegistrySpec
INVARIANT RegistryTypeOK OneSubmissionPerRoot AttributionSigned
