SPECIFICATION IpSpec
CONSTANTS
  Ips <- MCIps
  Base = 2
  Interval = 2
  Half = 5
  MaxNow = 8
  MaxEntries = 5
  Never = Never
INVARIANTS
  Throttled
