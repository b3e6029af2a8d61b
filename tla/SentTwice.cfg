\* The same counters are never sent twice: refuted where there is no file lock.
SPECIFICATION UsageSpec
CONSTANTS
  Counters = {service, menu}
  Asker = menu
  MaxRequests = 2
  MaxDay = 2
  UsageFaults = 1
INVARIANT NeverSentTwice
CHECK_DEADLOCK FALSE
