\* One request; nothing changes, a report may hold a null count.
SPECIFICATION Spec
CONSTANTS
  Unreadable = Unreadable
  Unknown = Unknown
  Null = Null
  root = root
  guest = guest
  Contents <- MCContents
  Typical <- MCTypical
  Readings <- MCReadings
  Width = 8
  MaxDisks = 2
  MaxUsers = 2
  SkippedMounts = {"/proc"}
  MaxChanges = 0
INVARIANT MalformedEntriesDropped
