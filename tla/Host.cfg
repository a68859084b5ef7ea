\* Two sources change during a request.  Counters of width 8 wrap; two disks and
\* two users are listed of more.
SPECIFICATION Spec
CONSTANTS
  Unreadable = Unreadable
  Unknown = Unknown
  Null = Null
  root = root
  guest = guest
  Contents <- MCContents
  Typical <- MCTypical
  Readings <- MCReadings
  Width = 8
  MaxDisks = 2
  MaxUsers = 2
  SkippedMounts = {"/proc"}
  MaxChanges = 2
INVARIANTS TypeOK CPUShareTrue FiguresWereThere NothingWithheld
