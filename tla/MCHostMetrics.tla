--------------------------- MODULE MCHostMetrics ---------------------------
EXTENDS HostMetrics

CONSTANTS root, guest

User(u, n) == [user |-> u, count |-> n]

\* More users than are shown, with a malformed entry among the first ones.
Crowd == <<User(root, 3), User(guest, Null), User(guest, 2), User(root, 0)>>

Report(total, users, since) == [total |-> total, users |-> users, since |-> since]
ReportContents ==
  {Unreadable, Report(5, Crowd, "today"), Report(0, <<>>, "today"),
   Report(Null, <<User(Unknown, 1), User(guest, 1)>>, Unknown)}

Size(total, free) == [total |-> total, free |-> free]
DataDisk == Size(6, 2)
Disks(rootDisk, srvDisk) ==
  [m \in {"/", "/data", "/srv"} |->
     CASE m = "/" -> rootDisk [] m = "/srv" -> srvDisk [] OTHER -> DataDisk]
MCTypicalDisks == Disks(Size(3, 1), DataDisk)

Memory0(total, available, free) == [total |-> total, available |-> available, free |-> free]

MCContents ==
  [hostname  |-> {"box", Unreadable},
   load      |-> {2, Unreadable},
   memory    |-> {Memory0(8, 4, 2), Memory0(8, 0, 2), Memory0(0, 0, 0), Unreadable},
   mounts    |-> {<<"/proc", "/", "/data", "/">>, <<"/data", "/srv", "/">>, Unreadable},
   fs        |-> {MCTypicalDisks, Disks(Size(3, 1), Unreadable),
                  Disks(Size(0, 0), DataDisk), Disks(Size(5, 1), DataDisk),
                  Disks(Unreadable, DataDisk)},
   network   |-> {<<3, 4>>, <<0>>, Unreadable},
   processes |-> {7, Unreadable},
   os        |-> {<<"Debian", "Alpine", "Alpine">>, <<Unreadable, Unknown, "Alpine">>,
                  <<Unreadable, Unreadable, Unreadable>>},
   hourly    |-> ReportContents,
   daily     |-> ReportContents,
   failedLogins     |-> {4, 0, -1, Unreadable},
   failedLoginUsers |-> {Crowd, <<User(Unknown, 1)>>, Unreadable}]

MCTypical ==
  [hostname |-> "box", load |-> 2, memory |-> Memory0(8, 4, 2),
   mounts |-> <<"/proc", "/", "/data", "/">>, fs |-> MCTypicalDisks,
   network |-> <<3, 4>>, processes |-> 7, os |-> <<"Debian", "Alpine", "Alpine">>,
   hourly |-> Report(5, Crowd, "today"), daily |-> Report(0, <<>>, "today"),
   failedLogins |-> 4, failedLoginUsers |-> Crowd]

\* Counters and sizes up to 7, where an int64 ends at 3: every kind of advance,
\* standstill, step backwards and wrap.
Counters(busy, idle, iowait) == [busy |-> busy, idle |-> idle, iowait |-> iowait]
MCReadings ==
  {Unreadable, Counters(0, 0, 0), Counters(1, 1, 1), Counters(1, 3, 1), Counters(2, 1, 2),
   Counters(2, 3, 1), Counters(1, 4, 0), Counters(4, 2, 1), Counters(4, 3, 3), Counters(6, 4, 5)}

=============================================================================
