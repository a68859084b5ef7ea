---------------------------- MODULE HostMetrics ----------------------------
(***************************************************************************)
(* What /api/system and the telemetry block of /api/architecture say of    *)
(* the Linux host: collectSystem and its readers in server.go, cpu.go and  *)
(* statfs_unix.go, and processOverviewTelemetry in telemetry.go.           *)
(*                                                                         *)
(* A handler reads one source after the other while the kernel's counters  *)
(* advance and the login collector replaces its files.  Any source may be  *)
(* unreadable, malformed included, at the moment it is read; the error is  *)
(* swallowed and the next source read.  Handlers share no state, so one is *)
(* enough.                                                                 *)
(***************************************************************************)
EXTENDS Integers, Sequences, FiniteSets

CONSTANTS Unreadable,   \* content of a source that cannot be read or parsed
          Unknown,      \* a figure left out of an answer, or null
          Null,         \* JSON null
          Contents,     \* Contents[s]: what source s may hold
          Typical,      \* Typical[s]: what it holds at first
          Readings,     \* the counters /proc/stat may show
          Width,        \* 2^64: counters and sizes wrap
          MaxDisks,     \* 4: disks listed at most
          MaxUsers,     \* 20: users listed per report at most
          SkippedMounts,\* mount points below /proc, /sys and /dev
          MaxChanges    \* bound on the changes of the host

Sources == {"hostname", "load", "memory", "mounts", "fs", "network", "processes",
            "os", "hourly", "daily", "failedLogins", "failedLoginUsers"}
Figures == (Sources \ {"mounts", "fs"}) \union {"cpu", "disks"}

ASSUME HostMetricsAssumption ==
  /\ Width \in Nat \ {0} /\ MaxDisks \in Nat \ {0} /\ MaxUsers \in Nat \ {0}
  /\ MaxChanges \in Nat
  /\ \A r \in Readings \ {Unreadable} :
       r \in [busy : 0 .. Width - 1, idle : 0 .. Width - 1, iowait : 0 .. Width - 1]

IsSequence(s) == s \in Seq({s[i] : i \in DOMAIN s})

\* What can be read has the fields its reader takes from it.
ASSUME ContentsAssumption ==
  /\ Typical = [s \in Sources |-> Typical[s]]
  /\ \A s \in Sources : Typical[s] \in Contents[s]
  /\ \A c \in Contents["memory"] \ {Unreadable} :
       c \in [total : Nat, available : Nat, free : Nat]
  /\ Contents["failedLogins"] \ {Unreadable} \subseteq Int
  /\ \A c \in (Contents["hourly"] \union Contents["daily"]) \ {Unreadable} :
       IsSequence(c.users)
  /\ \A table \in Contents["mounts"] \ {Unreadable} :
       /\ IsSequence(table)
       /\ \A i \in DOMAIN table, size \in Contents["fs"] :
            table[i] \notin SkippedMounts /\ size[table[i]] # Unreadable
              => size[table[i]] \in [total : 0 .. Width - 1, free : 0 .. Width - 1]

VARIABLES host,     \* host[s]: what source s holds now
          changes,  \* how often the host changed, up to MaxChanges
          pc,       \* "idle" or the figure to read next
          route,    \* "system" or "architecture"
          readings, \* the counters read so far, until the share is published
          todo,     \* mount points whose file system is to be measured
          system,   \* the snapshot put together so far
          answer,   \* the latest answer
          during    \* history: what each source held since the request came

vars == <<host, changes, pc, route, readings, todo, system, answer, during>>

Empty == [f \in Figures |-> Unknown]
NoAnswer == [kind |-> "none", figures |-> Empty]

Labels == Figures \union {"idle", "cpu2", "fs", "respond"}

TypeOK ==
  /\ \A s \in Sources : host[s] \in Contents[s] /\ during[s] \subseteq Contents[s]
  /\ changes \in 0 .. MaxChanges
  /\ pc \in Labels
  /\ route \in {"system", "architecture"}
  /\ Len(readings) <= 2 /\ \A i \in DOMAIN readings : readings[i] \in Readings
  /\ DOMAIN system = Figures /\ DOMAIN answer.figures = Figures
  /\ system["cpu"] \in 0 .. 1000 \union {Unknown}
  /\ answer.kind \in {"none", "system", "telemetry", "hostless", "dropped"}
  /\ \A i \in DOMAIN todo : todo[i] \notin SkippedMounts

Init ==
  /\ host = Typical
  /\ changes = 0
  /\ pc = "idle" /\ route = "system"
  /\ readings = <<>> /\ todo = <<>>
  /\ system = Empty /\ answer = NoAnswer
  /\ during = [s \in Sources |-> {}]

-----------------------------------------------------------------------------
(* The CPU share, in tenths of a percent.  busy stands for the sum of the  *)
(* fields other than idle and iowait; that the kernel counts guest time in *)
(* two of them is left out.                                                *)

\* Mutant: iowait counts as work.
parseCPUSampleWaiting(r) ==
  LET total == (r.busy + r.idle + r.iowait) % Width
  IN  [total |-> total, busy |-> (total - r.idle) % Width]

parseCPUSample(r) ==
  LET total == (r.busy + r.idle + r.iowait) % Width
      idle  == (r.idle + r.iowait) % Width
  IN  [total |-> total, busy |-> (total - idle) % Width]

SampleFails(r) == r = Unreadable \/ parseCPUSample(r).total = 0

cpuPercentBetween(prev, next) ==
  IF next.total <= prev.total \/ next.busy < prev.busy THEN Unknown
  ELSE LET total   == next.total - prev.total
           percent == (2000 * (next.busy - prev.busy) + total) \div (2 * total)
       IN  IF percent > 1000 THEN 1000 ELSE percent

-----------------------------------------------------------------------------
(* The readers: what the handler makes of a source's content.              *)

\* The elements of s at the positions in K, in their order.
At(s, K) ==
  LET upTo[i \in 0 .. Len(s)] ==
        IF i = 0 THEN <<>>
        ELSE IF i \in K THEN Append(upTo[i - 1], s[i])
        ELSE upTo[i - 1]
  IN  upTo[Len(s)]

readLoadAverage(c) == IF c = Unreadable THEN 0 ELSE c

\* Without MemAvailable, or with none left, MemFree stands in.
readMemInfo(c) ==
  IF c = Unreadable THEN [total |-> 0, used |-> 0]
  ELSE [total |-> c.total,
        used  |-> c.total - (IF c.available = 0 THEN c.free ELSE c.available)]

\* Mutant: file systems of the kernel are measured as well.
mountPointsAll(c) == IF c = Unreadable THEN <<>> ELSE c

\* The mount points to measure, each once and in the table's order.
mountPoints(c) ==
  IF c = Unreadable THEN <<>>
  ELSE At(c, {i \in DOMAIN c : /\ c[i] \notin SkippedMounts
                              /\ \A j \in 1 .. i - 1 : c[j] # c[i]})

statFS(m, size) ==
  [mount |-> m, total |-> size.total, used |-> (size.total - size.free) % Width]

readNetworkStats(c) == IF c = Unreadable THEN <<>> ELSE c

countProcesses(c) == IF c = Unreadable THEN 0 ELSE c

\* Of the three os-release files the first that names the system.
readOSRelease(files) ==
  LET named == At(files, {i \in DOMAIN files : files[i] \notin {Unreadable, Unknown}})
  IN  IF named = <<>> THEN "Linux" ELSE Head(named)

FirstUsers(users) ==
  IF Len(users) > MaxUsers THEN SubSeq(users, 1, MaxUsers) ELSE users

\* Mutant: a missing or negative count is reported as a clean zero.
readFailedLoginsAsZero(c) == IF c = Unreadable \/ c < 0 THEN 0 ELSE c

readFailedLogins(c) == IF c = Unreadable \/ c < 0 THEN Unknown ELSE c

\* json.Unmarshal leaves an int as it is when the value is null.
readFailedLoginUsers(c) ==
  IF c = Unreadable THEN <<>>
  ELSE LET kept == {i \in DOMAIN c : c[i].user # Unknown /\ c[i].count \in Nat \union {Null}}
           shown == FirstUsers(At(c, kept))
       IN  [i \in DOMAIN shown |->
              IF shown[i].count = Null THEN [shown[i] EXCEPT !.count = 0] ELSE shown[i]]

WellFormed(users) ==
  {i \in DOMAIN users : users[i].user # Unknown /\ users[i].count \in Nat}

readSSHLoginReport(c) ==
  IF c = Unreadable THEN [total |-> Unknown, users |-> <<>>, since |-> Unknown]
  ELSE [total |-> IF c.total \in Nat THEN c.total ELSE Unknown,
        users |-> FirstUsers(At(c.users, WellFormed(c.users))),
        since |-> c.since]

\* What is left out of an answer is told from every figure.
ASSUME UnknownAssumption ==
  /\ Unknown \notin Int
  /\ \A c \in Contents["memory"] : readMemInfo(c) # Unknown
  /\ \A c \in Contents["hourly"] \union Contents["daily"] : readSSHLoginReport(c) # Unknown

-----------------------------------------------------------------------------
(* The handler's steps, in the order of collectSystem.                     *)

After == [hostname |-> "load", load |-> "cpu", cpu |-> "memory", memory |-> "disks",
          disks |-> "network", network |-> "processes", processes |-> "os",
          os |-> "hourly", hourly |-> "daily", daily |-> "failedLogins",
          failedLogins |-> "failedLoginUsers", failedLoginUsers |-> "respond"]

Request ==
  /\ pc = "idle"
  /\ pc' = "hostname"
  /\ route' \in {"system", "architecture"}
  /\ system' = Empty
  /\ answer' = NoAnswer
  /\ during' = [s \in Sources |-> {host[s]}]
  /\ UNCHANGED <<host, changes, readings, todo>>

Read(figure, value) ==
  /\ pc = figure
  /\ system' = [system EXCEPT ![figure] = value]
  /\ pc' = After[figure]
  /\ readings' = <<>>
  /\ UNCHANGED <<host, changes, route, todo, answer, during>>

Hostname == Read("hostname", IF host["hostname"] = Unreadable THEN ""
                             ELSE host["hostname"])
LoadAverage == Read("load", readLoadAverage(host["load"]))

\* A first sample that fails leaves the share out at once.
FirstSample ==
  /\ pc = "cpu"
  /\ \E r \in Readings :
       IF SampleFails(r)
       THEN pc' = After["cpu"] /\ UNCHANGED readings
       ELSE pc' = "cpu2" /\ readings' = <<r>>
  /\ UNCHANGED <<host, changes, route, todo, system, answer, during>>

\* After cpuSampleInterval.  Less than Width ticks pass in it.
SecondSample ==
  /\ pc = "cpu2"
  /\ pc' = After["cpu"]
  /\ \E r \in Readings :
       /\ readings' = Append(readings, r)
       /\ system' = [system EXCEPT !["cpu"] =
            IF SampleFails(r) THEN Unknown
            ELSE cpuPercentBetween(parseCPUSample(readings[1]), parseCPUSample(r))]
  /\ UNCHANGED <<host, changes, route, todo, answer, during>>

Memory == Read("memory", readMemInfo(host["memory"]))

\* The mount table is read once; each file system is measured later.
Mounts ==
  /\ pc = "disks"
  /\ todo' = mountPoints(host["mounts"])
  /\ pc' = IF todo' = <<>> THEN After["disks"] ELSE "fs"
  /\ system' = [system EXCEPT !["disks"] = <<>>]
  /\ UNCHANGED <<host, changes, route, readings, answer, during>>

\* Mutant: one that cannot be measured ends the list.
StatFSStops ==
  /\ pc = "fs"
  /\ LET m     == Head(todo)
         size  == host["fs"][m]
         disks == IF size = Unreadable THEN system["disks"]
                  ELSE Append(system["disks"], statFS(m, size))
         done  == size = Unreadable \/ Len(todo) = 1 \/ Len(disks) >= MaxDisks
     IN  /\ system' = [system EXCEPT !["disks"] = disks]
         /\ todo' = IF done THEN <<>> ELSE Tail(todo)
         /\ pc' = IF done THEN After["disks"] ELSE pc
  /\ UNCHANGED <<host, changes, route, readings, answer, during>>

\* One that cannot be measured is skipped and does not count.
StatFS ==
  /\ pc = "fs"
  /\ LET m     == Head(todo)
         size  == host["fs"][m]
         disks == IF size = Unreadable THEN system["disks"]
                  ELSE Append(system["disks"], statFS(m, size))
         done  == Len(todo) = 1 \/ Len(disks) >= MaxDisks
     IN  /\ system' = [system EXCEPT !["disks"] = disks]
         /\ todo' = IF done THEN <<>> ELSE Tail(todo)
         /\ pc' = IF done THEN After["disks"] ELSE pc
  /\ UNCHANGED <<host, changes, route, readings, answer, during>>

Network          == Read("network", readNetworkStats(host["network"]))
Processes        == Read("processes", countProcesses(host["processes"]))
OSRelease        == Read("os", readOSRelease(host["os"]))

readSSHLogins      == Read("hourly", readSSHLoginReport(host["hourly"]))
readSSHLoginsToday == Read("daily", readSSHLoginReport(host["daily"]))
FailedLogins       == Read("failedLogins", readFailedLogins(host["failedLogins"]))
FailedLoginUsers   == Read("failedLoginUsers", readFailedLoginUsers(host["failedLoginUsers"]))

-----------------------------------------------------------------------------
(* The telemetry block.  metrics repeats the figures of hosts[0].          *)

RootDisks(sys) ==
  At(sys["disks"], {i \in DOMAIN sys["disks"] : sys["disks"][i].mount = "/"})

\* The conversion of a uint64 to int64.
int64(n) == IF 2 * n < Width THEN n ELSE n - Width

\* The loop ends at the first one.
RootDisk(sys) ==
  IF RootDisks(sys) = <<>> THEN <<>>
  ELSE LET d == RootDisks(sys)[1]
       IN  <<[mount |-> d.mount, total |-> int64(d.total), used |-> int64(d.used)]>>

SumOf(s) ==
  LET upTo[i \in 0 .. Len(s)] == IF i = 0 THEN 0 ELSE upTo[i - 1] + s[i]
  IN  upTo[Len(s)]

\* The figures of hosts[0]; a key that is left out, or null, is Unknown.
HostFigures(sys) ==
  [sys EXCEPT !["memory"]    = IF sys["memory"].total > 0 THEN sys["memory"] ELSE Unknown,
              !["disks"]     = RootDisk(sys),
              !["network"]   = IF SumOf(sys["network"]) > 0 THEN SumOf(sys["network"]) ELSE Unknown,
              !["processes"] = IF sys["processes"] > 0 THEN sys["processes"] ELSE Unknown]

\* diskPct stays nil when the root file system has no size, or one that is
\* negative as an int64.
Panics(sys) == RootDisk(sys) # <<>> /\ RootDisk(sys)[1].total <= 0

processOverviewTelemetry(sys) ==
  IF sys["hostname"] = "" THEN [kind |-> "hostless", figures |-> Empty]
  ELSE IF Panics(sys) THEN [kind |-> "dropped", figures |-> Empty]
  ELSE [kind |-> "telemetry", figures |-> HostFigures(sys)]

Respond ==
  /\ pc = "respond"
  /\ pc' = "idle"
  /\ answer' = IF route = "system" THEN [kind |-> "system", figures |-> system]
               ELSE processOverviewTelemetry(system)
  /\ system' = Empty
  /\ UNCHANGED <<host, changes, route, readings, todo, during>>

-----------------------------------------------------------------------------
\* A source changes: the collector replaces a report, a disk goes away, ...
HostChanges(s) ==
  /\ changes < MaxChanges
  /\ changes' = changes + 1
  /\ host' \in {[host EXCEPT ![s] = c] : c \in Contents[s] \ {host[s]}}
  /\ during' = IF pc = "idle" THEN during
               ELSE [during EXCEPT ![s] = @ \union {host'[s]}]
  /\ UNCHANGED <<pc, route, readings, todo, system, answer>>

Handler ==
  \/ Request \/ Hostname \/ LoadAverage \/ FirstSample \/ SecondSample \/ Memory
  \/ Mounts \/ StatFS \/ Network \/ Processes \/ OSRelease
  \/ readSSHLogins \/ readSSHLoginsToday \/ FailedLogins \/ FailedLoginUsers
  \/ Respond

Next == Handler \/ \E s \in Sources : HostChanges(s)

Spec == Init /\ [][Next]_vars

-----------------------------------------------------------------------------
(* Properties.                                                             *)

\* An answer with figures.  Without a hostname the block has none.
Answered == answer.kind \in {"system", "telemetry"}
Shown(f) == answer.figures[f]

\* The share published is that of the CPU time which passed between the two
\* samples, to half a tenth of a percent, even if the sums of the counters
\* wrapped, and it is published whenever neither sum wrapped and time passed.
\* Only a counter that ran backwards, as iowait does, may distort it.
CPUShareTrue ==
  \A a, b \in Readings :
    LET busy  == b.busy - a.busy
        total == busy + (b.idle - a.idle) + (b.iowait - a.iowait)
        sum   == b.busy + b.idle + b.iowait
    IN  /\ readings = <<a, b>>
        /\ b # Unreadable
        /\ b.busy >= a.busy /\ b.idle >= a.idle /\ b.iowait >= a.iowait
        /\ total < Width
        => LET error == system["cpu"] * total - 1000 * busy
           IN  /\ system["cpu"] # Unknown => 2 * error \in -total .. total
               /\ sum < Width => (system["cpu"] = Unknown <=> total = 0)

ShowsReport(f, c) ==
  IF c = Unreadable THEN f = [total |-> Unknown, users |-> <<>>, since |-> Unknown]
  ELSE /\ f.total = (IF c.total \in Nat THEN c.total ELSE Unknown)
       /\ f.since = c.since
       /\ \E at \in [DOMAIN f.users -> DOMAIN c.users] :
            /\ \A i \in DOMAIN at : f.users[i] = c.users[at[i]] /\ f.users[i].count \in Nat
            /\ \A i, j \in DOMAIN at : i < j => at[i] < at[j]
            /\ \/ Len(f.users) = MaxUsers
               \/ \A i \in DOMAIN c.users \ {at[j] : j \in DOMAIN at} :
                     c.users[i].user = Unknown \/ c.users[i].count \notin Nat

\* The figures listed here are not made up or put together.  Total, start and
\* users of each accepted-login report are those of one document its own file held
\* during the request, however often the collector replaced it, with only malformed
\* or surplus entries missing; a failure count was there or is unknown, never a zero
\* for a file that could not be read; a disk was mounted and had that size, converted
\* to int64 or not; the telemetry block has a total of the memory only if it was there.
\* The load average was there too, or is the zero given out for a file that could not
\* be read (collectSystem, readLoadAverage, readFailedLogins, readSSHLoginReport,
\* readMountsAndDisks, processOverviewTelemetry).
FiguresWereThere ==
  Answered =>
    /\ \A f \in {"hourly", "daily"} : \E c \in during[f] : ShowsReport(Shown(f), c)
    /\ Shown("failedLogins") \in (during["failedLogins"] \ {Unreadable}) \union {Unknown}
    /\ \/ Shown("load") \in during["load"] \ {Unreadable}
       \/ Shown("load") = 0 /\ Unreadable \in during["load"]
    /\ \A i \in DOMAIN Shown("disks") :
         LET d == Shown("disks")[i] IN
           /\ \E c \in during["fs"] :
                c[d.mount] = [total |-> d.total, free |-> (d.total - d.used) % Width]
           /\ \E c \in during["mounts"] \ {Unreadable} : \E j \in DOMAIN c : c[j] = d.mount
    /\ answer.kind = "telemetry" /\ Shown("memory") # Unknown =>
         \E c \in during["memory"] \ {Unreadable} :
           c.total = Shown("memory").total /\ c.total > 0

\* s held c, and could be read, from the request to its answer.
Steady(s, c) == during[s] = {c} /\ c # Unreadable

\* One source that fails or changes hides no figure of another: failure count,
\* memory, daily logins and root disk are in the answer if they could be read all
\* along, whatever became of the rest.  There are two exceptions.  Without a
\* hostname the telemetry block has no figure at all (telemetry.go:18): that
\* happens only if the name could not be read during the request.  And the answer as
\* a whole is lost to a panic (telemetry.go:90): only if the root file system had,
\* during the request, no size or one beyond an int64.
NothingWithheld ==
  /\ answer.kind = "hostless" => during["hostname"] \intersect {Unreadable, ""} # {}
  /\ answer.kind = "dropped" =>
       \E c \in during["fs"] : c["/"] # Unreadable /\ int64(c["/"].total) <= 0
  /\ Answered =>
    /\ \A c \in Contents["failedLogins"] \ {Unreadable} :
         Steady("failedLogins", c) /\ c >= 0 => Shown("failedLogins") = c
    /\ \A c \in Contents["memory"] \ {Unreadable} :
         Steady("memory", c) /\ c.total > 0 =>
           Shown("memory") # Unknown /\ Shown("memory").total = c.total
    /\ \A c \in Contents["daily"] \ {Unreadable} :
         Steady("daily", c) => Shown("daily") # Unknown /\ ShowsReport(Shown("daily"), c)
    /\ \A table \in Contents["mounts"] \ {Unreadable}, size \in Contents["fs"] :
         /\ Steady("mounts", table) /\ Steady("fs", size)
         /\ size["/"] # Unreadable
         /\ \E i \in DOMAIN mountPoints(table) :
              LET before == {j \in 1 .. i : size[mountPoints(table)[j]] # Unreadable}
              IN  mountPoints(table)[i] = "/" /\ Cardinality(before) <= MaxDisks
         => RootDisks([disks |-> Shown("disks")]) # <<>>

\* Violated: README.md:85-86 and the comment on readFailedLoginUsers say that
\* an entry whose count is not a non-negative integer is dropped.
MalformedEntriesDropped ==
  Answered =>
    \A i \in DOMAIN Shown("failedLoginUsers") :
      \E c \in during["failedLoginUsers"] \ {Unreadable} :
        \E j \in DOMAIN c : c[j] = Shown("failedLoginUsers")[i]
=============================================================================
