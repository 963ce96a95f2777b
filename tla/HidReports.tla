----------------------------- MODULE HidReports -----------------------------
(***************************************************************************)
(* fido_hid_open, _close, _read and _write of each system's hid_*.c: how   *)
(* input reports come from the token to the buffer of a caller, through    *)
(* the queue of the kernel and what the library keeps of its own: a pipe   *)
(* that a callback fills (hid_osx.c), a read that outlives the call that   *)
(* began it (hid_win.c).  Reports are numbered as they arrive.             *)
(***************************************************************************)
EXTENDS Integers, Sequences

CONSTANTS
  Systems,       \* the hid_*.c that may be linked in
  Waits,         \* the timeouts that callers pass: milliseconds, or -1
  QueueLen,      \* reports the kernel keeps for a handle
  MaxReports,    \* bounds the number of input reports
  MaxHidFailures,   \* bounds the number of reads and writes that fail
  NoReport       \* a read returned none

ASSUME HidReportsAssumption ==
  /\ Systems \subseteq {"linux", "freebsd", "netbsd", "openbsd", "hidapi", "osx", "win"}
  /\ Waits \subseteq Nat \cup {-1}
  /\ {QueueLen, MaxReports, MaxHidFailures} \subseteq Nat
  /\ NoReport \notin Int

VARIABLES
  sys,       \* the system
  same,      \* input and output reports of the token have one length
  hidpc,     \* "closed", "ping" or "pong" (terrible_ping_kludge), "open", "read"
  ms,        \* the timeout of the read
  kernel,    \* reports the kernel has queued for the handle
  pipe,      \* hid_osx.c: report_pipe
  report,    \* hid_win.c: NoReport, Pending, or the report a pending read was given
  pings,     \* pings sent by this open
  synced,    \* the kernel's DATA0/DATA1 toggle agrees with the token's
  owed,      \* pings the token has yet to answer
  slow,      \* a ping was given up that the token had received
  pongs,     \* numbers of the reports that answer pings
  came, out, \* reports so far, and the one the last read returned
  hidFailures   \* counter for MaxHidFailures

reading == <<hidpc, ms, pipe, report, pings, out>>
token == <<owed, slow, pongs, synced>>
hidVars == <<sys, same, reading, kernel, token, came, hidFailures>>

Unix == {"linux", "freebsd", "netbsd", "openbsd"}
MaxPings == 4

\* A read that has begun and has no report yet.
Pending == 0

HidInit ==
  /\ sys \in Systems /\ same \in BOOLEAN
  /\ hidpc = "closed" /\ ms = 0 /\ kernel = <<>> /\ pipe = <<>> /\ report = NoReport
  /\ pings = 0 /\ synced = TRUE /\ owed = 0 /\ slow = FALSE /\ pongs = {}
  /\ came = 0 /\ out = NoReport /\ hidFailures = 0

Fails == hidFailures < MaxHidFailures /\ hidFailures' = hidFailures + 1

-----------------------------------------------------------------------------
(* Opening.  The kernels of NetBSD and OpenBSD may lose the toggle between *)
(* two opens, and the token then ignores a report.                         *)

OpensAs(state) ==
  /\ hidpc = "closed" /\ came < MaxReports
  /\ hidpc' = state
  /\ kernel' = <<>> /\ pipe' = <<>> /\ report' = NoReport /\ pings' = 0
  /\ owed' = 0 /\ slow' = FALSE /\ out' = NoReport
  /\ UNCHANGED <<sys, same, ms, pongs, came, hidFailures>>

LinuxOpen   == sys = "linux" /\ OpensAs("open") /\ synced' = TRUE
FreebsdOpen == sys = "freebsd" /\ OpensAs("open") /\ synced' = TRUE
NetbsdOpen  == sys = "netbsd" /\ OpensAs("ping") /\ synced' \in BOOLEAN
OpenbsdOpen == sys = "openbsd" /\ OpensAs("ping") /\ synced' \in BOOLEAN
HidapiOpen  == sys = "hidapi" /\ OpensAs("open") /\ synced' = TRUE
OsxOpen     == sys = "osx" /\ OpensAs("open") /\ synced' = TRUE
WinOpen     == sys = "win" /\ OpensAs("open") /\ synced' = TRUE

\* The device cannot be opened, has no usable report lengths, is in use, ...
OpenFails ==
  /\ hidpc = "closed" /\ Fails
  /\ UNCHANGED <<sys, same, reading, kernel, token, came>>

\* terrible_ping_kludge: write a ping ...
Ping ==
  /\ hidpc = "ping" /\ pings < MaxPings
  /\ pings' = pings + 1 /\ hidpc' = "pong"
  /\ synced' = TRUE
  /\ owed' = IF synced THEN owed + 1 ELSE owed
  /\ UNCHANGED <<sys, same, ms, kernel, pipe, report, slow, pongs, came, out, hidFailures>>

\* ... wait 100 milliseconds for a report ...
PongTimeout ==
  /\ hidpc = "pong" /\ kernel = <<>>
  /\ hidpc' = "ping"
  /\ slow' = (slow \/ owed > 0)
  /\ UNCHANGED <<sys, same, ms, kernel, pipe, report, pings, owed, synced, pongs, came, out, hidFailures>>

\* ... and read it into a buffer of the length of an output report.  hid_openbsd.c
\* takes all reports to be of one length.
\* Faulty variant: the report is left to be read.
PongRead_Left == kernel

PongRead == Tail(kernel)

SameLengths == same \/ sys = "openbsd"

Pong ==
  /\ hidpc = "pong" /\ kernel # <<>> /\ SameLengths
  /\ kernel' = PongRead
  /\ hidpc' = "open"
  /\ UNCHANGED <<sys, same, ms, pipe, report, pings, token, came, out, hidFailures>>

Shut ==
  /\ hidpc' = "closed" /\ kernel' = <<>> /\ pipe' = <<>> /\ report' = NoReport /\ out' = NoReport
  /\ owed' = 0
  /\ UNCHANGED <<sys, same, ms, pings, slow, pongs, synced, came>>

\* No answer to four pings, reports of two lengths, or a failure.
PingFails ==
  /\ \/ hidpc = "ping" /\ pings = MaxPings /\ UNCHANGED hidFailures
     \/ hidpc = "pong" /\ kernel # <<>> /\ ~SameLengths /\ UNCHANGED hidFailures
     \/ hidpc \in {"ping", "pong"} /\ Fails
  /\ Shut

-----------------------------------------------------------------------------
(* Reading.                                                                *)

\* A caller reads with a timeout.  On Windows the read of an earlier call may
\* still be pending, and is then not begun again.
Posted == IF sys = "win" /\ report = NoReport THEN Pending ELSE report

BeginRead(w) ==
  /\ hidpc = "open"
  /\ hidpc' = "read" /\ ms' = w /\ report' = Posted /\ out' = NoReport
  /\ UNCHANGED <<sys, same, kernel, pipe, pings, token, came, hidFailures>>

Returns(r) == hidpc' = "open" /\ out' = r /\ UNCHANGED <<sys, same, ms, pings, token, came>>

\* fido_hid_unix_wait finds the handle readable, and read takes a report.
UnixRead ==
  /\ hidpc = "read" /\ kernel # <<>>
  /\ Returns(Head(kernel)) /\ kernel' = Tail(kernel)
  /\ UNCHANGED <<pipe, report, hidFailures>>

LinuxRead   == sys = "linux" /\ UnixRead
FreebsdRead == sys = "freebsd" /\ UnixRead
NetbsdRead  == sys = "netbsd" /\ UnixRead
OpenbsdRead == sys = "openbsd" /\ UnixRead

\* hid_read_timeout has a queue of the same kind.
HidapiRead  == sys = "hidapi" /\ UnixRead

\* poll gives up: after the timeout, and never if it is negative.
\* Faulty variant: a timeout of zero is taken for none.
UnixWaits_NotZero == ms > 0

UnixWaits == ms >= 0

UnixTimeout ==
  /\ sys \in Unix \cup {"hidapi"} /\ hidpc = "read" /\ kernel = <<>> /\ UnixWaits
  /\ Returns(NoReport) /\ UNCHANGED <<kernel, pipe, report, hidFailures>>

\* A signal, an error, or fewer bytes than a report, which is lost with it.
UnixFails ==
  /\ sys \in Unix \cup {"hidapi"} /\ hidpc = "read" /\ Fails
  /\ Returns(NoReport)
  /\ kernel' \in {kernel} \cup (IF kernel = <<>> THEN {} ELSE {Tail(kernel)})
  /\ UNCHANGED <<pipe, report>>

\* hid_osx.c: a report from an earlier run of the loop comes first.
OsxPending ==
  /\ sys = "osx" /\ hidpc = "read" /\ pipe # <<>>
  /\ Returns(Head(pipe)) /\ pipe' = Tail(pipe)
  /\ UNCHANGED <<kernel, report, hidFailures>>

\* Otherwise the run loop lets report_callback write reports to the pipe, one or
\* more; or it ends with none, for want of reports or because of another source.
\* A timeout of -1 is one of five seconds.
OsxPipe(k) == SubSeq(kernel, 1, k)

OsxLoop(k) ==
  /\ sys = "osx" /\ hidpc = "read" /\ pipe = <<>> /\ k <= Len(kernel)
  /\ kernel' = SubSeq(kernel, k + 1, Len(kernel))
  /\ IF k = 0 THEN Returns(NoReport) /\ UNCHANGED pipe
     ELSE Returns(Head(OsxPipe(k))) /\ pipe' = Tail(OsxPipe(k))
  /\ UNCHANGED <<report, hidFailures>>

\* report_callback was given an error or a report of another length, or the pipe
\* would not take it.
OsxCallbackFails ==
  /\ sys = "osx" /\ hidpc = "read" /\ pipe = <<>> /\ kernel # <<>> /\ Fails
  /\ Returns(NoReport) /\ kernel' = Tail(kernel) /\ UNCHANGED <<pipe, report>>

\* hid_win.c: the kernel completes the read, during the call or after it ...
WinCompletes ==
  /\ sys = "win" /\ report = Pending /\ kernel # <<>>
  /\ report' = Head(kernel) /\ kernel' = Tail(kernel)
  /\ UNCHANGED <<sys, same, hidpc, ms, pipe, pings, token, came, out, hidFailures>>

\* ... and the call that finds it completed returns the report.
\* Faulty variant: report_pending is not reset.
WinTaken_Kept == report

WinTaken == NoReport

WinRead ==
  /\ sys = "win" /\ hidpc = "read" /\ report \notin {NoReport, Pending}
  /\ Returns(report) /\ report' = WinTaken
  /\ UNCHANGED <<kernel, pipe, hidFailures>>

\* The event was not set in time: 0 is returned, and the read stays pending.
WinTimeout ==
  /\ sys = "win" /\ hidpc = "read" /\ ms >= 0 /\ report = Pending
  /\ Returns(NoReport) /\ UNCHANGED <<kernel, pipe, report, hidFailures>>

\* ReadFile or GetOverlappedResult fails, or tells of another length.
WinFails ==
  /\ sys = "win" /\ hidpc = "read" /\ Fails
  /\ Returns(NoReport) /\ report' = NoReport
  /\ UNCHANGED <<kernel, pipe>>

CloseHid == hidpc = "open" /\ came < MaxReports /\ Shut /\ UNCHANGED hidFailures

-----------------------------------------------------------------------------
(* The token sends reports, some of them answers to pings.                 *)

\* The kernel queues a report for an open handle, and drops it if there is no room.
Queued == IF Len(kernel) < QueueLen THEN Append(kernel, came + 1) ELSE kernel

TokenSends ==
  /\ hidpc # "closed" /\ came < MaxReports
  /\ came' = came + 1 /\ kernel' = Queued
  /\ \/ owed > 0 /\ owed' = owed - 1 /\ pongs' = pongs \cup {came'}
     \/ hidpc \in {"open", "read"} /\ UNCHANGED <<owed, pongs>>
  /\ UNCHANGED <<sys, same, reading, slow, synced, hidFailures>>

OpenStep ==
  \/ LinuxOpen \/ FreebsdOpen \/ NetbsdOpen \/ OpenbsdOpen \/ HidapiOpen \/ OsxOpen \/ WinOpen
  \/ OpenFails \/ Ping \/ PongTimeout \/ Pong \/ PingFails

ReadStep ==
  \/ LinuxRead \/ FreebsdRead \/ NetbsdRead \/ OpenbsdRead \/ HidapiRead
  \/ UnixTimeout \/ UnixFails
  \/ OsxPending \/ (\E k \in 0 .. QueueLen : OsxLoop(k)) \/ OsxCallbackFails
  \/ WinRead \/ WinTimeout \/ WinFails

HidNext ==
  \/ OpenStep \/ (\E w \in Waits : BeginRead(w)) \/ ReadStep
  \/ WinCompletes \/ CloseHid \/ TokenSends

HidSpec == HidInit /\ [][HidNext]_hidVars

\* A wait with a timeout ends, and a caller whose report is there returns.
ReadFairness == WF_hidVars(ReadStep)

-----------------------------------------------------------------------------
HidTypeOK ==
  /\ sys \in Systems /\ same \in BOOLEAN
  /\ hidpc \in {"closed", "ping", "pong", "open", "read"}
  /\ ms \in Waits \cup {0}
  /\ kernel \in Seq(1 .. came) /\ Len(kernel) <= QueueLen
  /\ pipe \in Seq(1 .. came) /\ report \in {NoReport, Pending} \cup (1 .. came)
  /\ pings \in 0 .. MaxPings /\ owed \in 0 .. MaxPings
  /\ synced \in BOOLEAN /\ slow \in BOOLEAN
  /\ pongs \subseteq 1 .. came /\ came \in 0 .. MaxReports
  /\ out \in {NoReport} \cup (1 .. came) /\ hidFailures \in 0 .. MaxHidFailures

\* What has arrived and is still to be read, wherever it is kept: first what a
\* pending read was given (hid_win.c), then the pipe (hid_osx.c).
Unread == (IF report \notin {NoReport, Pending} THEN <<report>> ELSE <<>>) \o pipe \o kernel

\* Reports are read in the order in which they came, each at most once, and none
\* that came before the handle was opened, on every system: what hid_osx.c and
\* hid_win.c keep from one read to the next is neither repeated nor overtaken.
Reports == INSTANCE ReportQueue WITH queue <- Unread, None <- NoReport
QueueSpec == Reports!Spec

\* A read with a timeout returns, whatever the token does.
ReadReturns == (hidpc = "read" /\ ms >= 0) ~> hidpc # "read"

\* When fido_hid_open has returned a handle of a token that answers within 100
\* milliseconds, no answer to its pings is left to be taken for an answer to
\* CTAPHID_INIT.
OpenedClean ==
  hidpc \in {"open", "read"} /\ ~slow =>
    owed = 0 /\ \A i \in 1 .. Len(Unread) : Unread[i] \notin pongs
=============================================================================
