----------------------------- MODULE ChildProfiles -----------------------------
(***************************************************************************)
(* How the collectors that live on a child process, a thread or a timer    *)
(* differ from each other.  ChildCollector is what they have in common.    *)
(***************************************************************************)
EXTENDS Sequences

\* How start brings the child up: in start itself or in the reader's first step,
\* and the failures of create_subprocess_exec that are caught there.
InStart(caught) == [by |-> "start", caught |-> caught]
InTask(caught)  == [by |-> "task",  caught |-> caught]
NoChild         == [by |-> "nobody", caught |-> {}]
Failures == {"missing", "denied", "other"}

HciStart      == InStart({"missing"})
UdevStart     == InStart({"missing"})
JournalStart  == InStart({"missing"})
ManagedStart  == InStart(Failures)
MgmtStart     == InTask({"missing"})
KernelStart   == InTask({"missing", "denied"})
PipewireStart == InTask(Failures)
PulseStart    == InTask(Failures)
BpftraceStart == InStart(Failures)
BccStart      == InTask({})
UbertoothStart  == NoChild
BleSnifferStart == NoChild
EbpfMockStart   == NoChild

\* What the reader makes of the child's output.  eof: what it does at the end of
\* the output while the collector runs.  blocks: an event is several lines long,
\* and is complete when something else follows ("strict": only indented lines
\* belong to it).  fragile: there are lines on which the parser raises (a null
\* MESSAGE of journalctl, a null info of pw-dump, a field of bpftrace that is no
\* number).
Lines(eof, fragile) == [eof |-> eof, blocks |-> "no", fragile |-> fragile]

HciReads      == [eof |-> "report", blocks |-> "strict", fragile |-> FALSE]
UdevReads     == Lines("report", FALSE)
JournalReads  == Lines("retry", TRUE)
ManagedReads  == Lines("report", FALSE)
MgmtReads     == [eof |-> "report", blocks |-> "loose", fragile |-> FALSE]
KernelReads   == Lines("report", FALSE)
FtraceReads   == Lines("silent", FALSE)
PipewireReads == Lines("report", TRUE)
PulseReads    == Lines("report", FALSE)
BpftraceReads == Lines("report", TRUE)
BccReads      == Lines("never", FALSE)
UbertoothReads  == Lines("never", FALSE)
BleSnifferReads == Lines("never", FALSE)
EbpfMockReads   == Lines("never", FALSE)

\* The tasks, in the order stop cancels and awaits them.
HciStop      == <<"reader">>
UdevStop     == <<"reader">>
JournalStop  == <<"reader">>
MgmtStop     == <<"reader", "poller">>
KernelStop   == <<"reader", "ftrace", "poller">>
PipewireStop == <<"reader">>
EbpfStop     == <<"reader">>
EbpfMockStop   == <<"poller">>
UbertoothStop  == <<"poller">>
BleSnifferStop == <<"poller">>

Profile(start, reads, tasks) == [start |-> start, reads |-> reads, tasks |-> tasks]

Profiles ==
    [hci        |-> Profile(HciStart, HciReads, HciStop),
     udev       |-> Profile(UdevStart, UdevReads, UdevStop),
     journal    |-> Profile(JournalStart, JournalReads, JournalStop),
     managed    |-> Profile(ManagedStart, ManagedReads, JournalStop),
     mgmt       |-> Profile(MgmtStart, MgmtReads, MgmtStop),
     kernel     |-> Profile(KernelStart, KernelReads, KernelStop),
     pipewire   |-> Profile(PipewireStart, PipewireReads, PipewireStop),
     pulse      |-> Profile(PulseStart, PulseReads, PipewireStop),
     bpftrace   |-> Profile(BpftraceStart, BpftraceReads, EbpfStop),
     bcc        |-> Profile(BccStart, BccReads, EbpfStop),
     ubertooth  |-> Profile(UbertoothStart, UbertoothReads, UbertoothStop),
     blesniffer |-> Profile(BleSnifferStart, BleSnifferReads, BleSnifferStop),
     ebpfmock   |-> Profile(EbpfMockStart, EbpfMockReads, EbpfMockStop)]

AllKinds == DOMAIN Profiles
=============================================================================
