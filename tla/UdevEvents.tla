----------------------------- MODULE UdevEvents ------------------------------
(***************************************************************************)
(* USB over-current events (UdevMonitor of src/steamos-manager/src/        *)
(* udev.rs, a service of the user daemon). A task of its own reads the     *)
(* socket of udev and sends what it finds through a pipe to the service,   *)
(* which announces it with a signal of UdevEvents1. The socket reports     *)
(* once that something came (edge-triggered): the task has to read it      *)
(* empty, and forgets the report only if nothing has come since it took it.*)
(***************************************************************************)
EXTENDS Naturals, Sequences

CONSTANTS
    MaxUsbEvents,        (* how many events of USB interfaces there are    *)
    MaxUdevFaults        (* how many steps fail                            *)

ASSUME UdevAssumption == {MaxUsbEvents, MaxUdevFaults} \subseteq Nat

\* A change with a port and a count, one whose count is no number, and any
\* other event.
UsbKinds == {"over current", "bad count", "other"}

VARIABLES
    usbEvents,           (* the kind of every event that has happened      *)
    socket,              (* the events that have not been read: their      *)
                         (* places in usbEvents                            *)
    readable,            (* does AsyncFd take the socket for readable?     *)
    reports,             (* the events that came since run_udev was told   *)
    monitor,             (* where run_udev is                              *)
    shutdownSent,        (* the message of shutdown                        *)
    udevService,         (* where the service is                           *)
    evPipe,              (* what run_udev has sent and run not received    *)
    announced,           (* the UsbOverCurrent signals                     *)
    udevFaults

udevVars == <<usbEvents, socket, readable, reports, monitor, shutdownSent,
              udevService, evPipe, announced, udevFaults>>

Places == 1..MaxUsbEvents

\* The types of the socket, the task, the service and the signals.
UdevTypeOK ==
    /\ usbEvents \in Seq(UsbKinds) /\ Len(usbEvents) <= MaxUsbEvents
    /\ socket \in Seq(Places) /\ evPipe \in Seq(Places)
    /\ announced \in Seq(Places)
    /\ readable \in BOOLEAN /\ shutdownSent \in BOOLEAN
    /\ reports \in 0..MaxUsbEvents
    /\ monitor \in {"wait", "read", "clear", "ended"}
    /\ udevService \in {"run", "shutdown", "over"}
    /\ udevFaults \in 0..MaxUdevFaults

UdevInit ==
    /\ usbEvents = <<>>
    /\ socket = <<>>
    /\ readable = FALSE
    /\ reports = 0
    /\ monitor = "wait"
    /\ shutdownSent = FALSE
    /\ udevService = "run"
    /\ evPipe = <<>>
    /\ announced = <<>>
    /\ udevFaults = 0

-----------------------------------------------------------------------------
(* The kernel and udev.                                                    *)

UsbEvent(kind) ==
    /\ Len(usbEvents) < MaxUsbEvents
    /\ usbEvents' = Append(usbEvents, kind)
    /\ socket' = Append(socket, Len(usbEvents'))
    /\ readable' = TRUE
    /\ reports' = reports + 1
    /\ UNCHANGED <<monitor, shutdownSent, udevService, evPipe, announced, udevFaults>>

-----------------------------------------------------------------------------
(* run_udev.                                                               *)

UdevReady ==
    /\ monitor = "wait"
    /\ readable
    /\ monitor' = "read"
    /\ reports' = 0
    /\ UNCHANGED <<usbEvents, socket, readable, shutdownSent, udevService, evPipe,
                   announced, udevFaults>>

\* MUTANT of ReadUsbEvent: one event is read for each report.
ReadOneUsbEvent ==
    /\ monitor = "read"
    /\ socket # <<>>
    /\ socket' = Tail(socket)
    /\ LET kind == usbEvents[Head(socket)]
       IN  /\ evPipe' = IF kind = "over current" /\ udevService = "run"
                        THEN Append(evPipe, Head(socket)) ELSE evPipe
           /\ monitor' = IF kind = "bad count" THEN "ended" ELSE "clear"
    /\ UNCHANGED <<usbEvents, readable, reports, shutdownSent, udevService, announced,
                   udevFaults>>

\* process_usb_event: a count that cannot be parsed ends the task, and so does
\* a pipe that nobody reads any more.
ReadUsbEvent ==
    /\ monitor = "read"
    /\ socket # <<>>
    /\ socket' = Tail(socket)
    /\ LET kind == usbEvents[Head(socket)]
           open == udevService = "run"
       IN  /\ evPipe' = IF kind = "over current" /\ open
                        THEN Append(evPipe, Head(socket)) ELSE evPipe
           /\ monitor' = IF kind = "bad count" \/ (kind = "over current" /\ ~open)
                         THEN "ended" ELSE "read"
    /\ UNCHANGED <<usbEvents, readable, reports, shutdownSent, udevService, announced,
                   udevFaults>>

SocketIsEmpty ==
    /\ monitor = "read"
    /\ socket = <<>>
    /\ monitor' = "clear"
    /\ UNCHANGED <<usbEvents, socket, readable, reports, shutdownSent, udevService,
                   evPipe, announced, udevFaults>>

\* What came after the guard was taken is not cleared away.
ClearReady ==
    /\ monitor = "clear"
    /\ readable' = (reports > 0)
    /\ monitor' = "wait"
    /\ UNCHANGED <<usbEvents, socket, reports, shutdownSent, udevService, evPipe,
                   announced, udevFaults>>

\* The message of shutdown, or an error of the poller.
LeavePoll ==
    /\ monitor = "wait"
    /\ \/ shutdownSent /\ UNCHANGED udevFaults
       \/ udevFaults < MaxUdevFaults /\ udevFaults' = udevFaults + 1
    /\ monitor' = "ended"
    /\ UNCHANGED <<usbEvents, socket, readable, reports, shutdownSent, udevService,
                   evPipe, announced>>

-----------------------------------------------------------------------------
(* UdevMonitor::run, shutdown, and Service::start around them.             *)

\* run ends, for whatever reason, and what is in the pipe goes with it.
EndRun ==
    /\ udevService' = "shutdown"
    /\ evPipe' = <<>>

AnnounceOverCurrent ==
    /\ udevService = "run"
    /\ evPipe # <<>>
    /\ \/ /\ announced' = Append(announced, Head(evPipe))
          /\ evPipe' = Tail(evPipe)
          /\ UNCHANGED <<udevService, udevFaults>>
       \/ /\ udevFaults < MaxUdevFaults
          /\ udevFaults' = udevFaults + 1
          /\ EndRun
          /\ UNCHANGED announced
    /\ UNCHANGED <<usbEvents, socket, readable, reports, monitor, shutdownSent>>

\* The task has ended, or the daemon stops its services. Which of the branches
\* of the select is taken when there is something in the pipe is up to chance.
LeaveUdev ==
    /\ udevService = "run"
    /\ EndRun
    /\ UNCHANGED <<usbEvents, socket, readable, reports, monitor, shutdownSent, announced,
                   udevFaults>>

ShutdownUdev ==
    /\ udevService = "shutdown"
    /\ udevService' = "over"
    /\ shutdownSent' = (monitor # "ended")
    /\ UNCHANGED <<usbEvents, socket, readable, reports, monitor, evPipe, announced,
                   udevFaults>>

UdevNext ==
    \/ \E kind \in UsbKinds : UsbEvent(kind)
    \/ UdevReady \/ ReadUsbEvent \/ SocketIsEmpty \/ ClearReady \/ LeavePoll
    \/ AnnounceOverCurrent \/ LeaveUdev \/ ShutdownUdev

UdevSpec == UdevInit /\ [][UdevNext]_udevVars

-----------------------------------------------------------------------------
(* Properties.                                                             *)

IsOverCurrent(e) == usbEvents[e] = "over current"

\* What has been announced or is on its way, and how many events were read.
Told == announced \o evPipe
EventsRead == Len(usbEvents) - Len(socket)

\* While the monitor runs, every over-current it has read has been announced, in
\* the order they happened and once, or is on its way; the socket has every later
\* event, and nothing waits in a socket that is not taken for readable; when the
\* service is over, its task is not left behind (run_udev and UdevMonitor).
OverCurrentsAreTold ==
    /\ udevService = "run" /\ monitor # "ended" =>
          /\ \A j, k \in 1..Len(Told) : j < k => Told[j] < Told[k]
          /\ {Told[k] : k \in 1..Len(Told)} = {e \in 1..EventsRead : IsOverCurrent(e)}
          /\ \A k \in 1..Len(socket) : socket[k] = EventsRead + k
    /\ monitor = "wait" /\ ~readable => socket = <<>>
    /\ udevService = "over" /\ monitor = "wait" => shutdownSent
=============================================================================
