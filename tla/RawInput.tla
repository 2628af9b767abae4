------------------------------ MODULE RawInput ------------------------------
(***************************************************************************)
(* Raw input on the thread input of HardwareInput, fed by one HID          *)
(* collection that hidclass.sys exposes.                                   *)
(*                                                                         *)
(* The process that owns the attached threads registers for the device's   *)
(* usage with update_rawinput_devices.  hidclass's PDO handlers            *)
(* (pdo_pnp: IRP_MN_START_DEVICE, IRP_MN_SURPRISE_REMOVAL,                 *)
(* IRP_MN_REMOVE_DEVICE) run on the PnP thread and send                    *)
(* WM_INPUT_DEVICE_CHANGE through send_wm_input_device_change; the         *)
(* device's read thread, started and halted by those handlers, sends a     *)
(* WM_INPUT per report.  Both reach the server as                          *)
(* queue_custom_hardware_message -> queue_rawinput_message, which queues a *)
(* message on the list of HardwareInput.  get_rawinput_buffer takes        *)
(* WM_INPUT messages off that list for the calling thread.                 *)
(*                                                                         *)
(* A handler is split where the read thread can run between its steps:     *)
(* START starts the thread before it sends GIDC_ARRIVAL, REMOVE sends      *)
(* GIDC_REMOVAL before it halts and waits for the thread.                  *)
(***************************************************************************)
EXTENDS HardwareInput

CONSTANTS
  Regs,         \* registrations of the device's usage update_rawinput_devices may store
  NoReg,        \* no registration for the usage (find_rawinput_device returns NULL)
  MaxReports    \* bound on the reports the read thread sends

VARIABLES
  reg,          \* the process's rawinput_devices entry for the device's usage
  pdo,          \* the PDO: "added", "started", "surprise" (removed = TRUE), "deleted"
  pnp,          \* the PnP thread inside pdo_pnp: "idle", "start", "remove"
  reader,       \* the device read thread: "none", "running", "halted"
  nreports,     \* reports sent so far
  classGuid     \* ext->class_guid: "HID", or "WINEXINPUT" for an xinput device

rvars == <<vars, reg, pdo, pnp, reader, nreports, classGuid>>

RIDEV_INPUTSINK == "RIDEV_INPUTSINK"
RIDEV_DEVNOTIFY == "RIDEV_DEVNOTIFY"

\* the process of the foreground thread is this one: the threads of
\* Threads belong to one process, OtherInput to another
ForegroundIsOwn == focusWin # NoWin /\ WinThread(focusWin) \in Threads

\* queue_rawinput_message for the process of Threads: the device entry,
\* the DEVNOTIFY filter, the foreground check (no foreground thread: not
\* queued), INPUTSINK and the target window for a background process, then
\* queue_hardware_message with always_queue at the cursor position
queue_rawinput_message(S, code) ==
  LET m == [code |-> code, win |-> reg.win, x |-> S.cursor, delta |-> 0, uid |-> 0, evs |-> {}]
  IN IF reg = NoReg THEN S
     ELSE IF code = WM_INPUT_DEVICE_CHANGE /\ RIDEV_DEVNOTIFY \notin reg.flags THEN S
     ELSE IF focusWin = NoWin THEN S
     ELSE IF ~ForegroundIsOwn /\ \/ code = WM_INPUT /\ RIDEV_INPUTSINK \notin reg.flags
                                 \/ reg.win = NoWin
     THEN S
     ELSE queue_hardware_message(S, m, TRUE)

\* queue_custom_hardware_message with WM_INPUT or WM_INPUT_DEVICE_CHANGE:
\* enum_processes offers the message to every process, and this model
\* follows the one whose threads use this input
RawApply(code) ==
  /\ Apply(queue_rawinput_message(Hw, code))
  /\ UNCHANGED <<hitWin, focusWin, uidCounter, events>>

\* send_wm_input_device_change: only a device of the HID interface class
\* reports its arrival and removal
send_wm_input_device_change ==
  IF classGuid # "HID" THEN UNCHANGED <<list, cursor, cursorWin, clip, clipFlags, wakeBits,
                                        hitWin, focusWin, uidCounter, events>>
  ELSE RawApply(WM_INPUT_DEVICE_CHANGE)

\* DECL_HANDLER(update_rawinput_devices): an empty list clears the entries,
\* otherwise the list is stored and the mouse, keyboard and usage entries
\* are looked up again
UpdateRawinputDevices(r) ==
  /\ reg' = r
  /\ UNCHANGED <<vars, pdo, pnp, reader, nreports, classGuid>>

\* IRP_MN_START_DEVICE, first step: HID_StartDeviceThread
StartDevice ==
  /\ pnp = "idle" /\ pdo = "added"
  /\ reader' = "running"
  /\ pnp' = "start"
  /\ UNCHANGED <<vars, reg, pdo, nreports, classGuid>>

\* IRP_MN_START_DEVICE, the rest: GIDC_ARRIVAL, the interfaces (whose
\* registration may fail and end the handler early, with the same effect
\* on everything modelled here), removed = FALSE
StartDeviceArrival ==
  /\ pnp = "start"
  /\ send_wm_input_device_change
  /\ pdo' = "started"
  /\ pnp' = "idle"
  /\ UNCHANGED <<reg, reader, nreports, classGuid>>

\* IRP_MN_SURPRISE_REMOVAL: removed = TRUE, pending reads completed,
\* halt_event set; the thread is not waited for
SurpriseRemoval ==
  /\ pnp = "idle" /\ pdo = "started"
  /\ pdo' = "surprise"
  /\ reader' = IF reader = "running" THEN "halted" ELSE reader
  /\ UNCHANGED <<vars, reg, pnp, nreports, classGuid>>

\* IRP_MN_REMOVE_DEVICE, first step: GIDC_REMOVAL and the interfaces off
RemoveDevice ==
  /\ pnp = "idle" /\ pdo \in {"added", "started", "surprise"}
  /\ send_wm_input_device_change
  /\ pnp' = "remove"
  /\ UNCHANGED <<reg, pdo, reader, nreports, classGuid>>

\* IRP_MN_REMOVE_DEVICE, the rest: set halt_event and wait for the thread,
\* destroy the queues, IoDeleteDevice
RemoveDeviceHalt ==
  /\ pnp = "remove"
  /\ reader' = "none"
  /\ pdo' = "deleted"
  /\ pnp' = "idle"
  /\ UNCHANGED <<vars, reg, nreports, classGuid>>

\* the read thread turns a report into a WM_INPUT of RIM_TYPEHID
HidReport ==
  /\ reader = "running"
  /\ nreports < MaxReports
  /\ RawApply(WM_INPUT)
  /\ nreports' = nreports + 1
  /\ UNCHANGED <<reg, pdo, pnp, reader, classGuid>>

\* the loop of get_rawinput_buffer over the whole list of the input, from
\* index i, with room for n more WM_INPUT messages: every other message is
\* passed over; a WM_INPUT that does not fit ends the loop with ptr
\* already on the message after it; the indexes of the WM_INPUT messages
\* taken off the list and whether ptr ended NULL
RECURSIVE rawinput_scan(_, _, _)
rawinput_scan(L, i, n) ==
  IF i > Len(L) THEN [taken |-> {}, ptrNull |-> TRUE]
  ELSE IF L[i].code # WM_INPUT THEN rawinput_scan(L, i + 1, n)
  ELSE IF n = 0 THEN [taken |-> {}, ptrNull |-> i = Len(L)]
  ELSE LET r == rawinput_scan(L, i + 1, n - 1) IN [r EXCEPT !.taken = @ \cup {i}]

\* the list from index i on without the messages at the indexes in T
\* (list_remove and free_message of every message copied out)
RECURSIVE without_taken(_, _, _)
without_taken(L, T, i) ==
  IF i > Len(L) THEN <<>>
  ELSE (IF i \in T THEN <<>> ELSE <<L[i]>>) \o without_taken(L, T, i + 1)

\* DECL_HANDLER(get_rawinput_buffer) for thread t: fit is how many WM_INPUT
\* messages req->buffer_size (and the reply size) hold, clear is
\* req->clear_qs_rawinput; QS_RAWINPUT is cleared on t's queue when the
\* loop ran off the end of the list
GetRawInputBuffer(t, fit, clear) ==
  LET r == rawinput_scan(list, 1, fit)
  IN /\ list' = without_taken(list, r.taken, 1)
     /\ wakeBits' = IF clear /\ r.ptrNull THEN [wakeBits EXCEPT ![t] = @ \ {QS_RAWINPUT}]
                   ELSE wakeBits
     /\ UNCHANGED <<cursor, cursorWin, clip, clipFlags, hitWin, focusWin, uidCounter, events,
                    reg, pdo, pnp, reader, nreports, classGuid>>

RInit ==
  /\ Init
  /\ reg = NoReg
  /\ pdo = "added" /\ pnp = "idle" /\ reader = "none"
  /\ nreports = 0
  \* driver_add_device picks the class, create_child_pdos copies it
  /\ classGuid \in {"HID", "WINEXINPUT"}

\* everything of HardwareInput, the registration, the PnP thread, the read
\* thread and get_rawinput_buffer
RNext ==
  \/ Next /\ UNCHANGED <<reg, pdo, pnp, reader, nreports, classGuid>>
  \/ \E r \in Regs \cup {NoReg} : UpdateRawinputDevices(r)
  \/ StartDevice \/ StartDeviceArrival \/ SurpriseRemoval
  \/ RemoveDevice \/ RemoveDeviceHalt \/ HidReport
  \/ \E t \in Threads, fit \in 0..MaxReports, clear \in BOOLEAN : GetRawInputBuffer(t, fit, clear)

RSpec == RInit /\ [][RNext]_rvars

RTypeOK ==
  /\ TypeOK
  /\ reg \in Regs \cup {NoReg}
  /\ pdo \in {"added", "started", "surprise", "deleted"}
  /\ pnp \in {"idle", "start", "remove"}
  /\ reader \in {"none", "running", "halted"}
  /\ nreports \in 0..MaxReports
  /\ classGuid \in {"HID", "WINEXINPUT"}
================================================================================
