---------------------------- MODULE CallbackQueue ----------------------------
(***************************************************************************)
(* The ring of deferred ATA callbacks: filled by the SATA interrupts of    *)
(* ahci.c, served by the foreground loop of main.c, emptied by a reset     *)
(* that arrives through the USB interrupt.                                 *)
(*                                                                         *)
(* A handler runs to its end before anything of lower priority goes on, so *)
(* it is one step; only the receiver-error interrupt outranks the AHCI     *)
(* interrupt and may run inside a completion handler.  The foreground      *)
(* masks USB while a callback runs, but looks for it before and retires    *)
(* its slot after: found, unmasked and cleared are places where USB runs.  *)
(***************************************************************************)
EXTENDS Integers, FiniteSets, Sequences

CONSTANT Depth  \* ATA_CALLBACK_QUEUE_DEPTH

ASSUME QueueAssumption == Depth \in Nat /\ Depth >= 3

VARIABLES
  callback_pending, pAtaCallbackQueue,       \* ata_dev[0]
  callback_index, callback_processing_index,
  fg,          \* foreground: look, found, running, unmasked, cleared
  handling,    \* a completion: no, data (filled in), overtaken (by an error)
  ready,       \* bDeviceInitComplete
  busy,        \* the command slot is issued
  configured,  \* usb_dev.dev_state = CONFIGURED
  waiting,     \* the transport waits for the callback of its command
  heard,       \* history: what was queued for the command waited for
  missed,      \* history: a recovery took a callback that had run for it
  shifted      \* history: a reset has put the two indices apart

ring == <<callback_pending, pAtaCallbackQueue, callback_index>>
vars == <<ring, callback_processing_index, fg, handling, ready, busy,
          configured, waiting, heard, missed, shifted>>

Slots == 0 .. Depth - 1
Kinds == {"command", "error", "none"}    \* none: a pointer never set

NextIndex(i) == IF i + 1 >= Depth THEN 0 ELSE i + 1

CallbacksPending == \E i \in Slots : callback_pending[i]

-----------------------------------------------------------------------------
Init ==
  /\ callback_pending = [i \in Slots |-> FALSE]
  /\ pAtaCallbackQueue = [i \in Slots |-> "none"]
  /\ callback_index = 0 /\ callback_processing_index = 0
  /\ fg = "look"
  /\ handling = "no"
  /\ ready \in BOOLEAN /\ busy = FALSE
  /\ configured = FALSE
  /\ waiting = FALSE /\ heard = <<>> /\ missed = FALSE /\ shifted = FALSE

(* History, kept for as long as anything of the command can be queued.     *)
Hears(k) == heard' = IF waiting /\ Len(heard) < 3 THEN Append(heard, k)
                                                 ELSE heard

TransportForgets == waiting' = FALSE /\ heard' = <<>> /\ missed' = FALSE

(* ahci_ata_cbk_queue_add; a full ring is overwritten, with a message.     *)
QueueAdd(k) ==
  /\ pAtaCallbackQueue' = [pAtaCallbackQueue EXCEPT ![callback_index] = k]
  /\ callback_pending' = [callback_pending EXCEPT ![callback_index] = TRUE]
  /\ callback_index' = NextIndex(callback_index)
  /\ Hears(k)

ErrorEachTime(guard)  == guard        \* mutant: queued callbacks are ignored
OneErrorAtMost(guard) == guard /\ ~CallbacksPending

(* The slot of the callback that has run looks like one to be run.         *)
OnlyRetiring ==
  fg = "unmasked" /\ {i \in Slots : callback_pending[i]}
                       = {callback_processing_index}

(* The error callback of a recovery, unless a callback already owns the    *)
(* queue.                                                                  *)
NotifyError(guard) ==
  IF OneErrorAtMost(guard) THEN QueueAdd("error") /\ UNCHANGED missed
  ELSE /\ UNCHANGED <<ring, heard>>
       /\ missed' = (missed \/ (guard /\ waiting /\ OnlyRetiring))

KeepIndices == UNCHANGED <<callback_index, callback_processing_index>>
                                       \* mutant: flags only
RewindIndices == callback_index' = 0 /\ callback_processing_index' = 0

(* ahci_clear_callback_queue                                               *)
ClearFlags == callback_pending' = [i \in Slots |-> FALSE]
ClearQueue ==
  /\ ClearFlags
  /\ RewindIndices
  /\ UNCHANGED pAtaCallbackQueue

-----------------------------------------------------------------------------
(* main.c:233-260, the foreground, when no handler is running.             *)
Foreground(from, to) == fg = from /\ fg' = to /\ handling = "no"

TakeCallback ==
  /\ Foreground("look", "found")
  /\ callback_pending[callback_processing_index]
  /\ UNCHANGED <<ring, callback_processing_index, handling, ready, busy,
                 configured, waiting, heard, missed, shifted>>

MaskUsb ==
  /\ Foreground("found", "running")
  /\ UNCHANGED <<ring, callback_processing_index, handling, ready, busy,
                 configured, waiting, heard, missed, shifted>>

Served == pAtaCallbackQueue[callback_processing_index]

(* The transport completes its command, whichever callback it is.          *)
RunCallback ==
  /\ Foreground("running", "unmasked")
  /\ Served # "none"
  /\ TransportForgets
  /\ UNCHANGED <<ring, callback_processing_index, handling, ready, busy,
                 configured, shifted>>

(* A pointer that was never set leads to the reset vector: the program     *)
(* starts again.                                                           *)
RunNothing ==
  /\ Foreground("running", "look")
  /\ Served = "none"
  /\ ClearFlags /\ RewindIndices
  /\ pAtaCallbackQueue' = [i \in Slots |-> "none"]
  /\ ready' \in BOOLEAN /\ busy' = FALSE /\ configured' = FALSE
  /\ TransportForgets
  /\ handling' = "no" /\ shifted' = FALSE

LeavePending == UNCHANGED callback_pending   \* mutant: the flag stays
ClearPending ==
  callback_pending' =
    [callback_pending EXCEPT ![callback_processing_index] = FALSE]

RetireFlag ==
  /\ Foreground("unmasked", "cleared")
  /\ ClearPending
  /\ UNCHANGED <<pAtaCallbackQueue, callback_index, handling, ready, busy,
                 callback_processing_index, configured, waiting, heard, missed,
                 shifted>>

AdvanceIndex ==
  /\ Foreground("cleared", "look")
  /\ callback_processing_index' = NextIndex(callback_processing_index)
  /\ UNCHANGED <<ring, handling, ready, busy, configured, waiting, heard,
                 missed, shifted>>

ServeQueue ==
  \/ TakeCallback \/ MaskUsb \/ RunCallback \/ RunNothing
  \/ RetireFlag \/ AdvanceIndex

(* ahci_service: discovery after the queue has drained; the port is        *)
(* stopped first.                                                          *)
Rediscover ==
  /\ Foreground("look", "look")
  /\ ~ready /\ ~CallbacksPending
  /\ busy' = FALSE
  /\ ready' \in BOOLEAN
  /\ UNCHANGED <<ring, callback_processing_index, handling, configured,
                 waiting, heard, missed, shifted>>

-----------------------------------------------------------------------------
(* The SATA interrupts.                                                    *)
Sata ==
  UNCHANGED <<callback_processing_index, fg, configured, waiting, shifted>>

(* ahci_handle_d2h_reg_fis and its like: the data go into the slot that    *)
(* is next now, the callback is queued some time later.                    *)
BeginCompletion ==
  /\ Sata
  /\ ready /\ busy /\ handling = "no"
  /\ busy' = FALSE
  /\ handling' = "data"
  /\ UNCHANGED <<ring, ready, heard, missed>>

(* A receiver error may have queued its callback among the stores of this  *)
(* one.  The index is then read again, and the slot has the pointer it had *)
(* or this one; or the index was kept, and both share a slot.              *)
EndCompletion ==
  /\ Sata
  /\ handling # "no" /\ handling' = "no"
  /\ \/ QueueAdd("command")
     \/ /\ handling = "overtaken"
        /\ \/ QueueAdd(pAtaCallbackQueue[callback_index])
           \/ UNCHANGED <<ring, heard>>
  /\ UNCHANGED <<ready, busy, missed>>

(* ahci_fatal_error_recovery from ahci_isr                                 *)
FatalError ==
  /\ Sata
  /\ ready /\ busy /\ handling = "no"
  /\ busy' = FALSE
  /\ ready' \in BOOLEAN
  /\ NotifyError(configured)
  /\ UNCHANGED handling

(* ahci_handle_media_link_change; the slot stays issued.                   *)
LinkChange ==
  /\ Sata
  /\ ready /\ handling = "no"
  /\ ready' = FALSE
  /\ NotifyError(configured)
  /\ UNCHANGED <<busy, handling>>

(* ahci_rx_error_isr at its threshold.  What it queues inside a completion *)
(* may be overwritten by it.                                               *)
RxError ==
  /\ Sata
  /\ ready
  /\ ready' = FALSE /\ busy' = FALSE
  /\ \/ /\ NotifyError(TRUE)
        /\ handling' = IF handling = "data" /\ OneErrorAtMost(TRUE)
                       THEN "overtaken" ELSE handling
     \/ handling = "data" /\ UNCHANGED <<ring, heard, missed, handling>>

-----------------------------------------------------------------------------
(* The USB interrupt: masked while a callback runs.                        *)
Usb == handling = "no" /\ fg # "running" /\ UNCHANGED <<fg, handling>>

(* Bound: the host does not fill the ring between two foreground passes,   *)
(* which it could by a SET CONFIGURATION after each command it abandons.   *)
RoomLeft == Cardinality({i \in Slots : callback_pending[i]}) + 2 <= Depth

IssueCommand ==
  /\ Usb
  /\ configured /\ ready /\ ~waiting /\ ~busy
  /\ RoomLeft
  /\ busy' = TRUE
  /\ waiting' = TRUE /\ heard' = <<>> /\ missed' = FALSE
  /\ UNCHANGED <<ring, callback_processing_index, ready, configured, shifted>>

(* A command that is refused or polled to its time-out, by a SCSI handler  *)
(* or by the foreground, is recovered without a callback: its caller       *)
(* completes it.                                                           *)
RecoverLocalCommand ==
  /\ Usb
  /\ ready /\ ~busy
  /\ ready' = FALSE
  /\ UNCHANGED <<ring, callback_processing_index, busy, configured, waiting,
                 heard, missed, shifted>>

(* SET CONFIGURATION resets the transport, not the port or the queue; with *)
(* value zero it does not even reset the transport.                        *)
Configure ==
  /\ Usb
  /\ configured' = TRUE
  /\ TransportForgets
  /\ UNCHANGED <<ring, callback_processing_index, ready, busy, shifted>>

Deconfigure ==
  /\ Usb
  /\ configured' = FALSE
  /\ UNCHANGED <<ring, callback_processing_index, ready, busy, waiting,
                 heard, missed, shifted>>

(* ahci_reset_lun through ahci_power_mgmt_callback.  The device state has  *)
(* left CONFIGURED, so the recovery queues no error callback.  Wherever    *)
(* the foreground has a callback in hand, it will go on past slot 0.       *)
BusReset ==
  /\ Usb
  /\ configured' = FALSE
  /\ TransportForgets
  /\ IF ready
     THEN /\ ClearQueue /\ busy' = FALSE /\ ready' \in BOOLEAN
          /\ shifted' = (fg # "look")
     ELSE UNCHANGED <<ring, callback_processing_index, busy, ready, shifted>>

(* ahci_reset_lun through the Bulk-Only Mass Storage Reset request: the    *)
(* queue is cleared, then the recovery's error callback takes slot 0.  The *)
(* foreground runs that one, retires it unserved, or has passed it.        *)
MassStorageReset ==
  /\ Usb
  /\ configured
  /\ TransportForgets
  /\ IF ready
     THEN /\ callback_pending' = [i \in Slots |-> i = 0]
          /\ pAtaCallbackQueue' = [pAtaCallbackQueue EXCEPT ![0] = "error"]
          /\ callback_index' = 1 /\ callback_processing_index' = 0
          /\ busy' = FALSE /\ ready' \in BOOLEAN
          /\ shifted' = (fg = "cleared")
     ELSE UNCHANGED <<ring, callback_processing_index, busy, ready, shifted>>
  /\ UNCHANGED configured

Next ==
  \/ ServeQueue \/ Rediscover
  \/ BeginCompletion \/ EndCompletion \/ FatalError \/ LinkChange \/ RxError
  \/ IssueCommand \/ RecoverLocalCommand \/ Configure \/ Deconfigure
  \/ BusReset \/ MassStorageReset

(* The loop runs on between interrupts (strong fairness: a handler that is *)
(* running suspends it), a handler returns, a device answers its command.  *)
Spec ==
  /\ Init /\ [][Next]_vars
  /\ SF_vars(ServeQueue) /\ WF_vars(EndCompletion)
  /\ WF_vars(BeginCompletion \/ FatalError)

-----------------------------------------------------------------------------
TypeOK ==
  /\ callback_pending \in [Slots -> BOOLEAN]
  /\ pAtaCallbackQueue \in [Slots -> Kinds]
  /\ callback_index \in Slots /\ callback_processing_index \in Slots
  /\ fg \in {"look", "found", "running", "unmasked", "cleared"}
  /\ handling \in {"no", "data", "overtaken"}
  /\ ready \in BOOLEAN /\ busy \in BOOLEAN
  /\ configured \in BOOLEAN /\ waiting \in BOOLEAN
  /\ heard \in Seq(Kinds) /\ missed \in BOOLEAN
  /\ shifted \in BOOLEAN

(* The slots between a and b, going round; none when they are equal.       *)
Between(a, b) ==
  {i \in Slots : IF a <= b THEN a <= i /\ i < b ELSE a <= i \/ i < b}

(* First slot that is still to be served or is being served.               *)
FirstSlot == IF fg = "cleared" THEN NextIndex(callback_processing_index)
                          ELSE callback_processing_index

(* Producers and consumer agree on the ring: exactly the slots from the    *)
(* one to the other index are pending, unless a reset has put them apart   *)
(* in a place that the foreground leaves open.  Otherwise the foreground   *)
(* would look at an empty slot while callbacks wait in others              *)
(* (ahci.c:296-344, main.c:226-252).                                       *)
Aligned ==
  {i \in Slots : callback_pending[i]} = Between(FirstSlot, callback_index)
RingAligned == ~shifted => Aligned

(* Nothing is queued for a command behind its completion: a recovery lets  *)
(* the completion speak for it, and two callbacks come of one command only *)
(* if the recovery interrupted the completion (ahci.c:1957-1964,           *)
(* ahci.c:3411-3419).                                                      *)
CompletionIsLast ==
  ~shifted => /\ Len(heard) <= 2
              /\ \A i \in DOMAIN heard : heard[i] = "command" => i = Len(heard)

(* ahci.c:3414: "Notify the transport once."  The receiver error that      *)
(* interrupts a completion finds the queue empty and notifies it twice.    *)
NotifiedOnce == Len(heard) <= 1

(* Every command the configured transport waits for ends: completed,       *)
(* failed, or forgotten by a reset, however link changes, recoveries and   *)
(* resets fall (ums_bot.c:690-800, main.c:226-252).  The exceptions are    *)
(* the two that DroppedInWindow and PendingIsServed are about.             *)
EveryCommandEnds ==
  waiting /\ configured ~> ~waiting \/ ~configured \/ shifted \/ missed

(* The ring implements the queue it stands for.                            *)
HasRun == IF fg = "unmasked" THEN 1 ELSE 0
Unserved == Cardinality({i \in Slots : callback_pending[i]}) - HasRun
Fifo == [k \in 1 .. Unserved |->
           pAtaCallbackQueue[(FirstSlot + HasRun + k - 1) % Depth]]
Queue == INSTANCE CallbackFifo
           WITH fifo <- IF shifted THEN <<>> ELSE Fifo, lost <- shifted
ImplementsFifo == Queue!Spec

(* main.c:231: "Service exactly one queued ATA callback per foreground     *)
(* pass".  A reset that is taken when USB is unmasked rewinds both indices; *)
(* the foreground then increments its own, and looks past the slots that   *)
(* are filled next.                                                        *)
PendingIsServed ==
  \A i \in Slots : callback_pending[i] ~> ~callback_pending[i]

(* ahci.c:1957: "Queue ATA error callback to notify mass storage layer if  *)
(* USB is in configured state."  A recovery that finds only the slot that  *)
(* is about to be retired takes it for a callback that will speak for the  *)
(* command, and the command never ends.                                    *)
DroppedInWindow == waiting /\ configured ~> ~waiting \/ ~configured \/ shifted

=============================================================================
