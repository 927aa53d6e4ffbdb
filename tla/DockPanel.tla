------------------------------ MODULE DockPanel ------------------------------
(***************************************************************************)
(* The menu behind the eject button (rdx_button_mode.c), the LED           *)
(* controller of the dock that shows it (rdx_led.c), and the USB detach    *)
(* and attach that a selection ends in.                                    *)
(*                                                                         *)
(* The foreground serves the button and stores into the LED controller,    *)
(* whose fields are not volatile: the stores of a call come in any order.  *)
(* The periodic timer (rti.c), which advances the controller, and SEND     *)
(* DIAGNOSTIC, which changes its mode from the USB interrupt, run at any   *)
(* time; the timer, whose period is far longer than a call, once between   *)
(* two stores of a call.  A deadline of the foreground is reached at any   *)
(* time after it was set, and acted on when it is first found so: a        *)
(* service finds some of those that it looks at over.                      *)
(***************************************************************************)
EXTENDS Integers

CONSTANTS
  Last,         \* the last entry of the menu; 6 in the code
  NormalTicks,  \* RDX_LED_NORMAL_SERVICE_TICKS
  FastPhases    \* RDX_LED_FAST_BLINK_PHASES

ASSUME PanelAssumption ==
  /\ Last \in Nat \ {0, 1} /\ NormalTicks \in Nat \ {0}
  /\ FastPhases \in Nat \ {0}

VARIABLES
  running,    \* main has come to its loop
  cartridge,  \* cartridge_stable
  pressed,    \* button_stable
  b,          \* rdx_button_mode, and whether USB is attached
  led,        \* rdx_led_controllers[RDX_LED_DOCK] and the shared cadence
  confirmed,  \* history: the entry on display at the second press, if any
  shown       \* history: pulses of the display, and if all went as it should

vars == <<running, cartridge, pressed, b, led, confirmed, shown>>

None == Last + 1
Entries == 0 .. Last

-----------------------------------------------------------------------------
(* The LED controller, once per period or once per NormalTicks.            *)

rdx_led_initialize_controller ==
  [mode |-> "normal", out |-> "first", lit |-> FALSE, blink |-> 0,
   gesture |-> "none", count |-> 0, requested |-> FALSE, fast |-> FALSE,
   waiting |-> FALSE, ready |-> FALSE, cadence |-> 0]

rdx_led_begin_gesture_confirmation(l) ==
  [l EXCEPT !.requested = FALSE, !.gesture = "none", !.blink = FastPhases,
            !.mode = "fast", !.fast = TRUE, !.waiting = FALSE, !.ready = FALSE]

FirstSetUp(l) ==
  [l EXCEPT !.out = "first", !.lit = FALSE, !.blink = (l.count + 1) * 2,
            !.gesture = "first_blink"]

rdx_led_advance_gesture(l) ==
  CASE l.gesture = "second_off" ->
         [l EXCEPT !.out = "second", !.lit = FALSE, !.gesture = "second_on"]
    [] l.gesture = "second_on" ->
         [l EXCEPT !.out = "second", !.lit = TRUE, !.gesture = "off_after"]
    [] l.gesture = "off_after" ->
         [l EXCEPT !.out = "second", !.lit = FALSE, !.gesture = "first_setup"]
    [] l.gesture = "first_setup" -> FirstSetUp(l)
    [] l.gesture = "first_blink" /\ l.blink > 0 ->
         [l EXCEPT !.blink = @ - 1, !.lit = ~@, !.out = "first"]
    [] OTHER ->
         [l EXCEPT !.out = "second", !.lit = FALSE, !.gesture = "second_on"]

(* Steady: the dock's light is on when nothing else is shown.              *)
rdx_led_advance_normal(l) ==
  IF l.blink > 0 THEN [l EXCEPT !.blink = @ - 1, !.lit = ~@, !.out = "first"]
  ELSE [l EXCEPT !.lit = TRUE, !.out = "first"]

rdx_led_advance_diagnostic(l) ==
  CASE l.out = "first"          -> [l EXCEPT !.out = "second_pending", !.lit = FALSE]
    [] l.out = "second_pending" -> [l EXCEPT !.out = "second", !.lit = TRUE]
    [] l.out = "second"         -> [l EXCEPT !.out = "first_pending", !.lit = FALSE]
    [] OTHER                    -> [l EXCEPT !.out = "first", !.lit = TRUE]

FastService(l) ==
  IF l.blink > 0 THEN [l EXCEPT !.blink = @ - 1, !.lit = ~@]
  ELSE [l EXCEPT !.mode = "normal", !.fast = FALSE, !.waiting = @ \/ l.fast]

ShowNormally(l) ==
  CASE l.mode = "diagnostic"                        -> rdx_led_advance_diagnostic(l)
    [] l.mode = "normal" /\ l.gesture # "none"      -> rdx_led_advance_gesture(l)
    [] OTHER                                        -> rdx_led_advance_normal(l)

rdx_led_service_controller(l) ==
  CASE l.requested /\ l.mode # "diagnostic" -> rdx_led_begin_gesture_confirmation(l)
    [] ~l.requested /\ l.mode = "fast"      -> FastService(l)
    [] OTHER -> ShowNormally([l EXCEPT !.waiting = FALSE, !.ready = @ \/ l.waiting])

Serves(l) == l.mode = "fast" \/ l.cadence + 1 >= NormalTicks

rdx_led_tick(l) ==
  IF Serves(l) THEN rdx_led_service_controller([l EXCEPT !.cadence = 0])
  ELSE [l EXCEPT !.cadence = @ + 1]

(* The output that is driven.                                              *)
rdx_led_apply_output(l) ==
  CASE ~l.lit           -> "off"
    [] l.out = "first"  -> "amber"
    [] OTHER            -> "green"

-----------------------------------------------------------------------------
(* The stores of the calls into rdx_led.c.                                 *)

(* What a call stores, by field.  stop: the mode and the phases, if the     *)
(* fast blink is found under way; take: the caller reads ready.            *)
rdx_led_show_gesture_selection(selection) ==
  [count |-> selection, gesture |-> "second_off", requested |-> FALSE,
   waiting |-> FALSE, ready |-> FALSE]

rdx_led_confirm_gesture == [requested |-> TRUE, ready |-> FALSE]

rdx_led_cancel_gesture ==
  [gesture |-> "none", requested |-> FALSE, stop |-> TRUE, fast |-> FALSE,
   waiting |-> FALSE, ready |-> FALSE]

rdx_led_take_gesture_confirmation == [take |-> TRUE, ready |-> FALSE]

NoStores == <<>>

(* The parts of a call that may be over when an interrupt comes: a field   *)
(* is read before the same call stores into it.                            *)
Begun(stores) ==
  {S \in SUBSET DOMAIN stores :
     /\ "fast" \in S => "stop" \in S
     /\ ("take" \in DOMAIN stores /\ "ready" \in S) => "take" \in S}

Stored(l, stores, S) ==
  LET m == IF "stop" \in S /\ l.fast THEN [l EXCEPT !.mode = "normal", !.blink = 0] ELSE l
  IN  [f \in DOMAIN m |-> IF f \in S THEN stores[f] ELSE m[f]]

-----------------------------------------------------------------------------
(* The button, and the reconnect after it in the same service.  The 1 ms   *)
(* before a step of the reconnect are over when the step is.  The interval *)
(* after an attach is not modelled: nobody looks at it.                    *)

rdx_button_mode_init ==
  [gesture |-> "idle", reconnect |-> "idle", selection |-> 0,
   attached |-> TRUE]

Served(d, stores) == [d |-> d, stores |-> stores]

rdx_button_mode_cancel(held) ==
  Served([b EXCEPT !.gesture = IF held THEN "wait_release" ELSE "idle"],
         rdx_led_cancel_gesture)

rdx_button_mode_show_selection(selection, state) ==
  Served([b EXCEPT !.selection = selection, !.gesture = state],
         rdx_led_show_gesture_selection(selection))

Moved(state) == Served([b EXCEPT !.gesture = state], NoStores)
Unmoved == Served(b, NoStores)

Resting == b.gesture \in {"idle", "wait_release"}

(* A plausible bug: what has been confirmed is not cancelled any more.     *)
CancelledUnlessConfirmed(over) ==
  b.gesture \notin {"idle", "wait_release", "confirming"} /\ (cartridge \/ "session" \in over)

Cancelled(over) == ~Resting /\ (cartridge \/ "session" \in over)

FromRest ==
  CASE cartridge                           -> Unmoved
    [] ~cartridge /\ b.gesture = "idle"    ->
         IF pressed THEN Moved("entry_hold")
         ELSE Unmoved
    [] OTHER -> IF pressed THEN Unmoved ELSE Moved("idle")

rdx_button_mode_service_gesture(over) ==
  CASE Cancelled(over) -> rdx_button_mode_cancel(pressed)
    [] Resting   -> FromRest
    [] b.gesture = "entry_hold" /\ ~Cancelled(over) ->
         CASE ~pressed               -> rdx_button_mode_cancel(FALSE)
           [] pressed /\ "hold" \in over  -> rdx_button_mode_show_selection(0, "entry_release")
           [] OTHER                  -> Unmoved
    [] b.gesture = "entry_release" /\ ~Cancelled(over) ->
         IF pressed THEN Unmoved ELSE Moved("ready")
    [] b.gesture = "ready" /\ ~Cancelled(over) ->
         IF pressed THEN Moved("first_press") ELSE Unmoved
    [] b.gesture = "first_press" /\ ~Cancelled(over) ->
         CASE ~pressed               -> Moved("click_window")
           [] pressed /\ "hold" \in over  -> rdx_button_mode_cancel(TRUE)
           [] OTHER                  -> Unmoved
    [] b.gesture = "click_window" /\ ~Cancelled(over) ->
         CASE pressed /\ "click" \notin over ->
                Served([b EXCEPT !.gesture = "confirming"], rdx_led_confirm_gesture)
           [] "click" \in over ->
                rdx_button_mode_show_selection(
                  IF b.selection < Last THEN b.selection + 1 ELSE 0, "ready")
           [] OTHER -> Unmoved
    [] OTHER -> Served(b, rdx_led_take_gesture_confirmation)

(* A plausible bug: the attach waits for an empty bay like the detach.     *)
AttachIsDueIfEmpty(over) == "detach" \in over /\ ~cartridge

AttachIsDue(over) == "detach" \in over

rdx_button_mode_service_reconnect(d, over) ==
  CASE d.reconnect \in {"recheck", "disconnect"} /\ cartridge ->
         [d EXCEPT !.reconnect = "wait_absent"]
    [] d.reconnect = "wait_absent" /\ ~cartridge -> [d EXCEPT !.reconnect = "recheck"]
    [] d.reconnect = "recheck" /\ ~cartridge     -> [d EXCEPT !.reconnect = "disconnect"]
    [] d.reconnect = "disconnect" /\ ~cartridge  ->
         [d EXCEPT !.attached = FALSE, !.reconnect = "connect"]
    [] d.reconnect = "connect" /\ AttachIsDue(over) ->
         [d EXCEPT !.attached = TRUE, !.reconnect = "idle"]
    [] OTHER -> d

(* The entries that change the operation mode reconnect; the last resets.  *)
rdx_button_mode_dispatch_selection(d) ==
  IF d.selection <= 1
  THEN [d EXCEPT !.reconnect = IF cartridge THEN "wait_absent" ELSE "disconnect"]
  ELSE d

-----------------------------------------------------------------------------
(* Starts: LEDs, inputs and the button afresh, then USB is attached.  The  *)
(* cartridge has to be debounced again, the button is as it is.            *)

main ==
  /\ ~running /\ running' = TRUE
  /\ led' = rdx_led_initialize_controller
  /\ b' = rdx_button_mode_init
  /\ cartridge' = FALSE /\ pressed' \in BOOLEAN
  /\ UNCHANGED <<confirmed, shown>>

Restart(right) ==
  /\ running' = FALSE /\ b' = [rdx_button_mode_init EXCEPT !.attached = FALSE]
  /\ led' = rdx_led_initialize_controller
  /\ confirmed' = None
  /\ shown' = [whole |-> FALSE, pulses |-> 0, right |-> shown.right /\ right]
  /\ UNCHANGED <<cartridge, pressed>>

(* The reset that follows a firmware update, in the timer's interrupt.     *)
rdx_manager_protocol_tick == running /\ Restart(TRUE)

(* The unit reset and the LED page.                                        *)
rdx_manager_handle_send_diagnostic ==
  /\ running /\ b.attached
  /\ \/ Restart(TRUE)
     \/ /\ \E m \in {"diagnostic", "normal"} : led' = [led EXCEPT !.mode = m]
        /\ shown' = [shown EXCEPT !.whole = FALSE]
        /\ UNCHANGED <<running, cartridge, pressed, b, confirmed>>

(* A cycle of the display is whole if it began after the call that asked   *)
(* for it had returned, and in normal mode.                                *)
Watched(l, m, inside) ==
  CASE m.gesture = "second_on" /\ l.gesture = "first_blink" ->
         [shown EXCEPT !.whole = ~inside, !.pulses = 0,
                       !.right = @ /\ (shown.whole /\ ~inside => shown.pulses = b.selection + 1)]
    [] m.gesture = "second_on" /\ l.gesture = "second_off" ->
         [shown EXCEPT !.whole = ~inside, !.pulses = 0]
    [] m.gesture = "first_blink" /\ rdx_led_apply_output(m) = "amber"
                                 /\ rdx_led_apply_output(l) = "off" ->
         [shown EXCEPT !.pulses = IF @ > Last THEN @ ELSE @ + 1]
    [] m.gesture = "none" -> [shown EXCEPT !.whole = FALSE, !.pulses = 0]
    [] OTHER -> shown

rti_compare2_isr ==
  /\ running
  /\ led' = rdx_led_tick(led)
  /\ shown' = Watched(led, led', FALSE)
  /\ UNCHANGED <<running, cartridge, pressed, b, confirmed>>

(* The deadlines that a service looks at.                                  *)
Awaited ==
  (CASE b.gesture \in {"entry_hold", "first_press"} -> {"hold", "session"}
     [] b.gesture = "click_window"                  -> {"click", "session"}
     [] OTHER                                       -> IF Resting THEN {} ELSE {"session"})
  \cup (IF b.reconnect = "connect" THEN {"detach"} ELSE {})

(* Those that it may find over: the second without USB is shorter than the *)
(* five of a hold, which begins after it.                                  *)
Over == {o \in SUBSET Awaited : "hold" \in o => Awaited \cap {"detach"} \subseteq o}

(* The inputs are debounced first in a pass of the loop, then served.       *)
Inputs ==
  /\ running
  /\ cartridge' \in BOOLEAN /\ pressed' \in BOOLEAN
  /\ <<cartridge, pressed>>' # <<cartridge, pressed>>
  /\ UNCHANGED <<running, b, led, confirmed, shown>>

(* The controller when the timer comes, after it, and at the end of the    *)
(* call, and what ready was read as.  SEND DIAGNOSTIC has one store and    *)
(* need not come inside the call.                                          *)
Call(stores, S, early, late) ==
  [early |-> early, late |-> late, end |-> Stored(late, stores, DOMAIN stores \ S),
   taken |-> "take" \in DOMAIN stores /\ (IF "take" \in S THEN led ELSE late).ready]

Uninterrupted(stores) == {Call(stores, {}, led, led)}

ByTheTimer(stores) ==
  {LET early == Stored(led, stores, S) IN Call(stores, S, early, rdx_led_tick(early))
   : S \in IF DOMAIN stores = {} THEN {} ELSE Begun(stores)}

WithoutConfirmation(g, c, over) ==
  /\ b' = rdx_button_mode_service_reconnect(g.d, over)
  /\ led' = c.end
  /\ confirmed' = CASE cartridge                           -> None
                    [] g.stores = rdx_led_confirm_gesture  -> c.end.count
                    [] g.stores = rdx_led_cancel_gesture   -> None
                    [] OTHER                               -> confirmed
  /\ shown' = IF "gesture" \in DOMAIN g.stores
              THEN [Watched(c.early, c.late, TRUE) EXCEPT !.whole = FALSE]
              ELSE Watched(c.early, c.late, TRUE)
  /\ UNCHANGED <<running, cartridge, pressed>>

(* The confirmation has been taken.                                        *)
Dispatched(c, over) ==
  LET right == confirmed = b.selection /\ ~cartridge
      d == [b EXCEPT !.gesture = IF pressed THEN "wait_release" ELSE "idle"]
  IN  IF b.selection = Last THEN Restart(right)
      ELSE /\ b' = rdx_button_mode_service_reconnect(rdx_button_mode_dispatch_selection(d), over)
           /\ led' = c.end
           /\ confirmed' = None
           /\ shown' = [shown EXCEPT !.right = @ /\ right]
           /\ UNCHANGED <<running, cartridge, pressed>>

rdx_button_mode_service(over, timer) ==
  /\ running
  /\ LET g == rdx_button_mode_service_gesture(over) IN
       \E c \in IF timer THEN ByTheTimer(g.stores) ELSE Uninterrupted(g.stores) :
         \/ ~c.taken /\ WithoutConfirmation(g, c, over)
         \/ c.taken /\ Dispatched(c, over)

-----------------------------------------------------------------------------
Init ==
  /\ running = TRUE /\ cartridge = FALSE /\ pressed \in BOOLEAN
  /\ b = rdx_button_mode_init /\ led = rdx_led_initialize_controller
  /\ confirmed = None /\ shown = [whole |-> FALSE, pulses |-> 0, right |-> TRUE]

Next ==
  \/ main \/ rdx_manager_protocol_tick \/ rdx_manager_handle_send_diagnostic
  \/ rti_compare2_isr \/ Inputs
  \/ \E over \in Over, timer \in BOOLEAN : rdx_button_mode_service(over, timer)

(* The loop of main goes on, again and again without a timer interrupt     *)
(* inside a call, and so does time; the user and the host need not.        *)
Spec ==
  /\ Init /\ [][Next]_vars
  /\ WF_vars(main)
  /\ WF_vars(/\ b.reconnect = "connect"
             /\ \E over \in Over :
                  "detach" \in over /\ rdx_button_mode_service(over, FALSE))

-----------------------------------------------------------------------------
TypeOK ==
  /\ running \in BOOLEAN /\ cartridge \in BOOLEAN /\ pressed \in BOOLEAN
  /\ b.selection \in Entries /\ led.count \in Entries /\ confirmed \in 0 .. None
  /\ led.blink >= 0

(* Whatever the timer, the host's diagnostics and the order of the stores  *)
(* do in between: an entry of the menu runs only if it is the one that was *)
(* on display at the second press, once for each such press, and with the  *)
(* bay empty ever since; and every whole cycle of the display shows the    *)
(* entry by the number of its pulses (rdx_button_mode.c:320-350,           *)
(* rdx_led.c:189-396).                                                     *)
RunsWhatIsConfirmed == shown.right

(* A dock that has detached itself from USB to change its operation mode   *)
(* attaches again, with or without a cartridge put in meanwhile            *)
(* (rdx_button_mode.c:193-214).                                            *)
Reattached == ~b.attached ~> b.attached
=============================================================================
