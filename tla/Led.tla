-------------------------------- MODULE Led --------------------------------
(***************************************************************************)
(* The two-colour lamp (dev_led.c).  A pattern is requested from the       *)
(* Bluetooth thread (the V3 handshake, a V2 handshake before the           *)
(* controller's) or from an interrupt (replies of the controller, the two  *)
(* timers); a timer callback drives the two pins and, for the blinking     *)
(* patterns, arms itself again.  The thread can be interrupted between the *)
(* three statements of set_led_state; interrupts are atomic.               *)
(*                                                                         *)
(* A k_timer is external: "once" or "periodic" while it runs; a periodic   *)
(* timer is armed again before its callback is called, which may override  *)
(* that.  How long the timer waits (50, 200, 500 ms) is left out: no       *)
(* property is about the rate.                                             *)
(***************************************************************************)
EXTENDS Naturals

CONSTANT Shines     \* the callbacks a GREEN_FAST_BLINK lasts: 30

ASSUME LedAssumption == Shines \in Nat \ {0}

VARIABLES
    led_state,
    led_blink_on,
    shine_counts,
    pins,           \* what each pin lights; red, never configured, starts either way
    led_timer,
    thread,         \* the Bluetooth thread in set_led_state: next statement
    asked           \* history: the pattern assigned last by set_led_state

vars == <<led_state, led_blink_on, shine_counts, pins, led_timer, thread, asked>>

FromThread    == {"GREEN_FAST_BLINK", "RED_SLOW_BLINK"}
FromInterrupt == {"GREEN_ON", "RED_ON", "RED_FAST_BLINK"}
LedState      == {"OFF"} \cup FromThread \cup FromInterrupt

TypeOK ==
    /\ led_state \in LedState
    /\ led_blink_on \in BOOLEAN
    /\ shine_counts \in 0..(Shines - 1)
    /\ pins \in [green : BOOLEAN, red : BOOLEAN]
    /\ led_timer \in {"stopped", "once", "periodic"}
    /\ thread \in {"idle", "blink", "start"}
    /\ asked \in LedState

(* user_led_init: green out, no timer; nothing is shown before the first     *)
(* request.                                                                  *)
Init ==
    /\ led_state = "OFF"
    /\ led_blink_on = FALSE
    /\ shine_counts = 0
    /\ pins \in [green : {FALSE}, red : BOOLEAN]
    /\ led_timer = "stopped"
    /\ thread = "idle"
    /\ asked = "OFF"

-----------------------------------------------------------------------------
(* set_led_state in the Bluetooth thread, statement by statement.            *)

SetState(state) ==
    /\ thread = "idle"
    /\ state \in FromThread
    /\ led_state' = state
    /\ asked' = state
    /\ thread' = "blink"
    /\ UNCHANGED <<led_blink_on, shine_counts, pins, led_timer>>

(* Mutant: every request starts the count of the green blinking again.       *)
SetBlinkOffRestarts ==
    /\ thread = "blink"
    /\ led_blink_on' = FALSE
    /\ shine_counts' = 0
    /\ thread' = "start"
    /\ UNCHANGED <<led_state, pins, led_timer, asked>>

SetBlinkOff ==
    /\ thread = "blink"
    /\ led_blink_on' = FALSE
    /\ thread' = "start"
    /\ UNCHANGED <<led_state, shine_counts, pins, led_timer, asked>>

StartTimer ==
    /\ thread = "start"
    /\ led_timer' = "periodic"
    /\ thread' = "idle"
    /\ UNCHANGED <<led_state, led_blink_on, shine_counts, pins, asked>>

(* Mutant: the timer is not started by a request from an interrupt.          *)
SetWithoutRefresh(state) ==
    /\ state \in FromInterrupt
    /\ led_state' = state
    /\ led_blink_on' = FALSE
    /\ asked' = state
    /\ UNCHANGED <<shine_counts, pins, led_timer, thread>>

(* set_led_state in an interrupt. *)
set_led_state(state) ==
    /\ state \in FromInterrupt
    /\ led_state' = state
    /\ led_blink_on' = FALSE
    /\ led_timer' = "periodic"
    /\ asked' = state
    /\ UNCHANGED <<shine_counts, pins, thread>>

-----------------------------------------------------------------------------
(* led_timer_cb, by pattern.                                                 *)

(* What the timer is when its callback returns without arming it.            *)
Rearmed == IF led_timer = "periodic" THEN "periodic" ELSE "stopped"

(* Mutant: the default branch is missing, a blink that has ended stays as it *)
(* was.                                                                      *)
SteadyWithoutDefault ==
    /\ led_state \in {"GREEN_ON", "RED_ON", "OFF"}
    /\ pins' = IF led_state = "OFF" THEN pins
               ELSE [green |-> led_state = "GREEN_ON", red |-> led_state = "RED_ON"]
    /\ led_timer' = Rearmed
    /\ UNCHANGED <<led_state, led_blink_on, shine_counts>>

(* GREEN_ON, RED_ON, and anything else, which shows as GREEN_ON.             *)
Steady ==
    /\ led_state \in {"GREEN_ON", "RED_ON", "OFF"}
    /\ pins' = [green |-> led_state # "RED_ON", red |-> led_state = "RED_ON"]
    /\ led_timer' = Rearmed
    /\ UNCHANGED <<led_state, led_blink_on, shine_counts>>

Blink ==
    /\ led_blink_on' = ~led_blink_on
    /\ led_timer' = "once"

(* Mutant: the phase of the blinking is not turned over.                     *)
RedStands ==
    /\ led_state \in {"RED_FAST_BLINK", "RED_SLOW_BLINK"}
    /\ pins' = [green |-> FALSE, red |-> led_blink_on]
    /\ led_timer' = "once"
    /\ UNCHANGED <<led_state, led_blink_on, shine_counts>>

(* Mutant: the red blinking is counted and ended like the green one.         *)
RedBlinkEnds ==
    /\ led_state \in {"RED_FAST_BLINK", "RED_SLOW_BLINK"}
    /\ pins' = [green |-> FALSE, red |-> led_blink_on]
    /\ Blink
    /\ IF shine_counts + 1 >= Shines
       THEN shine_counts' = 0 /\ led_state' = "OFF"
       ELSE shine_counts' = shine_counts + 1 /\ UNCHANGED led_state

RedBlink ==
    /\ led_state \in {"RED_FAST_BLINK", "RED_SLOW_BLINK"}
    /\ pins' = [green |-> FALSE, red |-> led_blink_on]
    /\ Blink
    /\ UNCHANGED <<led_state, shine_counts>>

(* Mutant: one shine too many before the counter starts again.               *)
GreenBlinkLonger ==
    /\ led_state = "GREEN_FAST_BLINK"
    /\ pins' = [pins EXCEPT !.green = led_blink_on]
    /\ Blink
    /\ IF shine_counts + 1 > Shines
       THEN shine_counts' = 0 /\ led_state' = "OFF"
       ELSE shine_counts' = shine_counts + 1 /\ UNCHANGED led_state

(* The red pin keeps what the pattern before has left on it; the counter     *)
(* keeps what a blink that was cut short has left in it.                     *)
GreenBlink ==
    /\ led_state = "GREEN_FAST_BLINK"
    /\ pins' = [pins EXCEPT !.green = led_blink_on]
    /\ Blink
    /\ IF shine_counts + 1 >= Shines
       THEN shine_counts' = 0 /\ led_state' = "OFF"
       ELSE shine_counts' = shine_counts + 1 /\ UNCHANGED led_state

led_timer_cb ==
    /\ led_timer # "stopped"
    /\ Steady \/ RedBlink \/ GreenBlink
    /\ UNCHANGED <<thread, asked>>

-----------------------------------------------------------------------------
Next ==
    \/ \E state \in FromThread : SetState(state)
    \/ SetBlinkOff
    \/ StartTimer
    \/ \E state \in FromInterrupt : set_led_state(state)
    \/ led_timer_cb

Spec == Init /\ [][Next]_vars

(* The thread finishes what it has begun, and a timer that runs expires.     *)
(* Nobody has to request anything.                                           *)
FairSpec ==
    /\ Spec
    /\ WF_vars(SetBlinkOff \/ StartTimer)
    /\ WF_vars(led_timer_cb)

-----------------------------------------------------------------------------
(* A pattern stands until another is requested; only the green blinking ends *)
(* by itself.  The callback writes led_state too, so a request that falls on *)
(* the last shine, or a warning that follows a handshake, might be undone by *)
(* it.                                                                       *)
RequestStands ==
    led_state = asked \/ (led_state = "OFF" /\ asked = "GREEN_FAST_BLINK")

(* The timer comes to rest only when a blink has ended and green alone is    *)
(* lit: no pattern is left half shown with nobody to refresh it, although    *)
(* the blinking patterns replace the periodic timer by one-shot ones and the *)
(* requests of two contexts fall between each other's statements.            *)
Rest ==
    (led_timer = "stopped" /\ asked # "OFF" /\ thread = "idle") =>
        led_state = "OFF" /\ pins = [green |-> TRUE, red |-> FALSE]

(* The parts that make the above inductive.                                  *)
SteadyIsRefreshed == led_state \in {"GREEN_ON", "RED_ON"} => led_timer = "periodic"

BlinkRuns ==
    (led_state \in FromThread \cup {"RED_FAST_BLINK"} /\ thread = "idle") =>
        led_timer # "stopped"

FastBlinkRuns == led_state = "RED_FAST_BLINK" => led_timer # "stopped"

EndedIsGreen ==
    (led_state = "OFF" /\ led_timer = "stopped" /\ asked # "OFF") =>
        pins = [green |-> TRUE, red |-> FALSE]

(* The inductive invariant.                                                  *)
IInv ==
    /\ TypeOK
    /\ RequestStands
    /\ SteadyIsRefreshed
    /\ BlinkRuns
    /\ FastBlinkRuns
    /\ EndedIsGreen

(* From some time on nobody requests a pattern.                              *)
Quiet == <>[][led_timer_cb]_vars

(* A steady pattern is shown in the end once requests cease, and a blink     *)
(* that has ended leaves green alone, whatever was lit before.               *)
SteadyShown ==
    Quiet =>
        \A state \in {"GREEN_ON", "RED_ON", "OFF"} :
            <>[](led_state = state /\ asked # "OFF") =>
                <>[](pins = [green |-> state # "RED_ON", red |-> state = "RED_ON"])

(* A red blinking goes on for ever once requests cease, and green stays out. *)
BlinkShown ==
    Quiet =>
        \A state \in {"RED_FAST_BLINK", "RED_SLOW_BLINK"} :
            <>[](led_state = state) =>
                []<>(pins.red) /\ []<>(~pins.red) /\ <>[](~pins.green)

(* The green blinking ends, also when handshakes keep coming.                *)
BlinkEnds == led_state = "GREEN_FAST_BLINK" ~> led_state # "GREEN_FAST_BLINK"
=============================================================================
