----------------------------- MODULE Led_proofs -----------------------------
(***************************************************************************)
(* Proofs about the lamp, for a green blinking of any length.              *)
(*                                                                         *)
(* The argument.  Rest is about the moment the timer stops, so the         *)
(* invariant must say of every pattern what keeps the timer running: the   *)
(* steady ones are always under the periodic timer (SteadyIsRefreshed),    *)
(* the blinking ones arm it themselves (BlinkRuns; FastBlinkRuns for the   *)
(* one that interrupts request, which holds also while the thread is       *)
(* between its statements).  What is left is the end of a blink            *)
(* (EndedIsGreen).                                                         *)
(***************************************************************************)
EXTENDS Led, TLAPS

LEMMA InitIInv == Init => IInv
<1> SUFFICES ASSUME Init PROVE IInv
    OBVIOUS
<1>1. [green : {FALSE}, red : BOOLEAN] \subseteq [green : BOOLEAN, red : BOOLEAN]
    OBVIOUS
<1>2. TypeOK
    <2>1. pins \in [green : BOOLEAN, red : BOOLEAN]
        BY <1>1, Zenon DEF Init
    <2>2. shine_counts \in 0..(Shines - 1)
        BY LedAssumption DEF Init
    <2> QED
        BY <2>1, <2>2 DEF Init, TypeOK, LedState
<1>3. RequestStands /\ SteadyIsRefreshed /\ BlinkRuns /\ FastBlinkRuns /\ EndedIsGreen
    BY DEF Init, RequestStands, SteadyIsRefreshed, BlinkRuns, FastBlinkRuns, EndedIsGreen,
       FromThread
<1> QED
    BY <1>2, <1>3 DEF IInv

(* A request changes the pattern; the thread's starts the timer only two     *)
(* statements later.                                                         *)
LEMMA RequestKeeps ==
    ASSUME IInv,
           \/ \E state \in FromThread : SetState(state)
           \/ SetBlinkOff
           \/ StartTimer
           \/ \E state \in FromInterrupt : set_led_state(state)
    PROVE  IInv'
<1> USE DEF IInv, TypeOK, RequestStands, SteadyIsRefreshed, BlinkRuns, FastBlinkRuns,
            EndedIsGreen, LedState, FromThread, FromInterrupt
<1>1. CASE \E state \in FromThread : SetState(state)
    BY <1>1 DEF SetState
<1>2. CASE SetBlinkOff
    BY <1>2 DEF SetBlinkOff
<1>3. CASE StartTimer
    BY <1>3 DEF StartTimer
<1>4. CASE \E state \in FromInterrupt : set_led_state(state)
    BY <1>4 DEF set_led_state
<1> QED
    BY <1>1, <1>2, <1>3, <1>4

(* The callback, by pattern.                                                 *)
LEMMA CallbackKeeps ==
    ASSUME IInv, led_timer_cb
    PROVE  IInv'
<1> USE DEF IInv, TypeOK, RequestStands, SteadyIsRefreshed, BlinkRuns, FastBlinkRuns,
            EndedIsGreen, LedState, FromThread, FromInterrupt, led_timer_cb
<1>1. CASE Steady
    BY <1>1 DEF Steady, Rearmed
<1>2. CASE RedBlink
    BY <1>2 DEF RedBlink, Blink
<1>3. CASE GreenBlink
    BY <1>3, LedAssumption DEF GreenBlink, Blink
<1> QED
    BY <1>1, <1>2, <1>3

LEMMA Invariance == Spec => []IInv
<1>1. IInv /\ UNCHANGED vars => IInv'
    BY DEF vars, IInv, TypeOK, RequestStands, SteadyIsRefreshed, BlinkRuns, FastBlinkRuns,
       EndedIsGreen
<1>2. IInv /\ [Next]_vars => IInv'
    BY <1>1, RequestKeeps, CallbackKeeps DEF Next
<1> QED
    BY <1>2, InitIInv, PTL DEF Spec

(* Type correctness: in particular the counter stays below Shines.           *)
THEOREM TypeCorrect == Spec => []TypeOK
<1>1. IInv => TypeOK
    BY DEF IInv
<1> QED
    BY <1>1, Invariance, PTL

(* A request is undone by nobody but the end of the green blinking.          *)
THEOREM RequestNotUndone == Spec => []RequestStands
<1>1. IInv => RequestStands
    BY DEF IInv
<1> QED
    BY <1>1, Invariance, PTL

(* The timer rests only over a lamp that shows green, after a blink.         *)
THEOREM RestsOnGreen == Spec => []Rest
<1>1. IInv => Rest
    BY DEF IInv, Rest, TypeOK, LedState, FromThread, FromInterrupt, SteadyIsRefreshed,
       BlinkRuns, EndedIsGreen
<1> QED
    BY <1>1, Invariance, PTL
=============================================================================
