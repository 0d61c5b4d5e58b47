--------------------------- MODULE V2Relay_proofs ---------------------------
(***************************************************************************)
(* Proofs about the vehicle commands.                                      *)
(*                                                                         *)
(* Types: TypeOK is inductive but for the wire, where what the thread sends *)
(* is a command only because it has one in hand from the check on (InHand). *)
(*                                                                         *)
(* Attribution: replies do not name what they answer.  A handshake is sent *)
(* only before the thread sends commands (AfterHandshake), and the thread  *)
(* sends the command it has recorded (InThread).  So if nothing was under  *)
(* way when a command was recorded, the UART carries from then on at most  *)
(* this command or its answer, and the answer is honest (OneItem): a reply *)
(* that ends the wait either tells the application or was a refusal, and a *)
(* timeout always tells it (Held).  Losses, late answers, refusals and     *)
(* timeouts between any two statements are all in the step relation; a     *)
(* command recorded with something under way is outside what is claimed.   *)
(***************************************************************************)
EXTENDS V2Relay, TLAPS

InHand == thread.pc # "idle" => thread.cmd \in AppCmd

IInv == TypeOK /\ InHand

LEMMA InitIInv == Init => IInv
<1> SUFFICES ASSUME Init PROVE IInv
    OBVIOUS
<1>1. retry \in 0..MaxRetry
    BY V2RelayAssumption DEF Init
<1>2. tx \in Seq(Cmd) /\ rx \in Seq(Code)
    BY DEF Init
<1>3. cmd_wait \in [Cmd -> [waiting : BOOLEAN, expired : BOOLEAN]]
    BY DEF Init
<1>4. told \in Told
    BY DEF Init, Told
<1>5. InHand
    BY DEF Init, InHand
<1> QED
    BY <1>1, <1>2, <1>3, <1>4, <1>5 DEF Init, IInv, TypeOK, Led

(* What is bounded is counted.                                               *)
LEMMA SpentTypes ==
    ASSUME TypeOK
    PROVE  /\ [spent EXCEPT !.commands = @ + 1] \in [commands : Nat, loss : Nat, late : Nat]
           /\ [spent EXCEPT !.loss = @ + 1] \in [commands : Nat, loss : Nat, late : Nat]
           /\ [spent EXCEPT !.late = @ + 1] \in [commands : Nat, loss : Nat, late : Nat]
<1>1. spent \in [commands : Nat, loss : Nat, late : Nat]
    BY DEF TypeOK
<1>2. spent.commands + 1 \in Nat /\ spent.loss + 1 \in Nat /\ spent.late + 1 \in Nat
    BY <1>1
<1> QED
    BY <1>1, <1>2

(* The application's commands, in the Bluetooth thread.                      *)
LEMMA AppTypes ==
    ASSUME IInv, Handle_app_cmd_and_reply
    PROVE  IInv'
<1>0. [spent EXCEPT !.commands = @ + 1] \in [commands : Nat, loss : Nat, late : Nat]
    BY SpentTypes DEF IInv
<1> USE DEF IInv, InHand, TypeOK, controler_state, wires, Notify, Silent, StartSending,
            AppMaySend, Told, AppCmd, Cmd, None, Led
<1>1. CASE AppHandshake
    BY <1>1 DEF AppHandshake
<1>2. CASE AppQuery
    <2>1. CASE handshake_ok
        <3>1. /\ UNCHANGED <<controler_state, cmd_wait, retry, timers, led, wires, mcu, told>>
              /\ spent' = [spent EXCEPT !.commands = @ + 1]
              /\ thread' = [pc |-> "check", cmd |-> "UNLOCK_STATUS"]
              /\ app' = "UNLOCK_STATUS"
            BY <1>2, <2>1 DEF AppQuery
        <3> QED
            BY <1>0, <3>1
    <2>2. CASE ~handshake_ok
        BY <1>2, <2>2 DEF AppQuery
    <2> QED
        BY <2>1, <2>2
<1>3. CASE AppUnlock
    <2>1. CASE active_ok
        BY <1>3, <2>1 DEF AppUnlock
    <2>2. CASE ~active_ok
        BY <1>0, <1>3, <2>2 DEF AppUnlock
    <2> QED
        BY <2>1, <2>2
<1>4. CASE AppLockOrFault
    BY <1>0, <1>4 DEF AppLockOrFault
<1> QED
    BY <1>1, <1>2, <1>3, <1>4 DEF Handle_app_cmd_and_reply

(* The flags of a wait keep their type.                                      *)
LEMMA WaitTypes ==
    ASSUME TypeOK, NEW cmd \in Cmd
    PROVE  /\ [cmd_wait EXCEPT ![cmd].expired = TRUE]
                 \in [Cmd -> [waiting : BOOLEAN, expired : BOOLEAN]]
           /\ [cmd_wait EXCEPT ![cmd].expired = FALSE]
                 \in [Cmd -> [waiting : BOOLEAN, expired : BOOLEAN]]
           /\ [cmd_wait EXCEPT ![cmd].waiting = TRUE]
                 \in [Cmd -> [waiting : BOOLEAN, expired : BOOLEAN]]
<1>1. cmd_wait[cmd] \in [waiting : BOOLEAN, expired : BOOLEAN]
    BY DEF TypeOK
<1>2. /\ [cmd_wait[cmd] EXCEPT !.expired = TRUE] \in [waiting : BOOLEAN, expired : BOOLEAN]
      /\ [cmd_wait[cmd] EXCEPT !.expired = FALSE] \in [waiting : BOOLEAN, expired : BOOLEAN]
      /\ [cmd_wait[cmd] EXCEPT !.waiting = TRUE] \in [waiting : BOOLEAN, expired : BOOLEAN]
    BY <1>1
<1> QED
    BY <1>2 DEF TypeOK

(* The statements of BLE_send_protocol_cmd in the Bluetooth thread.          *)
LEMMA ThreadTypes ==
    ASSUME IInv, Thread
    PROVE  IInv'
<1> USE DEF IInv, InHand, TypeOK, controler_state, wires, At
<1>0. AppCmd \subseteq Cmd
    BY DEF Cmd
<1>1. CASE Check
    <2>1. CASE handshake_ok
        BY <1>1, <2>1 DEF Check
    <2>2. CASE ~handshake_ok
        BY <1>1, <2>2 DEF Check
    <2> QED
        BY <2>1, <2>2
<1>2. CASE SetLast
    <2>1. sent' \in [apart : BOOLEAN, refused : BOOLEAN]
        BY <1>2 DEF SetLast, SetLastCmdType, InFlight
    <2> QED
        BY <1>0, <1>2, <2>1 DEF SetLast, SetLastCmdType
<1>3. CASE SetWaiting
    <2>1. thread.cmd \in Cmd
        BY <1>0, <1>3 DEF SetWaiting
    <2>2. cmd_wait' \in [Cmd -> [waiting : BOOLEAN, expired : BOOLEAN]]
        BY <1>3, <2>1, WaitTypes DEF SetWaiting
    <2>3. /\ thread' \in [pc : {"idle", "check", "last", "waiting", "time", "send"},
                          cmd : AppCmd \cup {None}]
          /\ thread'.cmd = thread.cmd /\ thread.pc # "idle"
        BY <1>3 DEF SetWaiting
    <2>4. UNCHANGED <<handshake_ok, active_ok, last_cmd_type, sent, retry, timers, led, tx, rx,
                      mcu, app, told, spent>>
        BY <1>3 DEF SetWaiting
    <2> QED
        BY <2>2, <2>3, <2>4
<1>4. CASE SetTime
    <2>1. thread.cmd \in Cmd
        BY <1>0, <1>4 DEF SetTime
    <2>2. cmd_wait' \in [Cmd -> [waiting : BOOLEAN, expired : BOOLEAN]]
        BY <1>4, <2>1, WaitTypes DEF SetTime
    <2>3. /\ thread' \in [pc : {"idle", "check", "last", "waiting", "time", "send"},
                          cmd : AppCmd \cup {None}]
          /\ thread'.cmd = thread.cmd /\ thread.pc # "idle"
        BY <1>4 DEF SetTime
    <2>4. UNCHANGED <<handshake_ok, active_ok, last_cmd_type, sent, retry, timers, led, tx, rx,
                      mcu, app, told, spent>>
        BY <1>4 DEF SetTime
    <2> QED
        BY <2>2, <2>3, <2>4
<1>5. CASE Send
    <2>1. thread.cmd \in Cmd
        BY <1>0, <1>5 DEF Send
    <2>2. tx' \in Seq(Cmd)
        BY <1>5, <2>1 DEF Send
    <2>3. thread' \in [pc : {"idle", "check", "last", "waiting", "time", "send"},
                       cmd : AppCmd \cup {None}] /\ thread'.pc = "idle"
        BY <1>5 DEF Send
    <2> QED
        BY <1>5, <2>2, <2>3 DEF Send
<1> QED
    BY <1>1, <1>2, <1>3, <1>4, <1>5 DEF Thread

(* The UART interrupt.                                                       *)
LEMMA ReplyTypes ==
    ASSUME IInv, Handle_mcu_replydata
    PROVE  IInv'
<1>1. rx' \in Seq(Code)
    BY DEF IInv, TypeOK, Handle_mcu_replydata
<1>2. cmd_wait' \in [Cmd -> [waiting : BOOLEAN, expired : BOOLEAN]]
    <2>1. cmd_wait' = [c \in Cmd |->
                         IF c = last_cmd_type /\ ~cmd_wait[c].expired
                         THEN [cmd_wait[c] EXCEPT !.waiting = FALSE] ELSE cmd_wait[c]]
        BY DEF Handle_mcu_replydata, ClearWait
    <2>2. \A c \in Cmd : cmd_wait[c] \in [waiting : BOOLEAN, expired : BOOLEAN]
        BY DEF IInv, TypeOK
    <2>3. \A c \in Cmd : [cmd_wait[c] EXCEPT !.waiting = FALSE]
                            \in [waiting : BOOLEAN, expired : BOOLEAN]
        BY <2>2
    <2> QED
        BY <2>1, <2>2, <2>3
<1>3. UNCHANGED <<last_cmd_type, sent, timers, thread, tx, mcu, spent>>
    BY DEF Handle_mcu_replydata, UNCHANGED_Reply
<1>4. PICK code : \/ HandshakeReply(code)
                  \/ StatusReply(code)
                  \/ \E cmd \in {"UNLOCK", "LOCK"} : LockReply(cmd, code)
                  \/ FaultReply(code)
    BY DEF Handle_mcu_replydata
<1>5. /\ handshake_ok' \in BOOLEAN /\ active_ok' \in BOOLEAN
      /\ retry' \in 0..MaxRetry /\ led' \in Led
    <2>1. 0 \in 0..MaxRetry
        BY V2RelayAssumption
    <2>2. CASE HandshakeReply(code)
        BY <2>1, <2>2 DEF IInv, TypeOK, HandshakeReply, Led
    <2>3. CASE StatusReply(code)
        BY <2>3 DEF IInv, TypeOK, StatusReply, Led
    <2>4. CASE \E cmd \in {"UNLOCK", "LOCK"} : LockReply(cmd, code)
        BY <2>4 DEF IInv, TypeOK, LockReply, Led
    <2>5. CASE FaultReply(code)
        BY <2>5 DEF IInv, TypeOK, FaultReply, Led
    <2> QED
        BY <1>4, <2>2, <2>3, <2>4, <2>5
<1>6. told' \in Told /\ app' \in AppCmd \cup {None}
    <2>1. ASSUME NEW cmd \in Cmd, NEW result, Notify(cmd, result),
                 result \in {"ok", "unlocked", "locked", "fault", "no_fault"}
          PROVE  told' \in Told /\ app' \in AppCmd \cup {None}
        BY <2>1 DEF Notify, Told
    <2>2. Silent => told' \in Told /\ app' \in AppCmd \cup {None}
        BY DEF Silent, IInv, TypeOK
    <2>3. CASE HandshakeReply(code)
        BY <2>2, <2>3 DEF HandshakeReply
    <2>4. CASE StatusReply(code)
        BY <2>1, <2>2, <2>4 DEF StatusReply, Cmd, AppCmd
    <2>5. CASE \E cmd \in {"UNLOCK", "LOCK"} : LockReply(cmd, code)
        BY <2>1, <2>2, <2>5 DEF LockReply, Cmd, AppCmd
    <2>6. CASE FaultReply(code)
        BY <2>1, <2>6 DEF FaultReply, Cmd, AppCmd
    <2> QED
        BY <1>4, <2>3, <2>4, <2>5, <2>6
<1> QED
    BY <1>1, <1>2, <1>3, <1>5, <1>6 DEF IInv, InHand, TypeOK

(* The timer interrupts, and time.                                           *)
LEMMA TimerTypes ==
    ASSUME IInv, \/ StartTimers \/ handshake_timer_cb \/ check_timeout_timer_cb
                 \/ \E cmd \in Cmd : Elapse(cmd)
    PROVE  IInv'
<1> USE DEF IInv, InHand, TypeOK, controler_state, wires, Late
<1>1. CASE StartTimers
    BY <1>1 DEF StartTimers
<1>2. CASE handshake_timer_cb
    <2>1. /\ handshake_ok' = handshake_ok /\ active_ok' = active_ok /\ thread' = thread
          /\ rx' = rx /\ mcu' = mcu /\ app' = app /\ told' = told
        BY <1>2 DEF handshake_timer_cb
    <2>2. CASE SendHandshake /\ retry < MaxRetry /\ retry' = retry + 1 /\ Late
               /\ UNCHANGED <<led, timers>>
        <3>1. "HANDSHAKE" \in Cmd
            BY DEF Cmd
        <3>2. tx' \in Seq(Cmd) /\ last_cmd_type' \in Cmd
            BY <2>2, <3>1 DEF SendHandshake, SetLastCmdType
        <3>3. cmd_wait' \in [Cmd -> [waiting : BOOLEAN, expired : BOOLEAN]]
            BY <2>2 DEF SendHandshake
        <3>4. retry' \in 0..MaxRetry
            BY <2>2, V2RelayAssumption
        <3>5. spent' \in [commands : Nat, loss : Nat, late : Nat]
            BY <2>2, SpentTypes
        <3>6. sent' \in [apart : BOOLEAN, refused : BOOLEAN]
            BY <2>2 DEF SendHandshake, SetLastCmdType, InFlight
        <3> QED
            BY <2>1, <2>2, <3>2, <3>3, <3>4, <3>5, <3>6
    <2>3. CASE /\ led' \in Led
               /\ timers' = [timers EXCEPT !.handshake = "stopped"]
               /\ UNCHANGED <<last_cmd_type, sent, cmd_wait, retry, tx, spent>>
        BY <2>1, <2>3
    <2> QED
        BY <1>2, <2>2, <2>3 DEF handshake_timer_cb, Led
<1>3. CASE check_timeout_timer_cb
    <2>1. cmd_wait' \in [Cmd -> [waiting : BOOLEAN, expired : BOOLEAN]]
        BY <1>3 DEF check_timeout_timer_cb
    <2>2. told' \in Told /\ app' \in AppCmd \cup {None}
        <3>1. PICK cmd \in TimedOut : Notify(cmd, TimeoutResult(cmd))
            BY <1>3 DEF check_timeout_timer_cb
        <3>2. cmd \in Cmd
            BY DEF TimedOut, Cmd
        <3>3. TimeoutResult(cmd) \in {"locked", "no_fault", "fail"}
            BY DEF TimeoutResult
        <3> QED
            BY <3>1, <3>2, <3>3 DEF Notify, Told
    <2>3. led' \in Led
        BY <1>3 DEF check_timeout_timer_cb, Led
    <2> QED
        BY <1>3, <2>1, <2>2, <2>3 DEF check_timeout_timer_cb
<1>4. CASE \E cmd \in Cmd : Elapse(cmd)
    <2>1. PICK cmd \in Cmd : Elapse(cmd)
        BY <1>4
    <2>2. cmd_wait' \in [Cmd -> [waiting : BOOLEAN, expired : BOOLEAN]]
        <3>1. cmd_wait' = [cmd_wait EXCEPT ![cmd].expired = TRUE]
            BY <2>1 DEF Elapse
        <3> QED
            BY <3>1, WaitTypes
    <2>3. spent' \in [commands : Nat, loss : Nat, late : Nat]
        <3>1. UNCHANGED spent \/ spent' = [spent EXCEPT !.late = @ + 1]
            BY <2>1 DEF Elapse
        <3> QED
            BY <3>1, SpentTypes
    <2> QED
        BY <2>1, <2>2, <2>3 DEF Elapse
<1> QED
    BY <1>1, <1>2, <1>3, <1>4

(* The controller, the wires, the application.                               *)
LEMMA ExternalTypes ==
    ASSUME IInv, McuAnswer \/ Lose \/ GiveUp
    PROVE  IInv'
<1> USE DEF IInv, InHand, TypeOK, controler_state, wires
<1>1. CASE McuAnswer
    <2>1. tx' \in Seq(Cmd)
        BY <1>1 DEF McuAnswer
    <2>2. \A cmd : ReplyCode(cmd) \in Code
        BY DEF ReplyCode, Code
    <2>3. rx' \in Seq(Code)
        <3>1. PICK code \in Code : rx' = Append(rx, code)
            BY <1>1, <2>2 DEF McuAnswer, Code
        <3> QED
            BY <3>1
    <2>4. mcu' \in [unlocked : BOOLEAN, fault : BOOLEAN]
        BY <1>1 DEF McuAnswer, Obey
    <2>5. sent' \in [apart : BOOLEAN, refused : BOOLEAN]
        BY <1>1 DEF McuAnswer
    <2> QED
        BY <1>1, <2>1, <2>3, <2>4, <2>5 DEF McuAnswer
<1>2. CASE Lose
    <2>1. tx' \in Seq(Cmd) /\ rx' \in Seq(Code)
        <3>1. CASE tx # <<>> /\ tx' = Tail(tx) /\ UNCHANGED rx
            BY <3>1
        <3>2. CASE rx # <<>> /\ rx' = Tail(rx) /\ UNCHANGED tx
            BY <3>2
        <3> QED
            BY <1>2, <3>1, <3>2 DEF Lose
    <2>2. spent' \in [commands : Nat, loss : Nat, late : Nat]
        BY <1>2, SpentTypes DEF Lose
    <2> QED
        BY <1>2, <2>1, <2>2 DEF Lose
<1>3. CASE GiveUp
    BY <1>3 DEF GiveUp
<1> QED
    BY <1>1, <1>2, <1>3

LEMMA Invariance == Spec => []IInv
<1>1. IInv /\ UNCHANGED vars => IInv'
    BY DEF IInv, InHand, TypeOK, vars, controler_state, wires
<1>2. IInv /\ [Next]_vars => IInv'
    BY <1>1, AppTypes, ThreadTypes, ReplyTypes, TimerTypes, ExternalTypes DEF Next
<1> QED
    BY <1>2, InitIInv, PTL DEF Spec

(* Every state of the vehicle commands is well typed: in particular only     *)
(* commands are on the wire, only replies come back, and the handshake is    *)
(* tried at most MaxRetry times.                                             *)
THEOREM TypeCorrect == Spec => []TypeOK
<1>1. IInv => TypeOK
    BY DEF IInv
<1> QED
    BY <1>1, Invariance, PTL

-----------------------------------------------------------------------------
Busy == thread.pc \in {"last", "waiting", "time", "send"}

(* The handshake is over when commands are sent. *)
AfterHandshake == (Busy \/ last_cmd_type \in AppCmd) => handshake_ok

(* The thread sends what it has recorded. *)
InThread == thread.pc \in {"waiting", "time", "send"} => last_cmd_type = thread.cmd

(* What the controller has done when it acknowledges. *)
Obeyed(cmd) == (cmd = "UNLOCK" => mcu.unlocked) /\ (cmd = "LOCK" => ~mcu.unlocked)

(* The answer of the controller to a command: it has obeyed, or refused. *)
Honest(cmd, code) ==
    \/ code = ReplyCode(cmd) /\ Obeyed(cmd)
    \/ code = "OTHER" /\ sent.refused /\ cmd # "FAULT_QUERY"

(* The last command or its answer, and nothing else, is under way. *)
OneItem ==
    sent.apart /\ InFlight =>
        /\ thread.pc \notin {"waiting", "time", "send"}
        /\ \/ tx = <<last_cmd_type>> /\ rx = <<>>
           \/ tx = <<>> /\ \E code \in Code : rx = <<code>> /\ Honest(last_cmd_type, code)

(* WaitedFor, from the statement that starts the wait. *)
Held ==
    (/\ app # None /\ last_cmd_type = app /\ thread.pc \in {"time", "send", "idle"}
     /\ sent.apart /\ ~sent.refused) => cmd_wait[app].waiting

AInv == AfterHandshake /\ InThread /\ OneItem /\ Held

(* Steps that leave alone what attribution depends on.                       *)
LEMMA Unattributed ==
    ASSUME IInv, AInv,
           UNCHANGED <<handshake_ok, last_cmd_type, sent, thread, tx, rx, mcu>>,
           app' \in {app, None},
           \A c \in AppCmd : app' # None => cmd_wait'[c].waiting = cmd_wait[c].waiting
    PROVE  AInv'
<1>1. AfterHandshake' /\ InThread'
    BY DEF AInv, AfterHandshake, InThread, Busy
<1>2. OneItem'
    BY DEF AInv, OneItem, InFlight, Honest, ReplyCode, Obeyed
<1>3. Held'
    BY DEF AInv, Held, IInv, TypeOK
<1> QED
    BY <1>1, <1>2, <1>3 DEF AInv

(* The application's commands, in the Bluetooth thread.                      *)
LEMMA AppAttributed ==
    ASSUME IInv, AInv, Handle_app_cmd_and_reply
    PROVE  AInv'
<1>1. UNCHANGED <<controler_state, cmd_wait, tx, rx, mcu>> /\ thread.pc = "idle"
    BY DEF Handle_app_cmd_and_reply, AppHandshake, AppQuery, AppUnlock, AppLockOrFault,
       AppMaySend, wires
<1>2. \/ UNCHANGED thread /\ app' \in {app, None}
      \/ thread'.pc = "check"
    BY DEF Handle_app_cmd_and_reply, AppHandshake, AppQuery, AppUnlock, AppLockOrFault,
       StartSending, Notify, Silent
<1>3. CASE UNCHANGED thread /\ app' \in {app, None}
    BY <1>1, <1>3, Unattributed DEF controler_state
<1>4. CASE thread'.pc = "check"
    <2>1. AfterHandshake' /\ InThread' /\ Held'
        BY <1>1, <1>4 DEF AInv, AfterHandshake, InThread, Held, Busy, controler_state
    <2>2. OneItem'
        BY <1>1, <1>4
           DEF AInv, OneItem, InFlight, Honest, ReplyCode, Obeyed, controler_state
    <2> QED
        BY <2>1, <2>2 DEF AInv
<1> QED
    BY <1>2, <1>3, <1>4

(* The statements that send a command.                                       *)
LEMMA ThreadAttributed ==
    ASSUME IInv, AInv, Thread
    PROVE  AInv'
<1>1. UNCHANGED <<handshake_ok, rx, mcu, app>>
    BY DEF Thread, Check, SetLast, SetWaiting, SetTime, Send, controler_state, wires
<1>2. CASE Check
    <2>1. UNCHANGED <<last_cmd_type, sent, cmd_wait, tx>>
        BY <1>2 DEF Check, controler_state, wires
    <2>2. \/ handshake_ok /\ thread'.pc = "last"
          \/ ~handshake_ok /\ thread'.pc = "idle"
        BY <1>2 DEF Check, At, IInv, TypeOK
    <2>3. ~handshake_ok => last_cmd_type \notin AppCmd
        BY DEF AInv, AfterHandshake
    <2>4. app \in AppCmd \cup {None}
        BY DEF IInv, TypeOK
    <2>5. AfterHandshake' /\ InThread' /\ Held'
        BY <1>1, <2>1, <2>2, <2>3, <2>4
           DEF AInv, AfterHandshake, InThread, Held, Busy
    <2>6. OneItem'
        BY <1>1, <2>1, <2>2 DEF AInv, OneItem, InFlight, Honest, ReplyCode, Obeyed
    <2> QED
        BY <2>5, <2>6 DEF AInv
<1>3. CASE SetLast
    <2>1. /\ thread.pc = "last" /\ thread'.pc = "waiting" /\ thread'.cmd = thread.cmd
          /\ last_cmd_type' = thread.cmd /\ UNCHANGED <<cmd_wait, tx>>
          /\ sent' = [apart |-> ~InFlight, refused |-> FALSE]
        BY <1>3 DEF SetLast, SetLastCmdType, At, wires, IInv, TypeOK
    <2>2. sent'.apart => ~InFlight'
        BY <1>1, <2>1 DEF InFlight
    <2>3. AfterHandshake' /\ InThread' /\ Held'
        BY <1>1, <2>1 DEF AInv, AfterHandshake, InThread, Held, Busy
    <2> QED
        BY <2>2, <2>3 DEF AInv, OneItem
<1>4. CASE SetWaiting
    <2>1. /\ thread.pc = "waiting" /\ thread'.pc = "time" /\ thread'.cmd = thread.cmd
          /\ cmd_wait' = [cmd_wait EXCEPT ![thread.cmd].waiting = TRUE]
          /\ UNCHANGED <<last_cmd_type, sent, tx>>
        BY <1>4 DEF SetWaiting, At, wires, controler_state, IInv, TypeOK
    <2>2. cmd_wait'[thread.cmd].waiting
        BY <2>1 DEF IInv, InHand, TypeOK, Cmd
    <2>3. AfterHandshake' /\ InThread' /\ Held'
        BY <1>1, <2>1, <2>2 DEF AInv, AfterHandshake, InThread, Held, Busy
    <2>4. OneItem'
        BY <1>1, <2>1 DEF AInv, OneItem, InFlight
    <2> QED
        BY <2>3, <2>4 DEF AInv
<1>5. CASE SetTime
    <2>1. /\ thread.pc = "time" /\ thread'.pc = "send" /\ thread'.cmd = thread.cmd
          /\ cmd_wait' = [cmd_wait EXCEPT ![thread.cmd].expired = FALSE]
          /\ UNCHANGED <<last_cmd_type, sent, tx>>
        BY <1>5 DEF SetTime, At, wires, controler_state, IInv, TypeOK
    <2>2. \A c \in AppCmd : cmd_wait'[c].waiting = cmd_wait[c].waiting
        BY <2>1 DEF IInv, InHand, TypeOK, Cmd
    <2>3. app \in AppCmd \cup {None}
        BY DEF IInv, TypeOK
    <2>4. AfterHandshake' /\ InThread' /\ Held'
        BY <1>1, <2>1, <2>2, <2>3 DEF AInv, AfterHandshake, InThread, Held, Busy
    <2>5. OneItem'
        BY <1>1, <2>1 DEF AInv, OneItem, InFlight
    <2> QED
        BY <2>4, <2>5 DEF AInv
<1>6. CASE Send
    <2>1. /\ thread.pc = "send" /\ thread'.pc = "idle"
          /\ tx' = Append(tx, thread.cmd) /\ UNCHANGED <<last_cmd_type, sent, cmd_wait>>
        BY <1>6 DEF Send, wires, controler_state
    <2>2. AfterHandshake' /\ InThread' /\ Held'
        BY <1>1, <2>1 DEF AInv, AfterHandshake, InThread, Held, Busy
    <2>3. ASSUME sent.apart PROVE tx' = <<last_cmd_type>> /\ rx' = <<>>
        <3>1. tx = <<>> /\ rx = <<>> /\ last_cmd_type = thread.cmd
            BY <2>1, <2>3 DEF AInv, OneItem, InThread, InFlight
        <3>2. Append(<<>>, thread.cmd) = <<thread.cmd>>
            OBVIOUS
        <3> QED
            BY <1>1, <2>1, <3>1, <3>2
    <2>4. OneItem'
        BY <2>1, <2>3 DEF OneItem
    <2> QED
        BY <2>2, <2>4 DEF AInv
<1> QED
    BY <1>2, <1>3, <1>4, <1>5, <1>6 DEF Thread

(* The one reply under way, if nothing was when its command was recorded.    *)
LEMMA TheReply ==
    ASSUME IInv, AInv, Handle_mcu_replydata, sent.apart
    PROVE  /\ rx' = <<>> /\ tx = <<>>
           /\ thread.pc \notin {"waiting", "time", "send"}
           /\ Honest(last_cmd_type, Head(rx))
<1>1. rx # <<>> /\ rx' = Tail(rx)
    BY DEF Handle_mcu_replydata
<1>2. /\ thread.pc \notin {"waiting", "time", "send"}
      /\ tx = <<>> /\ \E code \in Code : rx = <<code>> /\ Honest(last_cmd_type, code)
    BY <1>1 DEF AInv, OneItem, InFlight
<1>3. PICK code \in Code : rx = <<code>> /\ Honest(last_cmd_type, code)
    BY <1>2
<1>4. Head(rx) = code /\ Tail(rx) = <<>>
    BY <1>3
<1> QED
    BY <1>1, <1>2, <1>3, <1>4

(* A reply that is no refusal tells the application.                         *)
LEMMA HonestIsTold ==
    ASSUME IInv, AInv, Handle_mcu_replydata, sent.apart, ~sent.refused,
           last_cmd_type \in AppCmd
    PROVE  app' = None
<1>1. Head(rx) = ReplyCode(last_cmd_type)
    BY TheReply DEF Honest
<1>2. CASE last_cmd_type = "UNLOCK_STATUS"
    <2>1. Head(rx) \in {"UNLOCKED", "LOCKED"}
        BY <1>1, <1>2 DEF ReplyCode
    <2>2. StatusReply(Head(rx))
        BY <1>2 DEF Handle_mcu_replydata
    <2> QED
        BY <2>1, <2>2 DEF StatusReply, Notify
<1>3. CASE last_cmd_type \in {"UNLOCK", "LOCK"}
    <2>1. Head(rx) = "ACK"
        BY <1>1, <1>3 DEF ReplyCode
    <2>2. LockReply(last_cmd_type, Head(rx))
        BY <1>3 DEF Handle_mcu_replydata
    <2> QED
        BY <2>1, <2>2 DEF LockReply, Notify
<1>4. CASE last_cmd_type = "FAULT_QUERY"
    <2>1. FaultReply(Head(rx))
        BY <1>4 DEF Handle_mcu_replydata
    <2> QED
        BY <2>1 DEF FaultReply, Notify
<1> QED
    BY <1>2, <1>3, <1>4 DEF AppCmd

(* The UART interrupt.                                                       *)
LEMMA ReplyAttributed ==
    ASSUME IInv, AInv, Handle_mcu_replydata
    PROVE  AInv'
<1>1. UNCHANGED <<last_cmd_type, sent, thread, tx, mcu>> /\ ClearWait(last_cmd_type)
    BY DEF Handle_mcu_replydata, UNCHANGED_Reply
<1>2. handshake_ok => handshake_ok'
    BY DEF Handle_mcu_replydata, HandshakeReply, StatusReply, LockReply, FaultReply
<1>3. app' \in {app, None}
    BY DEF Handle_mcu_replydata, HandshakeReply, StatusReply, LockReply, FaultReply, Notify,
       Silent
<1>4. AfterHandshake' /\ InThread'
    BY <1>1, <1>2 DEF AInv, AfterHandshake, InThread, Busy
<1>5. OneItem'
    BY <1>1, TheReply DEF OneItem, InFlight
<1>6. Held'
    <2>1. app \in AppCmd \cup {None}
        BY DEF IInv, TypeOK
    <2> QED
        BY <1>1, <1>3, <2>1, HonestIsTold DEF Held
<1> QED
    BY <1>4, <1>5, <1>6 DEF AInv

(* The timer interrupts, and time.                                           *)
LEMMA TimerAttributed ==
    ASSUME IInv, AInv, \/ StartTimers \/ handshake_timer_cb \/ check_timeout_timer_cb
                       \/ \E cmd \in Cmd : Elapse(cmd)
    PROVE  AInv'
<1>1. CASE StartTimers
    BY <1>1, Unattributed DEF StartTimers, controler_state, wires
<1>2. CASE handshake_timer_cb
    <2>1. UNCHANGED <<handshake_ok, thread, rx, mcu, app>>
        BY <1>2 DEF handshake_timer_cb
    <2>2. CASE UNCHANGED <<last_cmd_type, sent, cmd_wait, tx>>
        BY <2>1, <2>2, Unattributed
    <2>3. CASE ~handshake_ok /\ SendHandshake
        <3>1. /\ last_cmd_type' = "HANDSHAKE" /\ tx' = Append(tx, "HANDSHAKE")
              /\ sent'.apart = ~InFlight
            BY <2>3 DEF SendHandshake, SetLastCmdType
        <3>2. ~Busy
            BY <2>3 DEF AInv, AfterHandshake
        <3>3. AfterHandshake' /\ InThread'
            BY <2>1, <3>1, <3>2 DEF AfterHandshake, InThread, Busy, AppCmd
        <3>4. Held'
            <4>1. app # "HANDSHAKE"
                BY DEF IInv, TypeOK, AppCmd, None
            <4> QED
                BY <2>1, <3>1, <4>1 DEF Held
        <3>5. ASSUME ~InFlight PROVE tx' = <<"HANDSHAKE">> /\ rx' = <<>>
            <4>1. Append(<<>>, "HANDSHAKE") = <<"HANDSHAKE">>
                OBVIOUS
            <4> QED
                BY <2>1, <3>1, <3>5, <4>1 DEF InFlight
        <3>6. OneItem'
            BY <2>1, <3>1, <3>2, <3>5 DEF OneItem, Busy
        <3> QED
            BY <3>3, <3>4, <3>6 DEF AInv
    <2> QED
        BY <1>2, <2>2, <2>3 DEF handshake_timer_cb
<1>3. CASE check_timeout_timer_cb
    <2>1. app' = None
        BY <1>3 DEF check_timeout_timer_cb, Notify
    <2> QED
        BY <1>3, <2>1, Unattributed DEF check_timeout_timer_cb, controler_state, wires
<1>4. CASE \E cmd \in Cmd : Elapse(cmd)
    <2>1. PICK cmd \in Cmd : Elapse(cmd)
        BY <1>4
    <2>2. \A c \in AppCmd : cmd_wait'[c].waiting = cmd_wait[c].waiting
        BY <2>1 DEF Elapse, IInv, TypeOK, Cmd
    <2> QED
        BY <2>1, <2>2, Unattributed DEF Elapse, controler_state, wires
<1> QED
    BY <1>1, <1>2, <1>3, <1>4

(* The controller answers the command that was recorded last.                *)
LEMMA AnswerAttributed ==
    ASSUME IInv, AInv, McuAnswer
    PROVE  AInv'
<1>1. /\ tx # <<>> /\ tx' = Tail(tx)
      /\ UNCHANGED <<handshake_ok, last_cmd_type, cmd_wait, thread, app>>
      /\ sent'.apart = sent.apart /\ (sent.refused => sent'.refused)
    BY DEF McuAnswer, IInv, TypeOK
<1>2. AfterHandshake' /\ InThread' /\ Held'
    BY <1>1 DEF AInv, AfterHandshake, InThread, Held, Busy
<1>3. ASSUME sent.apart
      PROVE  /\ thread.pc \notin {"waiting", "time", "send"}
             /\ tx' = <<>> /\ \E code \in Code : rx' = <<code>> /\ Honest(last_cmd_type, code)'
    <2>1. /\ thread.pc \notin {"waiting", "time", "send"}
          /\ tx = <<last_cmd_type>> /\ rx = <<>>
        BY <1>1, <1>3 DEF AInv, OneItem, InFlight
    <2>2. tx' = <<>> /\ Head(tx) = last_cmd_type
        BY <1>1, <2>1
    <2>3. \A code : Append(<<>>, code) = <<code>>
        OBVIOUS
    <2>4. CASE Obey(last_cmd_type) /\ rx' = Append(rx, ReplyCode(last_cmd_type))
        <3>1. rx' = <<ReplyCode(last_cmd_type)>>
            BY <2>1, <2>3, <2>4
        <3>2. ReplyCode(last_cmd_type) \in Code
            BY DEF ReplyCode, Code
        <3>3. ReplyCode(last_cmd_type)' = ReplyCode(last_cmd_type) /\ Obeyed(last_cmd_type)'
            BY <1>1, <2>4 DEF Obey, ReplyCode, Obeyed, IInv, TypeOK
        <3>4. Honest(last_cmd_type, ReplyCode(last_cmd_type))'
            BY <3>3 DEF Honest
        <3> QED
            BY <1>1, <2>1, <2>2, <3>1, <3>2, <3>3, <3>4
    <2>5. CASE /\ last_cmd_type \in Refusable /\ rx' = Append(rx, "OTHER")
               /\ sent' = [sent EXCEPT !.refused = TRUE]
        <3>1. rx' = <<"OTHER">> /\ sent'.refused
            BY <2>1, <2>3, <2>5 DEF IInv, TypeOK
        <3>2. last_cmd_type # "FAULT_QUERY"
            BY <2>5, V2RelayAssumption
        <3>3. Honest(last_cmd_type, "OTHER")'
            BY <1>1, <3>1, <3>2 DEF Honest
        <3> QED
            BY <2>1, <2>2, <3>1, <3>3 DEF Code
    <2> QED
        BY <2>2, <2>4, <2>5 DEF McuAnswer
<1>4. OneItem'
    BY <1>1, <1>3 DEF OneItem
<1> QED
    BY <1>2, <1>4 DEF AInv

(* A frame is lost, the application gives up.                                *)
LEMMA OutsideAttributed ==
    ASSUME IInv, AInv, Lose \/ GiveUp
    PROVE  AInv'
<1>1. CASE Lose
    <2>1. /\ UNCHANGED <<handshake_ok, last_cmd_type, sent, cmd_wait, thread, mcu, app>>
          /\ \/ tx # <<>> /\ tx' = Tail(tx) /\ UNCHANGED rx
             \/ rx # <<>> /\ rx' = Tail(rx) /\ UNCHANGED tx
        BY <1>1 DEF Lose, controler_state
    <2>2. AfterHandshake' /\ InThread' /\ Held'
        BY <2>1 DEF AInv, AfterHandshake, InThread, Held, Busy
    <2>3. ASSUME sent.apart PROVE ~InFlight'
        <3>1. \/ rx = <<>> /\ \E cmd : tx = <<cmd>>
              \/ tx = <<>> /\ \E code : rx = <<code>>
            BY <2>1, <2>3 DEF AInv, OneItem, InFlight
        <3>2. \A x : Tail(<<x>>) = <<>>
            OBVIOUS
        <3> QED
            BY <2>1, <3>1, <3>2 DEF InFlight
    <2>4. OneItem'
        BY <2>1, <2>3 DEF OneItem
    <2> QED
        BY <2>2, <2>4 DEF AInv
<1>2. CASE GiveUp
    BY <1>2, Unattributed DEF GiveUp, controler_state, wires
<1> QED
    BY <1>1, <1>2

LEMMA Attribution == Spec => [](IInv /\ AInv)
<1>1. Init => AInv
    BY DEF Init, AInv, AfterHandshake, InThread, OneItem, Held, Busy, AppCmd, None
<1>2. IInv /\ AInv /\ [Next]_vars => AInv'
    <2> SUFFICES ASSUME IInv, AInv, [Next]_vars PROVE AInv'
        OBVIOUS
    <2>1. CASE UNCHANGED vars
        BY <2>1, Unattributed DEF vars, controler_state, wires
    <2>2. CASE Next
        BY <2>2, AppAttributed, ThreadAttributed, ReplyAttributed, TimerAttributed,
           AnswerAttributed, OutsideAttributed DEF Next
    <2> QED
        BY <2>1, <2>2
<1> QED
    BY <1>1, <1>2, Invariance, PTL DEF Spec

(* A command recorded with nothing under way is waited for as long as the    *)
(* application waits for it and it is not refused, for any number of losses, *)
(* late answers and handshakes, wherever a timeout falls (v2.0.c:348,        *)
(* 387-390).                                                                 *)
THEOREM CommandIsWaitedFor == Spec => []WaitedFor
<1>1. AInv => WaitedFor
    BY DEF AInv, Held, WaitedFor
<1> QED
    BY <1>1, Attribution, PTL

(* What a reply to such a command tells the application is true, although no *)
(* reply says what it answers (v2.0.c:348, 387).                             *)
THEOREM TheToldIsTrue == Spec => SuccessIsTrue
<1>1. ASSUME IInv, AInv, Handle_mcu_replydata, sent.apart, <<told, app>>' # <<told, app>>
      PROVE  IsTrue(told')
    <2>1. Honest(last_cmd_type, Head(rx))
        BY <1>1, TheReply
    <2>2. CASE HandshakeReply(Head(rx))
        BY <1>1, <2>2 DEF HandshakeReply, Silent
    <2>3. CASE last_cmd_type = "UNLOCK_STATUS" /\ StatusReply(Head(rx))
        <3>1. Head(rx) \in {"UNLOCKED", "LOCKED"}
            BY <1>1, <2>3 DEF StatusReply, Silent
        <3>2. Head(rx) = IF mcu.unlocked THEN "UNLOCKED" ELSE "LOCKED"
            BY <2>1, <2>3, <3>1 DEF Honest, ReplyCode
        <3>3. told' = [cmd |-> "UNLOCK_STATUS",
                       result |-> IF mcu.unlocked THEN "unlocked" ELSE "locked"]
            BY <2>3, <3>1, <3>2 DEF StatusReply, Notify
        <3> QED
            BY <3>3 DEF IsTrue
    <2>4. CASE /\ last_cmd_type \in {"UNLOCK", "LOCK"}
               /\ LockReply(last_cmd_type, Head(rx))
        <3>1. Head(rx) = "ACK" /\ told' = [cmd |-> last_cmd_type, result |-> "ok"]
            BY <1>1, <2>4 DEF LockReply, Silent, Notify
        <3>2. Obeyed(last_cmd_type)
            BY <2>1, <3>1 DEF Honest
        <3> QED
            BY <2>4, <3>1, <3>2 DEF IsTrue, Obeyed
    <2>5. CASE last_cmd_type = "FAULT_QUERY" /\ FaultReply(Head(rx))
        <3>1. Head(rx) = IF mcu.fault THEN "FAULT" ELSE "NO_FAULT"
            BY <2>1, <2>5 DEF Honest, ReplyCode
        <3>2. told' = [cmd |-> "FAULT_QUERY",
                       result |-> IF mcu.fault THEN "fault" ELSE "no_fault"]
            BY <2>5, <3>1 DEF FaultReply, Notify
        <3> QED
            BY <3>2 DEF IsTrue
    <2> QED
        BY <1>1, <2>2, <2>3, <2>4, <2>5 DEF Handle_mcu_replydata
<1>2. IInv /\ AInv /\ [Next]_vars
        => [ (/\ Handle_mcu_replydata
              /\ sent.apart
              /\ <<told, app>>' # <<told, app>>)
             => IsTrue(told') ]_vars
    BY <1>1
<1> QED
    BY <1>2, Attribution, PTL DEF Spec, SuccessIsTrue
=============================================================================
