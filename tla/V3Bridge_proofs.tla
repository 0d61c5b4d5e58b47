--------------------------- MODULE V3Bridge_proofs ---------------------------
(***************************************************************************)
(* Proofs about the register bridge, for every set of groups and with any  *)
(* number of requests, losses, damaged and late replies.                   *)
(*                                                                         *)
(* The argument.  What is claimed between two requests (WaitedFor) has to  *)
(* be true already in the middle of the thread, where an interrupt may     *)
(* come: WaitedForAtAll says it of the wait from the statement that starts *)
(* it, Recorded says at every statement which of the last two requests the *)
(* fields name, for which InHand ties the request the thread holds to the  *)
(* one it forwarded.  An interrupt ends the wait of the module only        *)
(* together with that of the application, and never writes a field that    *)
(* names the request.                                                      *)
(***************************************************************************)
EXTENDS V3Bridge, SequenceTheorems, TLAPS

(* The first request of the thread finds storage that is zero.              *)
LEMMA InitIInv == Init => IInv
<1>1. 0 \in Number
    BY V3BridgeAssumption DEF Number
<1>2. <<>> \in Seq(TxFrame) /\ <<>> \in Seq(RxFrame)
    OBVIOUS
<1>3. ASSUME Init PROVE TypeOK
  <2>1. PICK grp \in Grp :
            /\ v3 = [waiting_mcu_reply |-> FALSE, pending_cmd |-> "WRITE_CTRL",
                     pending_grp |-> grp]
            /\ thread = [pc |-> "idle", req |-> [cmd |-> "WRITE_CTRL", grp |-> grp]]
            /\ answer = [kind |-> "none", cmd |-> "WRITE_CTRL", grp |-> grp]
            /\ last = [req |-> [cmd |-> "WRITE_CTRL", grp |-> grp],
                       before |-> [cmd |-> "WRITE_CTRL", grp |-> grp],
                       id |-> 0, due |-> TRUE, heard |-> FALSE]
      BY <1>3 DEF Init
  <2>2. [cmd |-> "WRITE_CTRL", grp |-> grp] \in Request
      BY DEF Request, Cmd
  <2>3. v3 \in [waiting_mcu_reply : BOOLEAN, pending_cmd : Cmd, pending_grp : Grp]
      BY <2>1 DEF Cmd
  <2>4. thread \in [pc : Pc, req : Request]
      BY <2>1, <2>2 DEF Pc
  <2>5. answer \in [kind : Kind, cmd : Cmd, grp : Grp]
      BY <2>1 DEF Kind, Cmd
  <2>6. last \in [req : Request, before : Request, id : Number, due : BOOLEAN, heard : BOOLEAN]
      BY <1>1, <2>1, <2>2
  <2> QED
      BY <1>1, <1>2, <1>3, <2>3, <2>4, <2>5, <2>6 DEF Init, TypeOK
<1>4. ASSUME Init PROVE WaitedForAtAll /\ InHand /\ Recorded
    BY <1>4 DEF Init, WaitedForAtAll, InHand, Recorded
<1> QED
    BY <1>3, <1>4 DEF IInv

(* Types, for the thread. *)
LEMMA ThreadTypes ==
    ASSUME TypeOK, (\E req \in Request : V3_handle_read_write(req)) \/ Thread
    PROVE  TypeOK'
<1> USE DEF TypeOK
<1>1. CASE \E req \in Request : V3_handle_read_write(req)
  <2>1. PICK req \in Request : V3_handle_read_write(req)
      BY <1>1
  <2>2. req.cmd \in Cmd /\ req.grp \in Grp
      BY <2>1 DEF Request
  <2>3. app.made < MaxRequests => app.made + 1 \in Number
      BY V3BridgeAssumption DEF Number
  <2>4. CASE Refuse(req)
      BY <2>2, <2>3, <2>4 DEF Refuse, wires, Kind
  <2>5. CASE Accept(req)
      BY <2>1, <2>3, <2>5 DEF Accept, wires, Pc
  <2> QED
      BY <2>1, <2>4, <2>5 DEF V3_handle_read_write
<1>2. CASE Send
  <2>1. [req |-> thread.req, id |-> app.made] \in TxFrame
      BY <1>2 DEF TxFrame
  <2>2. tx' \in Seq(TxFrame)
      BY <1>2, <2>1 DEF Send
  <2> QED
      BY <1>2, <2>2 DEF Send, At, Pc
<1>3. CASE SetWaiting
    BY <1>3 DEF SetWaiting, At, wires, Pc
<1>4. CASE SetCmd
    BY <1>4 DEF SetCmd, At, wires, Pc, Request
<1>5. CASE SetGrp
    BY <1>5 DEF SetGrp, At, wires, Pc, Request
<1>6. CASE SetTime
    BY <1>6 DEF SetTime, At, wires, Pc
<1> QED
    BY <1>1, <1>2, <1>3, <1>4, <1>5, <1>6 DEF Thread

(* Types, for the interrupts and the clock. *)
LEMMA InterruptTypes ==
    ASSUME TypeOK, V3_handle_mcu_reply \/ V3_timeout_check \/ StartTimer \/ Elapse
    PROVE  TypeOK'
<1> USE DEF TypeOK
<1>1. CASE V3_handle_mcu_reply
  <2>1. Head(rx) \in RxFrame /\ Tail(rx) \in Seq(RxFrame)
      BY <1>1, HeadTailProperties DEF V3_handle_mcu_reply
  <2>2. /\ Head(rx).req.cmd \in Cmd
        /\ Head(rx).req.grp \in Grp
        /\ Head(rx).good \in BOOLEAN
      BY <2>1 DEF Request, RxFrame
  <2>3. rx' \in Seq(RxFrame)
      BY <1>1, <2>1 DEF V3_handle_mcu_reply
  <2>4. answer' \in [kind : Kind, cmd : Cmd, grp : Grp]
      BY <1>1, <2>2 DEF V3_handle_mcu_reply, V3_crc_verify, Notify, Kind
  <2>5. v3' \in [waiting_mcu_reply : BOOLEAN, pending_cmd : Cmd, pending_grp : Grp]
      BY <1>1, <2>2 DEF V3_handle_mcu_reply
  <2>6. last' \in [req : Request, before : Request, id : Number, due : BOOLEAN, heard : BOOLEAN]
      BY <1>1 DEF V3_handle_mcu_reply
  <2>7. app' \in [waiting : BOOLEAN, made : Number]
      BY <1>1 DEF V3_handle_mcu_reply, Notify
  <2> QED
      BY <1>1, <2>3, <2>4, <2>5, <2>6, <2>7 DEF V3_handle_mcu_reply
<1>2. CASE V3_timeout_check
    BY <1>2 DEF V3_timeout_check, Notify, Kind, wires
<1>3. CASE StartTimer
    BY <1>3 DEF StartTimer, wires
<1>4. CASE Elapse
  <2>1. last' \in [req : Request, before : Request, id : Number, due : BOOLEAN, heard : BOOLEAN]
      BY <1>4 DEF Elapse
  <2>2. faults' \in [loss : Nat, damage : Nat, late : Nat]
      BY <1>4 DEF Elapse
  <2> QED
      BY <1>4, <2>1, <2>2 DEF Elapse, wires
<1> QED
    BY <1>1, <1>2, <1>3, <1>4

(* Types, for the outside. *)
LEMMA OutsideTypes ==
    ASSUME TypeOK, GiveUp \/ McuAnswer \/ Lose \/ Damage
    PROVE  TypeOK'
<1> USE DEF TypeOK
<1>1. CASE GiveUp
    BY <1>1 DEF GiveUp, wires
<1>2. CASE McuAnswer
  <2> DEFINE reply == [req |-> Head(tx).req, id |-> Head(tx).id, good |-> TRUE]
  <2>1. Head(tx) \in TxFrame /\ Tail(tx) \in Seq(TxFrame)
      BY <1>2, HeadTailProperties DEF McuAnswer
  <2>2. reply \in RxFrame
      BY <2>1 DEF TxFrame, RxFrame
  <2>3. rx' \in Seq(RxFrame)
      BY <1>2, <2>2 DEF McuAnswer
  <2> QED
      BY <1>2, <2>1, <2>3 DEF McuAnswer
<1>3. CASE Lose
  <2>1. tx \in Seq(TxFrame) /\ rx \in Seq(RxFrame)
      OBVIOUS
  <2>2. tx' \in Seq(TxFrame)
    <3>1. CASE tx # <<>> /\ tx' = Tail(tx)
        BY <2>1, <3>1, HeadTailProperties
    <3>2. CASE tx' = tx
        BY <2>1, <3>2
    <3> QED
        BY <1>3, <3>1, <3>2 DEF Lose
  <2>3. rx' \in Seq(RxFrame)
    <3>1. CASE rx # <<>> /\ rx' = Tail(rx)
        BY <2>1, <3>1, HeadTailProperties
    <3>2. CASE rx' = rx
        BY <2>1, <3>2
    <3> QED
        BY <1>3, <3>1, <3>2 DEF Lose
  <2>4. faults' = [faults EXCEPT !.loss = @ + 1]
      BY <1>3 DEF Lose
  <2>5. faults.loss + 1 \in Nat
      OBVIOUS
  <2>6. faults' \in [loss : Nat, damage : Nat, late : Nat]
      BY <2>4, <2>5
  <2> QED
      BY <1>3, <2>2, <2>3, <2>6 DEF Lose
<1>4. CASE Damage
  <2> DEFINE frame == [rx[1] EXCEPT !.good = FALSE]
  <2>1. rx \in Seq(RxFrame) /\ rx # <<>>
      BY <1>4 DEF Damage
  <2>2. Len(rx) \in Nat \ {0}
      BY <2>1, EmptySeq
  <2>3. 1 \in 1..Len(rx) /\ rx[1] \in RxFrame
      BY <2>1, <2>2, ElementOfSeq
  <2>4. frame \in RxFrame
      BY <2>3 DEF RxFrame
  <2>5. rx' = [rx EXCEPT ![1] = frame]
      BY <1>4 DEF Damage
  <2>6. rx' \in Seq(RxFrame)
      BY <2>1, <2>3, <2>4, <2>5, ExceptSeq
  <2>7. faults' \in [loss : Nat, damage : Nat, late : Nat]
      BY <1>4 DEF Damage
  <2> HIDE DEF frame
  <2> QED
      BY <1>4, <2>6, <2>7 DEF Damage
<1> QED
    BY <1>1, <1>2, <1>3, <1>4

(* The wait and the request in hand, for the thread. *)
LEMMA ThreadKeeps ==
    ASSUME IInv, (\E req \in Request : V3_handle_read_write(req)) \/ Thread
    PROVE  (WaitedForAtAll /\ InHand /\ Recorded)'
<1> USE DEF IInv, TypeOK, WaitedForAtAll, InHand, Recorded, CmdUnrecorded, GrpUnrecorded
<1>1. CASE \E req \in Request : V3_handle_read_write(req)
    BY <1>1 DEF V3_handle_read_write, Refuse, Accept
<1>2. CASE Send
    BY <1>2 DEF Send, At
<1>3. CASE SetWaiting
    BY <1>3 DEF SetWaiting, At
<1>4. CASE SetCmd
    BY <1>4 DEF SetCmd, At
<1>5. CASE SetGrp
    BY <1>5 DEF SetGrp, At
<1>6. CASE SetTime
    BY <1>6 DEF SetTime, At, Request
<1> QED
    BY <1>1, <1>2, <1>3, <1>4, <1>5, <1>6 DEF Thread

(* The same for everything that may come between two statements. *)
LEMMA InterruptKeeps ==
    ASSUME IInv,
           V3_handle_mcu_reply \/ V3_timeout_check \/ StartTimer \/ Elapse
           \/ GiveUp \/ McuAnswer \/ Lose \/ Damage
    PROVE  (WaitedForAtAll /\ InHand /\ Recorded)'
<1> USE DEF IInv, TypeOK, WaitedForAtAll, InHand, Recorded, CmdUnrecorded, GrpUnrecorded
<1>1. CASE V3_handle_mcu_reply
    BY <1>1 DEF V3_handle_mcu_reply, Notify
<1>2. CASE V3_timeout_check
    BY <1>2 DEF V3_timeout_check, Notify
<1>3. CASE StartTimer \/ Elapse
    BY <1>3 DEF StartTimer, Elapse
<1>4. CASE GiveUp \/ McuAnswer \/ Lose \/ Damage
    BY <1>4 DEF GiveUp, McuAnswer, Lose, Damage
<1> QED
    BY <1>1, <1>2, <1>3, <1>4

(* Every step keeps the invariant. *)
LEMMA NextIInv ==
    ASSUME IInv, [Next]_vars
    PROVE  IInv'
<1>1. CASE (\E req \in Request : V3_handle_read_write(req)) \/ Thread
    BY <1>1, ThreadTypes, ThreadKeeps DEF IInv
<1>2. CASE V3_handle_mcu_reply \/ V3_timeout_check \/ StartTimer \/ Elapse
    BY <1>2, InterruptTypes, InterruptKeeps DEF IInv
<1>3. CASE GiveUp \/ McuAnswer \/ Lose \/ Damage
    BY <1>3, OutsideTypes, InterruptKeeps DEF IInv
<1>4. CASE UNCHANGED vars
    BY <1>4 DEF vars, wires, IInv, TypeOK, WaitedForAtAll, InHand, Recorded
<1> QED
    BY <1>1, <1>2, <1>3, <1>4 DEF Next

(* The invariant holds at all times, at every statement of the thread.       *)
THEOREM Invariance == Spec => []IInv
<1>1. Init => IInv
    BY InitIInv
<1>2. IInv /\ [Next]_vars => IInv'
    BY NextIInv
<1> QED
    BY <1>1, <1>2, PTL DEF Spec

(* Type correctness of the register bridge. *)
THEOREM TypeCorrect == Spec => []TypeOK
<1>1. IInv => TypeOK
    BY DEF IInv
<1> QED
    BY <1>1, Invariance, PTL

(* The module waits as long as the application does, wherever the interrupts *)
(* fall in the thread.                                                       *)
THEOREM ModuleWaitsWithApplication == Spec => []WaitedFor
<1>1. IInv => WaitedFor
    BY DEF IInv, WaitedForAtAll, WaitedFor
<1> QED
    BY <1>1, Invariance, PTL

(* Which request a timeout names, wherever the tick falls in the thread: the *)
(* one forwarded last, and from its forwarding to the statements that record *)
(* its command and its group, the one before in their place.                 *)
THEOREM TimeoutNamesRecorded == Spec => TimeoutNames
<1>1. ASSUME IInv, [Next]_vars
      PROVE  [ V3_timeout_check =>
                 answer' = [kind |-> "no_reply",
                            cmd  |-> IF thread.pc \in CmdUnrecorded
                                     THEN last.before.cmd ELSE last.req.cmd,
                            grp  |-> IF thread.pc \in GrpUnrecorded
                                     THEN last.before.grp ELSE last.req.grp] ]_vars
    BY <1>1 DEF IInv, Recorded, V3_timeout_check, Notify
<1> QED
    BY <1>1, Invariance, PTL DEF Spec, TimeoutNames
=============================================================================
