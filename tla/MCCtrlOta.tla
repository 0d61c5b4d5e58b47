------------------------------ MODULE MCCtrlOta ------------------------------
(* The transfer to the controller on files of one to three distinct chunks.  *)
(* The EEPROM has room for one more, which holds an old chunk; the boot      *)
(* loader refuses files of one chunk.                                        *)
EXTENDS CtrlOta

CONSTANTS a, b, c

MCChunk == {a, b, c}

MCRefusedLen == {1}

MCNone == {}

MCInit == CtrlOtaInit /\ image = <<a, b, c, a>> /\ meta.len \in 1..3

MCSpec == MCInit /\ [][CtrlOtaNext]_ctrlOtaVars

MCFairSpec ==
    /\ MCSpec
    /\ WF_ctrlOtaVars(Main)
    /\ WF_ctrlOtaVars(Elapse)
    /\ WF_ctrlOtaVars(Ctrl_ota_handle_reply)
    /\ WF_ctrlOtaVars(Controller)
=============================================================================
