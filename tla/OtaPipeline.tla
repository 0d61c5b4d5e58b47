----------------------------- MODULE OtaPipeline -----------------------------
(***************************************************************************)
(* The two OTA stages on one EEPROM: the download (BleOta) and the         *)
(* transfer (CtrlOta).  The download runs in the Bluetooth thread whenever *)
(* the application sends something; the transfer runs in the main thread   *)
(* and the UART interrupt from the boot that found READY until it is done. *)
(* Nothing keeps the two from running together: a download may begin,      *)
(* overwrite chunks and finish while the transfer of the previous file is  *)
(* under way.                                                              *)
(***************************************************************************)
EXTENDS BleOta, CtrlOta

transfer == <<g, elapsed, pc, local, told, tx, rx, ctl, faults>>
download == <<ota, reply, appFile, announced, pure, promise, torn>>
pipeline == <<vars, transfer>>

(* First power-on: no file was ever offered. *)
PipelineInit ==
    /\ Init
    /\ g = CtrlInit(flag, meta)
    /\ elapsed = TRUE
    /\ pc = "loop"
    /\ local = NoLocals
    /\ told = "none"
    /\ tx = <<>>
    /\ rx = <<>>
    /\ ctl = [phase |-> "boot", len |-> 0, crc |-> CrcZero, buf |-> <<>>, installed |-> <<>>]
    /\ faults = [late |-> 0, frame |-> 0, damage |-> 0, reply |-> 0, boot |-> 0]

(* V3_parse_buffer hands an application frame to the download. *)
AppFrame ==
    /\ \/ \E f \in AppFile : OtaHandleStartRequest(f)
       \/ \E k \in 0..(Len(appFile) - 1), ok \in BOOLEAN : OtaHandleDataPacket(k, ok)
       \/ \E valid \in BOOLEAN : OtaPackageRetry(valid) \/ OtaEraseRetry(valid)
    /\ UNCHANGED transfer

TransferStep ==
    /\ \/ Main
       \/ Elapse
       \/ Ctrl_ota_handle_reply
       \/ Controller
       \/ CtlDamaged
       \/ LoseFrame
       \/ LoseReply
    /\ UNCHANGED download

(* One supply for both stages: a power loss restarts them together, between  *)
(* handlers, in the write of a chunk or in the write of the record, which is *)
(* then what the transfer finds.                                             *)
PowerCycled == PowerLoss /\ Restarted

PipelineNext == AppFrame \/ TransferStep \/ PowerCycled

PipelineSpec == PipelineInit /\ [][PipelineNext]_pipeline

-----------------------------------------------------------------------------
(* What ends up in the controller is, chunk for chunk, a file the            *)
(* application has announced - although the transfer reads chunks that a     *)
(* download may be overwriting, restarts with the length and code it read at *)
(* boot, and after a power loss may find a torn record: READY beside the     *)
(* length or the code of another file.  The run has one power cycle, which   *)
(* may tear the record; OnlyAnnouncedInstalled (OtaPipeline_proofs) has any  *)
(* number of power cycles that leave the record whole.                       *)
InstalledWasAnnounced == ctl.installed \in AppFile \cup {<<>>}

(* The EEPROM's promise survives the composition: READY is never seen over   *)
(* anything but a whole announced file, whatever the transfer does meanwhile.*)
OfferIsWhole == ReadyImage

(* And a file on offer is still withdrawn before another takes its place,    *)
(* now that both stages write the flag.                                      *)
OfferIsStable == Slot!Spec

(* A comment of the code (ble_ota.c:179) says that the flag is cleared when  *)
(* a download begins so that the transfer to the controller does not run at  *)
(* the same time.                                                            *)
StagesExclude ==
    (ota.state = "RECEIVING" /\ ota.file_length > 0) => g.state \in {"IDLE", "COMPLETE"}
=============================================================================
