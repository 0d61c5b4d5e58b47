------------------------------ MODULE OtaEeprom ------------------------------
(***************************************************************************)
(* The EEPROM as the two stages of the update share it: chunks from        *)
(* address 0, and on the last page the record - a flag byte, the length    *)
(* and the code of the file - that the download (BleOta) leaves to the     *)
(* transfer (CtrlOta).  Each stage has its own actions on it.              *)
(***************************************************************************)
EXTENDS OtaFile

CONSTANT Capacity   \* chunks that fit below CTRL_OTA_FLAG_ADDR

READY == "READY"    \* CTRL_OTA_FLAG_READY; any other byte reads as "not ready"
IDLE  == "IDLE"

VARIABLES
    image,      \* below CTRL_OTA_FLAG_ADDR
    flag,       \* the byte at CTRL_OTA_FLAG_ADDR
    meta        \* the file length and file code after the flag
=============================================================================
