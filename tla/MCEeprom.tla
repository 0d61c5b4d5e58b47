------------------------------ MODULE MCEeprom ------------------------------
(* Two blocks of two pages of two bytes; operations long enough to cross a  *)
(* page, the block and both.                                                *)
EXTENDS Eeprom
=============================================================================
