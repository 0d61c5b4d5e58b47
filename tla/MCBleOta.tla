------------------------------ MODULE MCBleOta ------------------------------
(* The download stage on a small instance: files of one to three chunks over *)
(* two chunk values, an empty file and one that does not fit.                *)
EXTENDS BleOta

CONSTANTS a, b

MCChunk == {a, b}

(* <<b>> has the code of <<a, a, b>>, the pair <<a, b>>, <<b, a>> differs in  *)
(* order only; <<>> and the longest file are refused.                        *)
MCAppFile == {<<>>, <<b>>, <<a, b>>, <<b, a>>, <<a, a, b>>, <<a, b, a, b>>}
=============================================================================
