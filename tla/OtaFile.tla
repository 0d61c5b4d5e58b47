------------------------------ MODULE OtaFile ------------------------------
(***************************************************************************)
(* Firmware files as the two OTA stages see them.  A file is a sequence of *)
(* chunks, one chunk being the payload of one packet (at most 200 bytes on *)
(* either link); what a chunk holds is left abstract.                      *)
(*                                                                         *)
(* The file check code of OtaFileCrcUpdate / OtaFileCrcFinalize is the     *)
(* exclusive-or of the 32-bit words of the file.  200 is a multiple of 4,  *)
(* so words never straddle two chunks and the code of a file is the        *)
(* exclusive-or of the codes of its chunks.  Taking chunk codes as         *)
(* independent generators, that sum is the set of chunks that occur an odd *)
(* number of times: as in the code, it ignores the order of the chunks and *)
(* two equal chunks cancel out.                                            *)
(***************************************************************************)
EXTENDS Integers, Sequences, FiniteSets

CONSTANT Chunk      \* the values one chunk can take

(* ^= of the running code with the code of one chunk. *)
CrcUpdate(crc, chunk) == IF chunk \in crc THEN crc \ {chunk} ELSE crc \cup {chunk}

(* The code of the first n chunks of s: those that occur an odd number of   *)
(* times.                                                                   *)
CrcOfPrefix(s, n) == {c \in Chunk : Cardinality({i \in 1..n : s[i] = c}) % 2 = 1}

CrcOf(s) == CrcOfPrefix(s, Len(s))

(* The code before any chunk: OtaFileCrcReset. *)
CrcZero == {}
=============================================================================
