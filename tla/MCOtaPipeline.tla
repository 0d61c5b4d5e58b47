---------------------------- MODULE MCOtaPipeline ----------------------------
(* Two files of different chunks, one power cycle, a wire without faults and *)
(* without late answers (those are in MCCtrlOta).                            *)
EXTENDS OtaPipeline

CONSTANTS a, b, c

MCChunk == {a, b, c}

MCAppFile == {<<a, b>>, <<c>>}

MCNone == {}

MCInit == PipelineInit /\ image = <<c, c>>

(* What the application was last told (reply, told) influences no step and   *)
(* no property here: states that differ in it only are one.                  *)
MCView == <<image, flag, meta, ota, appFile, announced, pure, promise, torn,
            g, elapsed, pc, local, tx, rx, ctl, faults>>

MCSpec == MCInit /\ [][PipelineNext]_pipeline
=============================================================================
