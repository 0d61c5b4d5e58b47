------------------------------ MODULE MCUartRx ------------------------------
(***************************************************************************)
(* The receive path with register replies of 6 bytes instead of 20.  The   *)
(* controller's frames carry the bytes of the register head: as a boot     *)
(* loader reply, in the data of a register reply at its front and at its   *)
(* end, in V2 replies, one of them the head itself.  The application's     *)
(* frames carry the bytes of both heads as data; the noise is an unknown   *)
(* command of either protocol, a frame with a wrong end, a download        *)
(* request with a wrong length.                                            *)
(***************************************************************************)
EXTENDS UartRx

Frames(reply, cmd, regs, word) ==
    [reply |-> reply, cmd |-> cmd, regs |-> regs, word |-> word]

MCContent == <<
    Frames(\h53, READ_CTRL,  <<\h53, \h35, \h62>>, <<\h53, \h61>>),
    Frames(\h62, WRITE_CTRL, <<\h61, \h53, \h35>>, <<\h53, \h35>>),
    Frames(\h63, READ_CTRL,  <<\h53, \h35, \h0F>>, <<\h35, \h53>>) >>

To(handler, bytes) == [to |-> handler, data |-> bytes]

MCAppFrames == {
    To("Handle_app_cmd_and_reply", <<\h55, 1, \h53, \h35, \h0F, \h55, \hAA>>),
    To("Handle_app_cmd_and_reply", <<\h55, 3, \hAA>>),
    To("V3_handle_handshake",      <<\h53, \h35, \h01, \h55, \h02>>),
    To("V3_handle_read_write",     <<\h53, \h35, \h00, \h55, \h03, \hAA>>),
    To("OtaHandleStartRequest",    <<\h53, \h35, \h06, 6, \h53, \h35>>),
    To("OtaHandleDataPacket",      <<\h53, \h35, \h08, 5, \h53>>),
    To("OtaHandleDataPacket",      <<\h53, \h35, \h08, 7, \h53, \h35, \h08>>),
    To("OtaPackageRetry",          <<\h53, \h35, \h0B, 4>>),
    To("OtaEraseRetry",            <<\h53, \h35, \h0C, 4>>)}

MCNoise == {
    To("none", <<\h00>>),
    To("none", <<\h55, \h09>>),
    To("none", <<\h55, \h02, \h00>>),
    To("none", <<\h53, \h35, \h22, \h07>>),
    To("none", <<\h53, \h35, \h06, \h07>>),
    To("none", <<\h53, \h35, \h08, \h04>>)}
=============================================================================
