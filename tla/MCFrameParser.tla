--------------------------- MODULE MCFrameParser ----------------------------
(* FrameParser for TLC: bytes to base 3, an empty payload and payloads of  *)
(* header bytes, two of them with a length that needs the second digit.    *)
EXTENDS FrameParser

MCPayloads ==
  {<< >>, <<FRAME_HEADER_CLIENT>>,
   <<FRAME_HEADER_CLIENT, 0, FRAME_HEADER_SERVER>>,
   <<FRAME_HEADER_SERVER, FRAME_HEADER_CLIENT, FRAME_HEADER_CLIENT, 0>>}

MCNoise == {<< >>, <<0>>}
=============================================================================
