--------------------------- MODULE MCCapturedOutput ---------------------------
(* Four tests of one worker: all but the third are captured, so that one    *)
(* captured test follows another and one follows a test without capture.    *)
EXTENDS CapturedOutput

MCCaptured == {1, 2, 4}

MCMaxLines == <<0, 2, 1, 1>>
=============================================================================
