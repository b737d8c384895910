-------------------------- MODULE MCCaptureToReport --------------------------
(* Small instances of CaptureToReport; every constant is a plain value.    *)
EXTENDS CaptureToReport
=============================================================================
