------------------------------- MODULE MCUsbTx -------------------------------
(* UsbTx for TLC *)
EXTENDS UsbTx
=============================================================================
