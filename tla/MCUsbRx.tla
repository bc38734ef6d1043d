------------------------------ MODULE MCUsbRx ------------------------------
(* Instances of UsbRx: both pipes, with every set of faults.               *)
EXTENDS UsbRx
=============================================================================
