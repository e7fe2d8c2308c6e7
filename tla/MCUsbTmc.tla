------------------------------ MODULE MCUsbTmc ------------------------------
(* UsbTmc with tags that wrap around early and packets of two units.       *)
EXTENDS UsbTmc
=============================================================================
