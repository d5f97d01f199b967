------------------------------ MODULE MCUsbTcp ------------------------------
(* Three units from the module in transfers of one or two, and a write of  *)
(* two units and one of one.                                               *)
EXTENDS UsbTcp

MCWrites == <<2, 1>>
MCReads == { [max |-> 1, min |-> 1], [max |-> 2, min |-> 2], [max |-> 2, min |-> 1] }
MCFaultSets == { {}, {"stall"}, {"idle", "close"} }
=============================================================================
