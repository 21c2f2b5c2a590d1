----------------------- MODULE MCDeviceAssignment -----------------------
(* Every plan of the tests, up to three RHI calls, room for one            *)
(* measurement and one recorded region of device memory.                   *)
EXTENDS DeviceAssignment
==========================================================================
