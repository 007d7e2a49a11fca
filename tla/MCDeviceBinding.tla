-------------------------- MODULE MCDeviceBinding --------------------------
(***************************************************************************)
(* Two Devices and two inventory entries.  First both Devices fit the same *)
(* entry, later each may fit one of its own.                               *)
(***************************************************************************)
EXTENDS DeviceBinding

CONSTANTS d1, d2, e1, e2

Shared == {<<d1, e1>>, <<d2, e1>>}

Apart == {<<d1, e2>>, <<d2, e1>>}

MCInventories == {Shared, Apart}
=============================================================================
