--------------------------- MODULE MCSysfsWriter ----------------------------
(* SysfsWriter on small instances, for TLC.                                *)
EXTENDS SysfsWriter
=============================================================================
