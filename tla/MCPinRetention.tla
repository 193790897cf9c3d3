--------------------------- MODULE MCPinRetention ---------------------------
(* Instances of PinRetention for TLC.                                        *)
EXTENDS PinRetention

Image == {"image"}
State == {"state"}
NoItems == {}
=============================================================================
