--------------------------- MODULE MCScannerInput ---------------------------
(***************************************************************************)
(* ScannerInput with scans that have a key of each kind, and with the keys *)
(* of a card whose payload has a hyphen (jukebox:setup:wifi-reset).        *)
(***************************************************************************)
EXTENDS ScannerInput

EveryKind == <<"shift", "CHAR", "SIGN", "release", "other", "char", "enter">>
CardWithHyphen == <<"char", "other", "char", "enter">>

=============================================================================
