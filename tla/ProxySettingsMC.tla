--------------------------- MODULE ProxySettingsMC ---------------------------
(***************************************************************************)
(* Handlers and files are interchangeable in ProxySettings.                 *)
(***************************************************************************)
EXTENDS ProxySettings, TLC

Symmetry == Permutations(Handler) \cup Permutations(Inode)
=============================================================================
