---------------------------- MODULE MC_UiDownload ----------------------------
(***************************************************************************)
(* Model-checking instance of UiDownload: the peer list, Download's info  *)
(* element and the file list as the menu's entries, in the menu's order;  *)
(* three files; window heights 0 (the unsigned wrap of height - 1), 1 (a  *)
(* page of no entries) and 3 (one entry); two core::View objects, so that *)
(* the list window can move from one view's signal to the other's.        *)
(***************************************************************************)
EXTENDS UiDownload

MCSubDisplays == <<"peer_list", "info", "file_list">>
MCFiles == 3
MCHeights == {0, 1, 3}

CONSTANTS main, name

MCViewNames == {main, name}
=============================================================================
