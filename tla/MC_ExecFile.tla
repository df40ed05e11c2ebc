---------------------------- MODULE MC_ExecFile ----------------------------
(* Every combination of flag_capture and flag_background, with commands    *)
(* that do or do not call back over RPC.  MCCommandsNoCapturedCallback     *)
(* leaves out the captured commands that call back; MCCommandsAttached    *)
(* and MCCommandsDetached are the foreground and the background one.       *)
(*                                                                         *)
(* The child's descriptors (ExecChild) over a table of 12 descriptors, so *)
(* that 10 and 11 have two-digit names, and /proc/self/fd read 4 entries   *)
(* per getdents() call, so that its 15 entries take several calls and      *)
(* dir_fd can come before descriptors still to be read.                    *)
EXTENDS ExecFile

MCCommandsAll == Command
MCCommandsNoCapturedCallback ==
  {c \in Command : ~(c.capture /\ c.callback)}
MCCommandsAttached ==
  {[capture |-> TRUE, background |-> FALSE, callback |-> TRUE]}
MCCommandsDetached ==
  {[capture |-> TRUE, background |-> TRUE, callback |-> TRUE]}
MCMaxFd == 12
MCBatch == 4
=============================================================================
