------------------------------ MODULE ExecChild ------------------------------
(***************************************************************************)
(* The child side of rpc::ExecFile::execute and close_all_fds             *)
(* (src/src/rpc/exec_file.cc): which descriptors the executed command      *)
(* inherits from the client.                                               *)
(*                                                                         *)
(* A process's descriptor table is a function from descriptor numbers to   *)
(* the file each one refers to.  The child first points 0, 1 and 2 at      *)
(* /dev/null, the capture pipe or the log, then closes every other         *)
(* descriptor by reading /proc/self/fd in getdents() batches and parsing   *)
(* each entry's decimal name.  ExecFile.tla assumes the outcome: the       *)
(* pipe's write end reaches the command only as its standard output, so    *)
(* the parent's read() sees EOF once the command exits.                    *)
(***************************************************************************)
EXTENDS Naturals, Sequences, SequencesExt

CONSTANTS
  MaxFd,   \* the descriptor limit (RLIMIT_NOFILE): descriptors 0..MaxFd-1
  Batch    \* /proc/self/fd entries one getdents() call fits in dir_buf

ASSUME MaxFd \in Nat /\ MaxFd > 3 /\ Batch \in Nat \ {0}

Fds == 0..(MaxFd - 1)
Closed == "closed"
Files == {"tty", "sock", "log", "pipeR", "pipeW", "devnull", "procdir"}

(* open() and pipe() return the lowest free descriptor; -1 (EMFILE) when  *)
(* the table is full.                                                      *)
LowestFree(t) ==
  LET free == {f \in Fds : t[f] = Closed}
  IN  IF free = {} THEN -1 ELSE Min(free)

OpenFile(t, fd, file) == IF fd = -1 THEN t ELSE [t EXCEPT ![fd] = file]

CloseFd(t, fd) == IF fd \in Fds THEN [t EXCEPT ![fd] = Closed] ELSE t

(* dup2(a, b): b is closed and made to refer to a's file; a no-op if a = b. *)
Dup2(t, a, b) == IF a = b THEN t ELSE [t EXCEPT ![b] = t[a]]

(* pipe(pipeFd) in the parent, for flag_capture: the read end takes the   *)
(* lowest free descriptor and the write end the next one.                  *)
Pipe(t) ==
  LET r == LowestFree(t)
      w == LowestFree(OpenFile(t, r, "pipeR"))
  IN  [fds |-> OpenFile(OpenFile(t, r, "pipeR"), w, "pipeW"), w |-> w]

(* Lines 141-161: stdin from /dev/null (closed if it cannot be opened),    *)
(* stdout to the pipe, the log or /dev/null, stderr to the log or         *)
(* /dev/null; a stream with nowhere to go is closed.  nullOk says whether  *)
(* /dev/null exists; with a full table open() fails anyway.                *)
ChildStdio(t, logFd, capture, pipeW, nullOk) ==
  LET devNull == IF nullOk THEN LowestFree(t) ELSE -1
      t0 == OpenFile(t, devNull, "devnull")
      t1 == IF devNull # -1 THEN Dup2(t0, devNull, 0) ELSE CloseFd(t0, 0)
      t2 == CASE capture       -> Dup2(t1, pipeW, 1)
              [] logFd # -1    -> Dup2(t1, logFd, 1)
              [] devNull # -1  -> Dup2(t1, devNull, 1)
              [] OTHER         -> CloseFd(t1, 1)
  IN  CASE logFd # -1   -> Dup2(t2, logFd, 2)
        [] devNull # -1 -> Dup2(t2, devNull, 2)
        [] OTHER        -> CloseFd(t2, 2)

(* An entry's name is a sequence of characters, each its ASCII code; the  *)
(* kernel names descriptor f by its decimal digits.                        *)
Dot == 46
Digit == 48..57    \* '0'..'9'

RECURSIVE Decimal(_)
Decimal(n) == IF n < 10 THEN <<48 + n>> ELSE Decimal(n \div 10) \o <<48 + (n % 10)>>

(* Lines 61-62: x = x * 10 + *s - '0' while *s is a digit; the result      *)
(* is x and the characters left after the digits.                          *)
RECURSIVE Atoi(_, _)
Atoi(s, x) ==
  IF s # <<>> /\ s[1] \in Digit THEN Atoi(Tail(s), x * 10 + (s[1] - 48)) ELSE <<x, s>>

(* Mutation of lines 58-66: the test x != dir_fd dropped.                  *)
CloseEntryAnyFd(dir, t, name) ==
  LET x == Atoi(name, 0)
  IN  IF name[1] \in Digit /\ x[2] = <<>> /\ x[1] > 2 THEN CloseFd(t, x[1]) ELSE t

(* Lines 56-66, one directory entry: "." and ".." are skipped; a name that *)
(* is all digits and names a descriptor above 2 other than dir_fd is       *)
(* closed.                                                                 *)
CloseEntry(dir, t, name) ==
  LET x == Atoi(name, 0)
  IN  IF name[1] \in Digit /\ x[2] = <<>> /\ x[1] > 2 /\ x[1] # dir
        THEN CloseFd(t, x[1]) ELSE t

(* Lines 47-68: getdents() hands over the next Batch entries, or fails     *)
(* (r <= 0) at the end of the directory or once dir_fd has been closed;   *)
(* each batch already in dir_buf is walked to its end.  Entries continue   *)
(* by descriptor number, so closing listed descriptors does not change     *)
(* the ones still to come.                                                 *)
RECURSIVE Scan(_, _, _)
Scan(dir, t, es) ==
  IF es = <<>> \/ t[dir] = Closed THEN t
  ELSE LET n == IF Batch < Len(es) THEN Batch ELSE Len(es)
       IN  Scan(dir,
                FoldLeft(LAMBDA tt, e : CloseEntry(dir, tt, e), t, SubSeq(es, 1, n)),
                SubSeq(es, n + 1, Len(es)))

(* close_all_fds (lines 35-71): open /proc/self/fd, which lists ".", ".."  *)
(* and every open descriptor in ascending order, scan it, close dir_fd.    *)
(* If the open fails nothing is closed.                                    *)
CloseAllFds(t) ==
  LET dir == LowestFree(t)
      t0  == OpenFile(t, dir, "procdir")
      open == SelectSeq([i \in 1..MaxFd |-> i - 1], LAMBDA f : t0[f] # Closed)
      es  == <<<<Dot>>, <<Dot, Dot>>>> \o [i \in DOMAIN open |-> Decimal(open[i])]
  IN  IF dir = -1 THEN t ELSE CloseFd(Scan(dir, t0, es), dir)

(* Lines 121-166: the process that calls execvp.  With flag_background it  *)
(* is the grandchild, which runs with m_logFd = -1 and flag_capture        *)
(* cleared; its parent exits at once and takes its copies with it.         *)
CommandFds(p) ==
  LET bg == p.background
  IN  CloseAllFds(ChildStdio(p.fds, IF bg THEN -1 ELSE p.logFd,
                             p.capture /\ ~bg, p.pipeW, p.nullOk))

-----------------------------------------------------------------------------
(* The client's table at fork().  0 and 1 are the terminal the curses      *)
(* display draws on; 2 is the terminal or closed; every other open         *)
(* descriptor is a socket or file of the client, one of them perhaps the   *)
(* log (m_logFd).  Nearly empty tables and tables within three of the      *)
(* limit are enumerated.  With flag_capture, pipe() (lines 113-114) must   *)
(* find two free descriptors, or execute() throws before fork().           *)
Parent(S, log, capture, background, nullOk) ==
  LET t == [f \in Fds |-> CASE f = log                 -> "log"
                           [] f \in {0, 1} \cup ({2} \cap S) -> "tty"
                           [] f \in S                   -> "sock"
                           [] OTHER                     -> Closed]
      pp == IF capture THEN Pipe(t) ELSE [fds |-> t, w |-> -1]
  IN  [fds |-> pp.fds, pipeW |-> pp.w, logFd |-> log, capture |-> capture,
       background |-> background, nullOk |-> nullOk]

Parents ==
  LET Rest  == 2..(MaxFd - 1)
      Opens == {S \in SUBSET Rest : Cardinality(S) <= 2 \/ Cardinality(Rest \ S) <= 3}
  IN  {p \in UNION {{Parent(S, log, c, b, n) : log \in {-1} \cup S,
                      c \in BOOLEAN, b \in BOOLEAN, n \in BOOLEAN} : S \in Opens} :
         p.capture => p.pipeW # -1}

(* What the command is meant to hold: stdin on /dev/null; stdout on the    *)
(* pipe for a captured foreground command, else on the log, else on       *)
(* /dev/null; stderr on the log, else on /dev/null; a stream whose target  *)
(* cannot be opened closed; nothing above 2.                               *)
Expected(p) ==
  LET bg   == p.background
      log  == IF bg THEN -1 ELSE p.logFd
      null == IF p.nullOk /\ \E f \in Fds : p.fds[f] = Closed THEN "devnull" ELSE Closed
      out  == CASE p.capture /\ ~bg -> "pipeW" [] log # -1 -> "log" [] OTHER -> null
      err  == IF log # -1 THEN "log" ELSE null
  IN  [f \in Fds |-> CASE f = 0 -> null [] f = 1 -> out [] f = 2 -> err
                      [] OTHER -> Closed]

(* /dev/null takes the last free descriptor, so open("/proc/self/fd")     *)
(* fails with EMFILE and close_all_fds closes nothing.                     *)
DevNullTakesLastFd(p) ==
  p.nullOk /\ Cardinality({f \in Fds : p.fds[f] = Closed}) = 1

(* For each setting of flag_capture and flag_background: whether, for     *)
(* every parent table other than those of DevNullTakesLastFd, the command  *)
(* holds exactly what Expected says.                                        *)
StdioOnly ==
  [c \in BOOLEAN, b \in BOOLEAN |->
     \A p \in Parents :
       p.capture = c /\ p.background = b /\ ~DevNullTakesLastFd(p)
         => CommandFds(p) = Expected(p)]

(* For each setting of flag_capture and flag_background: whether the       *)
(* command still holds the capture pipe's write end when it runs, over     *)
(* every parent table.  A captured foreground command holds it as stdout;  *)
(* a background one only when close_all_fds closed nothing.                *)
PipeKept ==
  [c \in BOOLEAN, b \in BOOLEAN |->
     {\E f \in Fds : CommandFds(p)[f] = "pipeW" :
        p \in {q \in Parents : q.capture = c /\ q.background = b}}]
=============================================================================
