------------------------------- MODULE LogFiles -------------------------------
(***************************************************************************)
(* logging/can_logger.cpp: the log file, its rotation and the lines kept   *)
(* in memory.  A line is its number and has size one; file 0 is log_path_, *)
(* file i is log_path_.i.  Calls hold mutex_, so each is one step.         *)
(***************************************************************************)
EXTENDS Integers, Sequences, SequencesExt

CONSTANTS MaxSize, MaxFiles,   \* max_size_ (in lines) and max_files_
          RecentMax,           \* 1000 in the code
          LogLevels,
          MaxLines             \* bound: lines ever logged

ASSUME LogAssumption ==
  /\ MaxSize \in Nat \ {0} /\ MaxFiles \in Int /\ RecentMax \in Nat
  /\ LogLevels \subseteq Int
  /\ MaxLines \in Nat

VARIABLES level, files, log_open, log_pos, recent,
          lines, started,   \* lines that passed the level: ever, and before this process
          written           \* those that reached a file

logVars == <<level, files, log_open, log_pos, recent, lines, started, written>>

\* openFile: opened for appending, the file is created if need be, and tellp
\* is zero until something is written.  It may fail.
Opened(fs) ==
  [i \in DOMAIN fs \cup {0} |-> IF i \in DOMAIN fs THEN fs[i] ELSE <<>>]

LogInit ==
  /\ level = CHOOSE l \in LogLevels : TRUE
  /\ files = [i \in {0} |-> <<>>] /\ log_open = TRUE /\ log_pos = 0
  /\ recent = <<>> /\ lines = 0 /\ started = 0 /\ written = <<>>

setLevel(l) ==
  level' = l /\ UNCHANGED <<files, log_open, log_pos, recent, lines, started, written>>

\* std::rename replaces the target; a file that does not exist is left alone.
Rename(fs, i, j) ==
  IF i \notin DOMAIN fs THEN fs
  ELSE [k \in (DOMAIN fs \ {i}) \cup {j} |-> IF k = j THEN fs[i] ELSE fs[k]]

Generations == IF MaxFiles > 1 THEN MaxFiles ELSE 1

\* rotateIfNeeded renames the oldest file first, log_path_ last: what is there
\* once the files from i on are renamed.
Renamed(fs) ==
  LET after[i \in 0..Generations] ==
        IF i = Generations THEN fs ELSE Rename(after[i + 1], i, i + 1)
  IN after

\* Slip: the files are renamed from the newest on.
RotatedUp(fs) ==
  LET after[i \in 0..Generations] ==
        IF i = 0 THEN fs ELSE Rename(after[i - 1], i - 1, i)
  IN after[Generations]

Rotated(fs) == Renamed(fs)[0]

Remember(line) ==
  LET all == Append(recent, line)
  IN recent' = IF Len(all) > RecentMax THEN Tail(all) ELSE all

\* log and writeLog, the rotation included: after it the file may not open
\* again, and from then on lines only go to memory.
Log(l) ==
  LET line == lines + 1
  IN /\ l >= level /\ lines < MaxLines
     /\ lines' = line /\ Remember(line)
     /\ \E reopens \in BOOLEAN :
          LET rotates == log_open /\ log_pos >= MaxSize
              opens   == log_open /\ (rotates => reopens)
              base    == IF ~rotates THEN files
                         ELSE IF opens THEN Opened(Rotated(files)) ELSE Rotated(files)
          IN /\ log_open' = opens
             /\ IF opens
                  THEN /\ files' = [base EXCEPT ![0] = Append(@, line)]
                       /\ log_pos' = Len(files'[0])
                       /\ written' = Append(written, line)
                  ELSE files' = base /\ UNCHANGED <<log_pos, written>>
     /\ UNCHANGED <<level, started>>

\* The program ends and is started again, on the files it left.
LogRestart ==
  /\ \E opens \in BOOLEAN : log_open' = opens /\ files' = IF opens THEN Opened(files) ELSE files
  /\ log_pos' = 0 /\ recent' = <<>> /\ started' = lines
  /\ UNCHANGED <<level, lines, written>>

LogNext ==
  \/ \E l \in LogLevels : Log(l) \/ setLevel(l)
  \/ LogRestart

LogSpec == LogInit /\ [][LogNext]_logVars

HeldBy(fs, i) == IF i \in DOMAIN fs THEN fs[i] ELSE <<>>

\* What the files from i on hold, the oldest line first.
Contents(fs) ==
  LET from[i \in 0..Generations] ==
        IF i = Generations THEN HeldBy(fs, i) ELSE from[i + 1] \o HeldBy(fs, i)
  IN from

OnDisk == Contents(files)[0]

\* The files hold the newest lines, in order and without a gap, and nothing
\* was thrown away before max_files_ full files were newer; memory holds the
\* newest lines of this process, whether or not a file took them.
LogKeepsNewest ==
  /\ IsSuffix(OnDisk, written)
  /\ Len(OnDisk) < Len(written) => Len(OnDisk) >= Generations * MaxSize
  /\ LET kept == IF lines - started < RecentMax THEN lines - started ELSE RecentMax
     IN recent = [i \in 1..kept |-> lines - kept + i]
=============================================================================
