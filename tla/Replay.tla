-------------------------------- MODULE Replay --------------------------------
(***************************************************************************)
(* logging/replay_analyzer.cpp: a list of frames, replayed by position,    *)
(* and recorded into a file.  A file is the sequence of its lines; a frame *)
(* is a model value, analyze() only counts and is left out.                *)
(***************************************************************************)
EXTENDS Integers, Sequences

CONSTANTS Frames,       \* what may be recorded
          Garbled,      \* what loadFile makes of a line of formatCANEntry
          Paths,        \* recordings
          Counts,       \* what getNextFrames is called with
          SizeMax,      \* size_t counts modulo this
          MaxFrames     \* bound on frames_ and on a recording

ASSUME ReplayAssumption ==
  Counts \subseteq Nat /\ Garbled \notin Frames /\ MaxFrames \in Nat
    /\ SizeMax \in Nat \ {0}

Lines == [kind : {"recorded", "simple"}, frame : Frames] \cup [kind : {"bad"}, frame : {Garbled}]

VARIABLES frames, replay_position, replaying,
          recording,
          target, failed_stream,       \* the file the stream writes to, and its failbit
          disk,                        \* what each recording made so far holds
          replayed,                    \* frames returned since startReplay or loadFile,
          taken_from,                  \* the position they were taken from, and whether
          wrapped,                     \* a count went past size_t since, where replayed ends
          heard, restarted             \* frames recorded since startRecording, and
                                       \* whether it was called once more

NoFile == "no file"

playVars == <<frames, replay_position, replaying, replayed, taken_from, wrapped>>
recVars  == <<recording, target, failed_stream, disk, heard, restarted>>
replayVars == <<playVars, recVars>>

ReplayInit ==
  /\ frames = <<>> /\ replay_position = 0 /\ replaying = FALSE
  /\ recording = FALSE
  /\ target = NoFile /\ failed_stream = FALSE /\ disk = [p \in {} |-> <<>>]
  /\ replayed = <<>> /\ taken_from = 0 /\ wrapped = FALSE /\ heard = <<>> /\ restarted = FALSE

\* loadFile takes date, hour and identifier of a recorded line for time,
\* identifier and direction; only the shorter format of its comment is read
\* as meant.  stoul throws on a line with fewer words.  The position stays.
Parsed(line) == IF line.kind = "simple" THEN line.frame ELSE Garbled

loadFile(lines) ==
  LET bad == {i \in DOMAIN lines : lines[i].kind = "bad"}
      n == IF bad = {} THEN Len(lines) ELSE (CHOOSE i \in bad : \A j \in bad : i <= j) - 1
  IN /\ frames' = [i \in 1..n |-> Parsed(lines[i])]
     /\ replayed' = <<>> /\ taken_from' = replay_position /\ wrapped' = FALSE
     /\ UNCHANGED <<replay_position, replaying, recVars>>

startReplay ==
  /\ replay_position' = 0 /\ replaying' = TRUE
  /\ replayed' = <<>> /\ taken_from' = 0 /\ wrapped' = FALSE
  /\ UNCHANGED <<frames, recVars>>

stopReplay ==
  /\ replaying' = FALSE
  /\ UNCHANGED <<frames, replay_position, replayed, taken_from, wrapped, recVars>>

\* Slip: the replay ends with the last frame still to come.
NextFramesShort(count) ==
  LET sum == (replay_position + count) % SizeMax
      end == IF sum < Len(frames) THEN sum ELSE Len(frames)
  IN /\ replaying
     /\ replay_position' = end
     /\ replaying' = (end + 1 < Len(frames))
     /\ wrapped' = (wrapped \/ replay_position + count >= SizeMax)
     /\ replayed' = IF wrapped' THEN replayed
                    ELSE replayed \o SubSeq(frames, replay_position + 1, end)
     /\ UNCHANGED <<frames, taken_from, recVars>>

getNextFrames(count) ==
  LET sum == (replay_position + count) % SizeMax
      end == IF sum < Len(frames) THEN sum ELSE Len(frames)
  IN /\ replaying
     /\ replay_position' = end
     /\ replaying' = (end < Len(frames))
     /\ wrapped' = (wrapped \/ replay_position + count >= SizeMax)
     /\ replayed' = IF wrapped' THEN replayed
                    ELSE replayed \o SubSeq(frames, replay_position + 1, end)
     /\ UNCHANGED <<frames, taken_from, recVars>>

\* Opening a stream that is open sets its failbit and leaves it open, so the
\* call still succeeds; otherwise the file is created empty, or not at all.
startRecording(p) ==
  /\ IF target # NoFile
       THEN /\ failed_stream' = TRUE /\ recording' = TRUE /\ restarted' = TRUE
            /\ UNCHANGED <<target, disk, heard>>
       ELSE \E opens \in BOOLEAN :
            /\ failed_stream' = ~opens
            /\ recording' = (opens \/ recording)
            /\ target' = IF opens THEN p ELSE NoFile
            /\ disk' = IF opens THEN [r \in {p} \cup DOMAIN disk |-> IF r = p THEN <<>> ELSE disk[r]]
                       ELSE disk
            /\ heard' = IF opens THEN <<>> ELSE heard
            /\ restarted' = (~opens /\ restarted)
  /\ UNCHANGED playVars

stopRecording ==
  /\ recording' = FALSE /\ target' = NoFile
  /\ UNCHANGED <<failed_stream, disk, heard, restarted, playVars>>

\* Slip: a replay under way suspends the recording.
RecordUnlessReplaying(f) ==
  /\ Len(frames) < MaxFrames /\ Len(heard) < MaxFrames
  /\ frames' = Append(frames, f)
  /\ IF recording /\ target # NoFile
       THEN /\ heard' = Append(heard, f)
            /\ disk' = IF failed_stream \/ replaying THEN disk
                       ELSE [disk EXCEPT ![target] = Append(@, [kind |-> "recorded", frame |-> f])]
       ELSE UNCHANGED <<heard, disk>>
  /\ UNCHANGED <<replay_position, replaying, replayed, taken_from, wrapped,
                 recording, target, failed_stream, restarted>>

recordFrame(f) ==
  /\ Len(frames) < MaxFrames /\ Len(heard) < MaxFrames
  /\ frames' = Append(frames, f)
  /\ IF recording /\ target # NoFile
       THEN /\ heard' = Append(heard, f)
            /\ disk' = IF failed_stream THEN disk
                       ELSE [disk EXCEPT ![target] = Append(@, [kind |-> "recorded", frame |-> f])]
       ELSE UNCHANGED <<heard, disk>>
  /\ UNCHANGED <<replay_position, replaying, replayed, taken_from, wrapped,
                 recording, target, failed_stream, restarted>>

ReplayNext ==
  \/ \E p \in Paths : startRecording(p)
  \/ \E p \in DOMAIN disk : loadFile(disk[p])
  \/ \E l \in Lines : loadFile(<<l>>)
  \/ startReplay \/ stopReplay \/ stopRecording
  \/ \E n \in Counts : getNextFrames(n)
  \/ \E f \in Frames : recordFrame(f)

ReplaySpec == ReplayInit /\ [][ReplayNext]_replayVars

\* A replay hands out the frames in order and each once, also those recorded
\* meanwhile, and ends by itself only when none is left.  It begins with the
\* first; but when loadFile replaces the frames meanwhile, it goes on at the
\* position it had, so that those of the new file before it never come.  A
\* count that together with the position does not fit size_t is excepted: the
\* position falls back, and frames come twice.
ReplayInOrder ==
  [][~wrapped' =>
       /\ \A i \in DOMAIN replayed' : /\ taken_from' + i \in DOMAIN frames'
                                      /\ replayed'[i] = frames'[taken_from' + i]
       /\ replaying /\ ~replaying' /\ replay_position' # replay_position
            => taken_from' + Len(replayed') >= Len(frames')]_replayVars

\* Unless it was started a second time without being stopped, a recording
\* holds every frame since its start, in order, and nothing else.
RecordingComplete ==
  target # NoFile /\ ~restarted =>
    [i \in DOMAIN disk[target] |-> disk[target][i].frame] = heard
=============================================================================
