----------------------------- MODULE FaultMemory -----------------------------
(***************************************************************************)
(* diagnostics/dtc_manager.cpp and freeze_frame.cpp: codes with the number *)
(* of times they occurred, and the snapshots taken for them.  Neither      *)
(* class knows the other; severities, texts and values decide nothing.     *)
(***************************************************************************)
EXTENDS Integers, Sequences, SequencesExt

CONSTANTS FaultCodes, MaxFreezeFrames,    \* MAX_FRAMES is 50 in the code
          MaxEvents                       \* bound: calls of addDTC and captureFrame

ASSUME FaultMemoryAssumption == MaxFreezeFrames \in Nat \ {0} /\ MaxEvents \in Nat

VARIABLES stored_dtcs,        \* code -> [count, pending]
          freeze_frames,
          added,              \* code -> calls of addDTC since it was last removed
          captured, events    \* frames ever captured: when, and whether cleared since

faultVars == <<stored_dtcs, freeze_frames, added, captured, events>>

FaultInit ==
  /\ stored_dtcs = [c \in {} |-> [count |-> 0, pending |-> FALSE]]
  /\ freeze_frames = <<>> /\ captured = <<>> /\ events = 0
  /\ added = [c \in FaultCodes |-> 0]

Keep(codes) == [c \in codes |-> stored_dtcs[c]]

addDTC(code, pending) ==
  /\ events < MaxEvents /\ events' = events + 1
  /\ stored_dtcs' =
       [c \in DOMAIN stored_dtcs \cup {code} |->
          IF c # code THEN stored_dtcs[c]
          ELSE [count |-> 1 + IF c \in DOMAIN stored_dtcs THEN stored_dtcs[c].count ELSE 0,
                pending |-> pending]]
  /\ added' = [added EXCEPT ![code] = @ + 1]
  /\ UNCHANGED <<freeze_frames, captured>>

Removed(codes) ==
  /\ stored_dtcs' = Keep(DOMAIN stored_dtcs \ codes)
  /\ added' = [c \in FaultCodes |-> IF c \in codes THEN 0 ELSE added[c]]
  /\ UNCHANGED <<freeze_frames, captured, events>>

removeDTC(code) == Removed({code})
clearAllDTCs == Removed(DOMAIN stored_dtcs)
clearActive == Removed({c \in DOMAIN stored_dtcs : ~stored_dtcs[c].pending})

\* Slip: clearPending removes the codes it should confirm.
ClearPendingRemoves ==
  /\ stored_dtcs' = Keep({c \in DOMAIN stored_dtcs : ~stored_dtcs[c].pending})
  /\ UNCHANGED <<added, freeze_frames, captured, events>>

\* clearPending removes nothing: a pending code becomes a confirmed one.
clearPending ==
  /\ stored_dtcs' = [c \in DOMAIN stored_dtcs |-> [stored_dtcs[c] EXCEPT !.pending = FALSE]]
  /\ UNCHANGED <<added, freeze_frames, captured, events>>

setPending(code, pending) ==
  /\ code \in DOMAIN stored_dtcs
  /\ stored_dtcs' = [stored_dtcs EXCEPT ![code].pending = pending]
  /\ UNCHANGED <<added, freeze_frames, captured, events>>

\* A frame is its code and the event that took it.
captureFrame(code) ==
  LET frame == [code |-> code, at |-> events + 1]
      room == IF Len(freeze_frames) >= MaxFreezeFrames THEN Tail(freeze_frames) ELSE freeze_frames
  IN /\ events < MaxEvents /\ events' = events + 1
     /\ freeze_frames' = Append(room, frame)
     /\ captured' = Append(captured, frame)
     /\ UNCHANGED <<stored_dtcs, added>>

\* What remove_if leaves of the first frames, for every number of them.
Spared(taken, codes) ==
  LET left[i \in 0..Len(taken)] ==
        IF i = 0 THEN <<>>
        ELSE IF taken[i].code \in codes THEN left[i - 1] ELSE Append(left[i - 1], taken[i])
  IN left

ClearFrames(codes) ==
  /\ freeze_frames' = Spared(freeze_frames, codes)[Len(freeze_frames)]
  /\ captured' = Spared(captured, codes)[Len(captured)]
  /\ UNCHANGED <<stored_dtcs, added, events>>

clearForDTC(code) == ClearFrames({code})
clearAllFrames == ClearFrames(FaultCodes)

FaultNext ==
  \/ \E c \in FaultCodes, p \in BOOLEAN : addDTC(c, p) \/ setPending(c, p)
  \/ \E c \in FaultCodes : removeDTC(c) \/ captureFrame(c) \/ clearForDTC(c)
  \/ clearAllDTCs \/ clearActive \/ clearPending \/ clearAllFrames

FaultSpec == FaultInit /\ [][FaultNext]_faultVars

\* The table remembers how often each code occurred since it was last taken
\* out, whatever was confirmed meanwhile, and no code it was not told of; the
\* snapshots are the newest of those not cleared, in order.
FaultsRemembered ==
  /\ \A c \in FaultCodes :
       added[c] = IF c \in DOMAIN stored_dtcs THEN stored_dtcs[c].count ELSE 0
  /\ IsSuffix(freeze_frames, captured)
=============================================================================
