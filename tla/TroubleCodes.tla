---------------------------- MODULE TroubleCodes ----------------------------
(***************************************************************************)
(* The trouble codes of the selected brand (manufacturers/base.cpp) and    *)
(* the three threads of main.cpp that change them: the CAN receive thread  *)
(* (mode 04), the REST thread (profile and clear routes) and the           *)
(* simulation loop (fault injection, which stays off unless whoever builds *)
(* the program enables the injector and gives it codes).                   *)
(*                                                                         *)
(* Nothing locks dtcs_.  A step is one loop over the vector, one clear or  *)
(* one push_back: setDTC is a search and, when it misses, a push_back of   *)
(* its own; POST /profile takes many such steps, and the other threads run *)
(* between any two.  Two loops that overlap are a data race and outside    *)
(* this module.                                                            *)
(***************************************************************************)
EXTENDS Naturals, Sequences, Brands

CONSTANTS BrandsUsed,               \* the brands a behaviour may select
          Codes, NoCode,            \* 16-bit trouble codes
          Profiles, Normal,         \* vehicle profiles; Normal is "normal"
          ActiveDtcs,               \* ActiveDtcs[p]: the codes profile p sets, in order
          Faults                    \* codes the host gave the fault injector, none in main

ASSUME TroubleCodesAssumption ==
  /\ BrandsUsed \subseteq Brands
  /\ Normal \in Profiles
  /\ ActiveDtcs \in [Profiles -> Seq(Codes)]
  /\ ActiveDtcs[Normal] = <<>>
  /\ Faults \subseteq Codes /\ NoCode \notin Codes

VARIABLES brand,
          dtcs,                     \* sequence of [code, pending]
          impl_profile,             \* current profile of the brand's own manager
          main_profile,             \* current profile of main's manager
          todo,                     \* codes POST /profile has still to set
          rest,                     \* where the REST thread is in POST /profile
          fault,                    \* code the injector is about to append, or NoCode
          posted,                   \* some POST /profile has been accepted
          cleared,                  \* the codes were cleared since the profile was applied
          injected,                 \* codes set by the injector since the last clear
          raced                     \* codes that both threads were about to append

restVars  == <<main_profile, impl_profile, todo, rest, posted>>
ghostVars == <<cleared, injected, raced>>
vars == <<brand, dtcs, restVars, fault, ghostVars>>

CodesOf(list) == {list[i].code : i \in DOMAIN list}
ProfileCodes(p) == {ActiveDtcs[p][i] : i \in DOMAIN ActiveDtcs[p]}

Entry(c, p) == [code |-> c, pending |-> p]

\* Slip: the search finds nothing.
NeverListed(c) == FALSE

\* The two halves of setDTC.  The search changes the first entry of the code
\* in place; when it misses, the code is appended.
Listed(c) == c \in CodesOf(dtcs)

MarkFirst(c, p) ==
  dtcs' = [i \in 1 .. Len(dtcs) |->
             IF dtcs[i].code = c /\ \A j \in 1 .. (i - 1) : dtcs[j].code # c
               THEN Entry(c, p) ELSE dtcs[i]]

PushBack(c, p) == dtcs' = Append(dtcs, Entry(c, p))

\* The thread has missed the code while the other was about to append "other".
NoteRace(c, other) == raced' = IF c = other THEN raced \cup {c} ELSE raced

\* The brand's manager starts at "normal", main's at the profile of
\* config.json; unknown names fall back to "normal".
Init ==
  /\ brand \in BrandsUsed
  /\ dtcs = <<>> /\ impl_profile = Normal /\ main_profile \in Profiles
  /\ todo = <<>> /\ rest = "idle" /\ posted = FALSE /\ fault = NoCode
  /\ cleared = FALSE /\ injected = {} /\ raced = {}

-----------------------------------------------------------------------------
\* POST /profile: main's manager first (an unknown name ends here and changes
\* nothing), then the brand's.
PostProfile(p) ==
  /\ rest = "idle"
  /\ rest' = "setProfile" /\ main_profile' = p /\ posted' = TRUE
  /\ UNCHANGED <<brand, dtcs, impl_profile, todo, fault, ghostVars>>

SetProfile ==
  /\ rest = "setProfile"
  /\ rest' = "erase" /\ impl_profile' = main_profile
  /\ UNCHANGED <<brand, dtcs, main_profile, todo, posted, fault, ghostVars>>

\* Slip: the whole list goes.
EraseEverything ==
  /\ rest = "erase"
  /\ dtcs' = <<>>
  /\ todo' = ActiveDtcs[impl_profile]
  /\ rest' = "set" /\ cleared' = FALSE
  /\ UNCHANGED <<brand, main_profile, impl_profile, posted, fault, injected, raced>>

\* applyProfileDTCs erases the codes of the profile it is about to set; the
\* other entries, at the positions "kept", keep their order.
EraseProfileCodes ==
  /\ rest = "erase"
  /\ \E n \in 0 .. Len(dtcs) : \E kept \in [1 .. n -> 1 .. Len(dtcs)] :
       /\ \A i, j \in 1 .. n : i < j => kept[i] < kept[j]
       /\ {kept[i] : i \in 1 .. n} =
            {k \in 1 .. Len(dtcs) : dtcs[k].code \notin ProfileCodes(impl_profile)}
       /\ dtcs' = [i \in 1 .. n |-> dtcs[kept[i]]]
  /\ todo' = ActiveDtcs[impl_profile]
  /\ rest' = "set" /\ cleared' = FALSE
  /\ UNCHANGED <<brand, main_profile, impl_profile, posted, fault, injected, raced>>

\* The codes of the profile in turn, each by a setDTC.
FindProfileCode ==
  /\ rest = "set"
  /\ IF todo = <<>>
       THEN rest' = "idle" /\ UNCHANGED <<dtcs, todo, raced>>
       ELSE IF Listed(Head(todo))
         THEN MarkFirst(Head(todo), FALSE) /\ todo' = Tail(todo) /\ UNCHANGED <<rest, raced>>
         ELSE rest' = "push" /\ NoteRace(Head(todo), fault) /\ UNCHANGED <<dtcs, todo>>
  /\ UNCHANGED <<brand, main_profile, impl_profile, posted, fault, cleared, injected>>

\* Slip: the loop is left after the first code that had to be appended.
PushFirstCodeOnly ==
  /\ rest = "push" /\ rest' = "idle"
  /\ PushBack(Head(todo), FALSE) /\ todo' = Tail(todo)
  /\ UNCHANGED <<brand, main_profile, impl_profile, posted, fault, ghostVars>>

PushProfileCode ==
  /\ rest = "push" /\ rest' = "set"
  /\ PushBack(Head(todo), FALSE) /\ todo' = Tail(todo)
  /\ UNCHANGED <<brand, main_profile, impl_profile, posted, fault, ghostVars>>

clearDTCs == dtcs' = <<>> /\ cleared' = TRUE /\ injected' = {} /\ UNCHANGED raced

\* POST /dtcs/clear, by the same thread as POST /profile.
PostClear == rest = "idle" /\ clearDTCs /\ UNCHANGED <<brand, restVars, fault>>

\* Mode 04 of a brand whose table has it, at any moment.
Mode04 == Handler(brand, "04") = "04" /\ clearDTCs /\ UNCHANGED <<brand, restVars, fault>>

\* The loop's setDTC, pending; the two halves as above.
FindFault(c) ==
  /\ fault = NoCode
  /\ IF Listed(c)
       THEN MarkFirst(c, TRUE) /\ injected' = injected \cup {c} /\ UNCHANGED <<fault, raced>>
       ELSE /\ fault' = c /\ UNCHANGED <<dtcs, injected>>
            /\ NoteRace(c, IF rest = "push" THEN Head(todo) ELSE NoCode)
  /\ UNCHANGED <<brand, restVars, cleared>>

PushFault ==
  /\ fault # NoCode /\ fault' = NoCode
  /\ PushBack(fault, TRUE) /\ injected' = injected \cup {fault}
  /\ UNCHANGED <<brand, restVars, cleared, raced>>

Next ==
  \/ \E p \in Profiles : PostProfile(p)
  \/ SetProfile \/ EraseProfileCodes \/ FindProfileCode \/ PushProfileCode
  \/ PostClear \/ Mode04
  \/ \E c \in Faults : FindFault(c)
  \/ PushFault

Spec == Init /\ [][Next]_vars

-----------------------------------------------------------------------------
TypeOK ==
  /\ brand \in Brands
  /\ dtcs \in Seq([code : Codes, pending : BOOLEAN])
  /\ impl_profile \in Profiles /\ main_profile \in Profiles
  /\ todo \in Seq(Codes) /\ (rest \notin {"set", "push"} => todo = <<>>)
  /\ rest \in {"idle", "setProfile", "erase", "set", "push"} /\ (rest = "push" => todo # <<>>)
  /\ fault \in Faults \cup {NoCode}
  /\ posted \in BOOLEAN /\ cleared \in BOOLEAN /\ injected \subseteq Faults
  /\ raced \subseteq Codes

\* A code is listed once, so that the count a report starts with is the number
\* of faults, unless both threads looked for it before either appended it; and
\* then it is listed twice, never more, whatever is cleared, erased and set
\* around it (setDTC's unlocked search and push_back, base.cpp 335-345).
OneEntryUnlessRaced ==
  /\ \A i, j \in DOMAIN dtcs : i < j /\ dtcs[i].code = dtcs[j].code => dtcs[i].code \in raced
  /\ \A i, j, k \in DOMAIN dtcs :
       i < j /\ j < k => dtcs[i].code # dtcs[j].code \/ dtcs[j].code # dtcs[k].code

\* Once POST /profile is done, both managers hold the profile and, unless a
\* tester has cleared them since it was being applied, all of the profile's
\* codes are listed (main.cpp 234-251, applyProfileDTCs).
ProfileInForce ==
  rest = "idle" /\ posted =>
    /\ impl_profile = main_profile
    /\ ~cleared => ProfileCodes(impl_profile) \subseteq CodesOf(dtcs)

\* Short of a clear, the only code that is ever taken off the list is one of
\* the profile just selected, which is about to be set again.
OthersKept ==
  [][\/ dtcs' = <<>> /\ cleared'
     \/ CodesOf(dtcs) \subseteq CodesOf(dtcs') \cup ProfileCodes(impl_profile)]_vars

\* Applying a profile takes the codes of the profile before it off the list
\* and keeps the ones that were set by hand.
OldProfileGoes ==
  rest = "idle" => CodesOf(dtcs) \subseteq ProfileCodes(impl_profile) \cup injected
=============================================================================
