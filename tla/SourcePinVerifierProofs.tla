---------------------- MODULE SourcePinVerifierProofs ----------------------
(***************************************************************************)
(* Type correctness, soundness and completeness of the source pin          *)
(* verifier, for any list of pins, any set of revisions and any number of  *)
(* changes and runs.                                                       *)
(***************************************************************************)
EXTENDS SourcePinVerifier, TLAPS

USE DEF Kinds, SourceKinds, PublicationKinds

LEMMA PinsAreNaturals == Pins \subseteq Nat /\ 1 \in Pins /\ PinCount \in Pins
BY PinCountAssumption DEF Pins

LEMMA InitTypeOK == Init => TypeOK
BY PinsAreNaturals DEF Init, TypeOK, Running, InTry, Ended, Faults

-----------------------------------------------------------------------------
(* The maintainers' steps.                                                 *)

LEMMA ReadIsBoolean ==
    \A p, k : HeadRead(p, k) \in BOOLEAN /\ WorkRead(p, k) \in BOOLEAN
BY DEF HeadRead, WorkRead, Reached

LEMMA ChangeType ==
    ASSUME TypeOK, NEW p \in Pins, NEW read \in BOOLEAN, Change(p, read)
    PROVE  /\ UNCHANGED script
           /\ disturbed' \in [Pins -> BOOLEAN]
           /\ changes' \in Nat
           /\ disturbed'[p] = (disturbed[p] \/ read)
           /\ \A q \in Pins \ {p} : disturbed'[q] = disturbed[q]
<1>1. disturbed' = [disturbed EXCEPT ![p] = @ \/ read] /\ UNCHANGED script
  BY DEF Change
<1>2. changes' \in Nat
  BY DEF Change, TypeOK
<1>3. disturbed' \in [Pins -> BOOLEAN]
  <2>1. (disturbed[p] \/ read) \in BOOLEAN
    OBVIOUS
  <2>. QED BY <1>1, <2>1, Zenon DEF TypeOK
<1>. QED BY <1>1, <1>2, <1>3 DEF TypeOK

(* A change of one file of a pin changes nothing else.                     *)
LEMMA OneFile ==
    ASSUME NEW f \in [Pins -> [Kinds -> Versions]], NEW p \in Pins, NEW k \in Kinds,
           NEW v \in Versions,
           NEW g, g = [f EXCEPT ![p][k] = v]
    PROVE  /\ g \in [Pins -> [Kinds -> Versions]]
           /\ g[p][k] = v
           /\ \A q \in Pins, j \in Kinds : q # p \/ j # k => g[q][j] = f[q][j]
OBVIOUS

(* Whatever a maintainer does, a pin that stays undisturbed keeps every    *)
(* file the run has read.                                                  *)
Frozen(p) ==
    \A k \in Kinds : /\ HeadRead(p, k) => head'[p][k] = head[p][k]
                     /\ WorkRead(p, k) => work'[p][k] = work[p][k]

LEMMA MaintainStep ==
    ASSUME TypeOK, Maintain
    PROVE  /\ TypeOK'
           /\ UNCHANGED script
           /\ \A p \in Pins : disturbed'[p] \/ (~disturbed[p] /\ Frozen(p))
<1>1. ASSUME NEW p \in Pins, PublishTracked(p)
      PROVE  /\ TypeOK'
             /\ UNCHANGED script
             /\ \A q \in Pins : disturbed'[q] \/ (~disturbed[q] /\ Frozen(q))
  <2> DEFINE read == \E k \in PublicationKinds :
                        WorkRead(p, k) /\ work'[p][k] # work[p][k]
  <2>1. Change(p, read) /\ UNCHANGED head
    BY <1>1 DEF PublishTracked
  <2>2. PICK a \in Versions, c \in Versions :
           \/ work' = [work EXCEPT ![p]["archive"] = a, ![p]["provenance"] = c]
           \/ work' = [work EXCEPT ![p]["archive"] = a]
    <3> DEFINE new == Publication([k \in SourceKinds |-> work[p][k]])
    <3>1. new["archive"] \in Versions /\ new["provenance"] \in Versions
      BY DEF Publication, TypeOK
    <3>2. \/ work' = [work EXCEPT ![p]["archive"] = new["archive"],
                                  ![p]["provenance"] = new["provenance"]]
          \/ work' = [work EXCEPT ![p]["archive"] = new["archive"]]
      BY <1>1 DEF PublishTracked
    <3> HIDE DEF new
    <3>. QED BY <3>1, <3>2
  <2>3. /\ work' \in [Pins -> [Kinds -> Versions]]
        /\ \A q \in Pins, k \in Kinds :
              q # p \/ k \in SourceKinds => work'[q][k] = work[q][k]
    BY <2>2 DEF TypeOK
  <2>4. read \in BOOLEAN
    OBVIOUS
  <2>5. /\ UNCHANGED script
        /\ disturbed' \in [Pins -> BOOLEAN]
        /\ changes' \in Nat
        /\ disturbed'[p] = (disturbed[p] \/ read)
        /\ \A q \in Pins \ {p} : disturbed'[q] = disturbed[q]
    BY <2>1, <2>4, ChangeType
  <2>6. TypeOK'
    BY <2>1, <2>3, <2>5 DEF TypeOK, script
  <2>. QED BY <2>1, <2>3, <2>5, <2>6 DEF Frozen
<1>2. ASSUME NEW p \in Pins, NEW k \in SourceKinds, NEW v \in Versions, EditSource(p, k, v)
      PROVE  /\ TypeOK'
             /\ UNCHANGED script
             /\ \A q \in Pins : disturbed'[q] \/ (~disturbed[q] /\ Frozen(q))
  <2>1. Change(p, WorkRead(p, k)) /\ UNCHANGED head
    BY <1>2 DEF EditSource
  <2>2. /\ work' \in [Pins -> [Kinds -> Versions]]
        /\ \A q \in Pins, j \in Kinds : q # p \/ j # k => work'[q][j] = work[q][j]
    BY <1>2, OneFile DEF EditSource, TypeOK
  <2>3. /\ UNCHANGED script
        /\ disturbed' \in [Pins -> BOOLEAN]
        /\ changes' \in Nat
        /\ disturbed'[p] = (disturbed[p] \/ WorkRead(p, k))
        /\ \A q \in Pins \ {p} : disturbed'[q] = disturbed[q]
    BY <2>1, ReadIsBoolean, ChangeType
  <2>4. TypeOK'
    BY <2>1, <2>2, <2>3 DEF TypeOK, script
  <2>. QED BY <2>1, <2>2, <2>3, <2>4 DEF Frozen
<1>3. ASSUME NEW p \in Pins, NEW k \in Kinds, Commit(p, k)
      PROVE  /\ TypeOK'
             /\ UNCHANGED script
             /\ \A q \in Pins : disturbed'[q] \/ (~disturbed[q] /\ Frozen(q))
  <2>1. Change(p, HeadRead(p, k)) /\ UNCHANGED work
    BY <1>3 DEF Commit
  <2>2. work[p][k] \in Versions
    BY DEF TypeOK
  <2>3. /\ head' \in [Pins -> [Kinds -> Versions]]
        /\ \A q \in Pins, j \in Kinds : q # p \/ j # k => head'[q][j] = head[q][j]
    BY <1>3, <2>2, OneFile DEF Commit, TypeOK
  <2>4. /\ UNCHANGED script
        /\ disturbed' \in [Pins -> BOOLEAN]
        /\ changes' \in Nat
        /\ disturbed'[p] = (disturbed[p] \/ HeadRead(p, k))
        /\ \A q \in Pins \ {p} : disturbed'[q] = disturbed[q]
    BY <2>1, ReadIsBoolean, ChangeType
  <2>5. TypeOK'
    BY <2>1, <2>3, <2>4 DEF TypeOK, script
  <2>. QED BY <2>1, <2>3, <2>4, <2>5 DEF Frozen
<1>4. ASSUME NEW p \in Pins, NEW k \in Kinds, Restore(p, k)
      PROVE  /\ TypeOK'
             /\ UNCHANGED script
             /\ \A q \in Pins : disturbed'[q] \/ (~disturbed[q] /\ Frozen(q))
  <2>1. Change(p, WorkRead(p, k)) /\ UNCHANGED head
    BY <1>4 DEF Restore
  <2>2. head[p][k] \in Versions
    BY DEF TypeOK
  <2>3. /\ work' \in [Pins -> [Kinds -> Versions]]
        /\ \A q \in Pins, j \in Kinds : q # p \/ j # k => work'[q][j] = work[q][j]
    BY <1>4, <2>2, OneFile DEF Restore, TypeOK
  <2>4. /\ UNCHANGED script
        /\ disturbed' \in [Pins -> BOOLEAN]
        /\ changes' \in Nat
        /\ disturbed'[p] = (disturbed[p] \/ WorkRead(p, k))
        /\ \A q \in Pins \ {p} : disturbed'[q] = disturbed[q]
    BY <2>1, ReadIsBoolean, ChangeType
  <2>5. TypeOK'
    BY <2>1, <2>3, <2>4 DEF TypeOK, script
  <2>. QED BY <2>1, <2>3, <2>4, <2>5 DEF Frozen
<1>. QED BY <1>1, <1>2, <1>3, <1>4, Zenon DEF Maintain

LEMMA MaintainIInv == IInv /\ Maintain => IInv'
<1> SUFFICES ASSUME IInv, Maintain PROVE IInv'
  OBVIOUS
<1>1. /\ TypeOK'
      /\ UNCHANGED script
      /\ \A p \in Pins : disturbed'[p] \/ (~disturbed[p] /\ Frozen(p))
  BY MaintainStep DEF IInv
<1>2. UNCHANGED <<pc, pin, clone, verdict, tempRoots, orphans, runs>>
  BY <1>1 DEF script
<1>3. Control' /\ Hygiene'
  BY <1>2 DEF IInv, Control, Hygiene
<1>4. ASSUME NEW p \in Pins, ~disturbed'[p] PROVE Evidence(p)'
  <2>1. Evidence(p) /\ Frozen(p)
    BY <1>1, <1>4 DEF IInv
  <2> USE <1>2, <2>1 DEF Frozen, HeadRead, WorkRead, Reached, PinVerified, Accepted, Running
  <2>2. (verdict = "none" /\ p = pin /\ pc \in InTry \ {"clone"} =>
            \A k \in SourceKinds : clone[k] = head[p][k])'
    BY DEF Evidence, InTry
  <2>3. (Accepted(p, {"compareArchive", "compareProvenance", "cleanup"}) =>
            PinVerified(head, p))'
    BY DEF Evidence, InTry
  <2>4. (Accepted(p, {"compareProvenance", "cleanup"}) =>
            work[p]["archive"] = head[p]["tree"])'
    BY DEF Evidence, InTry
  <2>5. (Accepted(p, {"cleanup"}) => work[p]["provenance"] = head[p]["contract"])'
    BY DEF Evidence, InTry
  <2>6. (pc = "passed" => HeadCurrent(p))'
    BY DEF Evidence, HeadCurrent, Publication, Ended
  <2>. QED BY <2>2, <2>3, <2>4, <2>5, <2>6 DEF Evidence
<1>5. ASSUME pc \in {"cleanup", "failed"}, ~disturbed'[pin] PROVE Charge'
  <2>1. pin \in Pins
    BY DEF IInv, TypeOK
  <2>2. Charge /\ Frozen(pin)
    BY <1>1, <1>5, <2>1 DEF IInv
  <2>3. pc = "cleanup" => verdict \notin {"unverified", "drift"}
    BY DEF IInv, Control
  <2>. QED BY <1>2, <1>5, <2>2, <2>3
           DEF Charge, Frozen, HeadRead, WorkRead, Reached, PinVerified, InTry, Ended, Running
<1>6. ASSUME pc = "failed", verdict = "drift"
      PROVE  (\E p \in Pins : \/ disturbed[p]
                             \/ \E k \in PublicationKinds : work[p][k] # head[p][k])'
  <2>1. PICK p \in Pins : disturbed[p] \/ \E k \in PublicationKinds : work[p][k] # head[p][k]
    BY <1>6 DEF IInv
  <2>2. disturbed'[p] \/ (~disturbed[p] /\ Frozen(p))
    BY <1>1
  <2>. QED BY <1>6, <2>1, <2>2 DEF Frozen, HeadRead, WorkRead, Ended
<1>. QED BY <1>1, <1>2, <1>3, <1>4, <1>5, <1>6 DEF IInv
-----------------------------------------------------------------------------
(* The script's steps.                                                     *)

LEMMA ScriptTypeOK ==
    ASSUME TypeOK, Hygiene, Start \/ Advance \/ Kill
    PROVE  TypeOK' /\ Hygiene'
<1> USE DEF TypeOK, Hygiene, Goto, Fail, repository, Running, InTry, Ended, Faults
<1>1. CASE Start
  BY <1>1, PinsAreNaturals DEF Start
<1>2. CASE VerifyPin
  BY <1>2 DEF VerifyPin
<1>3. CASE MakeTempRoot
  BY <1>3 DEF MakeTempRoot
<1>4. CASE CloneHead
  BY <1>4 DEF CloneHead
<1>5. CASE PublishInClone
  BY <1>5 DEF PublishInClone
<1>6. CASE CompareArchive
  BY <1>6 DEF CompareArchive
<1>7. CASE CompareProvenance
  BY <1>7 DEF CompareProvenance
<1>8. CASE RemoveTempRoot
  <2>1. tempRoots = orphans + 1 /\ tempRoots' = orphans
    BY <1>8 DEF RemoveTempRoot
  <2>2. pin' \in Pins
    BY <1>8, PinCountAssumption DEF RemoveTempRoot, Pins
  <2>. QED BY <1>8, <2>1, <2>2 DEF RemoveTempRoot
<1>9. CASE DiffHead
  BY <1>9 DEF DiffHead
<1>10. CASE ToolFailure
  BY <1>10 DEF ToolFailure
<1>11. CASE Kill
  BY <1>11 DEF Kill
<1>12. CASE CleanupFails
  BY <1>12 DEF CleanupFails
<1>. QED BY <1>1, <1>2, <1>3, <1>4, <1>5, <1>6, <1>7, <1>8, <1>9, <1>10, <1>11, <1>12 DEF Advance

(* What IInv says beyond typing and hygiene, for one step of the script:   *)
(* the repository does not change, and only Start changes "disturbed".     *)
Rest ==
    /\ Control
    /\ \A p \in Pins : disturbed[p] \/ Evidence(p)
    /\ pc \in {"cleanup", "failed"} => disturbed[pin] \/ Charge
    /\ pc = "failed" /\ verdict = "drift" =>
          \E p \in Pins : \/ disturbed[p]
                         \/ \E k \in PublicationKinds : work[p][k] # head[p][k]

LEMMA ScriptRest ==
    ASSUME IInv, Start \/ Advance \/ Kill
    PROVE  Rest'
<1> USE DEF IInv, TypeOK, Rest, Control, Evidence, Charge, Accepted, Reached, Goto, Fail,
            PinVerified, Publication, repository, Running, InTry, Ended
<1>1. CASE Start
  BY <1>1 DEF Start, Pins
<1>2. CASE VerifyPin
  BY <1>2 DEF VerifyPin
<1>3. CASE MakeTempRoot
  BY <1>3 DEF MakeTempRoot
<1>4. CASE CloneHead
  BY <1>4 DEF CloneHead
<1>5. CASE PublishInClone
  BY <1>5 DEF PublishInClone
<1>6. CASE CompareArchive
  BY <1>6 DEF CompareArchive
<1>7. CASE CompareProvenance
  BY <1>7 DEF CompareProvenance
<1>8. CASE RemoveTempRoot
  <2> USE <1>8 DEF RemoveTempRoot
  <2>1. CASE verdict # "none"
    BY <2>1
  <2>2. CASE verdict = "none" /\ pin = PinCount
    <3>1. \A p \in Pins : p < pin \/ p = pin
      BY <2>2, PinCountAssumption DEF Pins
    <3>. QED BY <2>2, <3>1
  <2>3. CASE verdict = "none" /\ pin # PinCount
    <3>1. \A p \in Pins : p < pin' <=> p < pin \/ p = pin
      BY <2>3, PinCountAssumption DEF Pins
    <3>2. \A p \in Pins : disturbed'[p] \/ Evidence(p)'
      BY <2>3, <3>1
    <3>. QED BY <2>3, <3>2
  <2>. QED BY <2>1, <2>2, <2>3
<1>9. CASE DiffHead
  BY <1>9 DEF DiffHead, HeadCurrent
<1>10. CASE ToolFailure
  BY <1>10 DEF ToolFailure
<1>11. CASE Kill
  BY <1>11 DEF Kill
<1>12. CASE CleanupFails
  BY <1>12 DEF CleanupFails
<1>. QED BY <1>1, <1>2, <1>3, <1>4, <1>5, <1>6, <1>7, <1>8, <1>9, <1>10, <1>11, <1>12 DEF Advance

-----------------------------------------------------------------------------
LEMMA InitIInv == Init => IInv
<1> SUFFICES ASSUME Init PROVE IInv
  OBVIOUS
<1>1. TypeOK
  BY InitTypeOK
<1>2. Control /\ Hygiene
  BY DEF Init, Control, Hygiene, InTry, Running
<1>3. ASSUME NEW p \in Pins PROVE Evidence(p)
  BY DEF Init, Evidence, Accepted, Reached, InTry, Running, Ended
<1>. QED BY <1>1, <1>2, <1>3 DEF Init, IInv

LEMMA StutterIInv == IInv /\ UNCHANGED vars => IInv'
BY DEF IInv, TypeOK, Control, Hygiene, Evidence, Charge, Accepted, Reached, HeadCurrent,
       PinVerified, Publication, vars, repository, script

LEMMA NextIInv == IInv /\ [Next]_vars => IInv'
<1> SUFFICES ASSUME IInv, [Next]_vars PROVE IInv'
  OBVIOUS
<1>1. CASE Maintain
  BY <1>1, MaintainIInv
<1>2. CASE Start \/ Advance \/ Kill
  <2>1. TypeOK' /\ Hygiene'
    BY <1>2, ScriptTypeOK DEF IInv
  <2>2. Rest'
    BY <1>2, ScriptRest
  <2>. QED BY <2>1, <2>2 DEF IInv, Rest
<1>3. CASE UNCHANGED vars
  BY <1>3, StutterIInv
<1>. QED BY <1>1, <1>2, <1>3 DEF Next

(* The strengthening holds in every reachable state.                       *)
THEOREM Inductive == Spec => []IInv
BY InitIInv, NextIInv, PTL DEF Spec

(* Every variable keeps its type; in particular no step removes a          *)
(* temporary root that is not there.                                       *)
THEOREM TypeCorrect == Spec => []TypeOK
<1>1. IInv => TypeOK
  BY DEF IInv
<1>. QED BY <1>1, Inductive, PTL

(* Soundness: a run of verify-source-pins.mjs that passes has established  *)
(* that HEAD's publication of every pin nobody disturbed meanwhile is      *)
(* current, whatever maintainers did to the other pins and whatever came   *)
(* before the run.                                                         *)
THEOREM Soundness == Spec => []PassIsCurrent
<1>1. IInv => PassIsCurrent
  BY DEF IInv, Evidence, PassIsCurrent
<1>. QED BY <1>1, Inductive, PTL

(* Completeness: unless a tool failed, a failed run has found a pin that   *)
(* is not clean, or one that was changed under it.                         *)
THEOREM Completeness == Spec => []FailureIsJustified
<1>1. ASSUME IInv, pc = "failed", verdict # "tool"
      PROVE  \E p \in Pins : disturbed[p] \/ ~Clean(p)
  <2>1. pin \in Pins /\ verdict \in Faults /\ (disturbed[pin] \/ Charge)
    BY <1>1 DEF IInv, Control, TypeOK
  <2>2. CASE verdict = "drift"
    BY <1>1, <2>2 DEF IInv, Clean
  <2>3. CASE verdict # "drift" /\ Charge
    BY <1>1, <2>1, <2>3 DEF Faults, Charge, Clean, HeadCurrent, PinVerified, Publication
  <2>. QED BY <2>1, <2>2, <2>3
<1>2. IInv => FailureIsJustified
  BY <1>1 DEF FailureIsJustified
<1>. QED BY <1>2, Inductive, PTL

(* A run leaves at most one clone behind, and none if it passes: whatever  *)
(* is left once no run is in its try block is the clone of a run that was  *)
(* killed or whose own removal failed.                                     *)
THEOREM NoLeftovers == Spec => []LeftoversAccountedFor
<1>1. IInv => LeftoversAccountedFor
  BY DEF IInv, TypeOK, Hygiene, LeftoversAccountedFor, InTry, Running
<1>. QED BY <1>1, Inductive, PTL
=============================================================================
