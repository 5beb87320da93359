------------------------ MODULE SessionHandoffProofs ------------------------
(***************************************************************************)
(* Proofs about SessionHandoff for any number of successors, replacements, *)
(* addresses and commands.                                                 *)
(***************************************************************************)
EXTENDS SessionHandoff, TLAPS

(* The run that is responsible for the session.  A run that awaits its     *)
(* candidate is, until the candidate has signalled that it took over.      *)
Live(r) ==
    \/ pc[r] \in Owning \cup {"releasing", "starting", "recovering"}
    \/ pc[r] = "awaiting" /\ activation[r].kind # "active"

CoreTypeOK ==
    /\ hook \in [Tokens -> Runs \cup {NoRun}]
    /\ marker \in [Tokens -> SessionRuns \cup {NoRun}]
    /\ pc \in [Runs -> Phases]
    /\ unclaimed \in [SessionRuns -> SUBSET Tokens]
    /\ predecessor \in [Successors -> SessionRuns \cup {NoRun}]
    /\ activation = [r \in SessionRuns |-> activation[r]]

OneLive == \A r, q \in SessionRuns : Live(r) /\ Live(q) => r = q
SomeoneLive == over \/ \E r \in SessionRuns : Live(r)

(* A candidate's predecessor waits for it and has not heard of it yet.     *)
CandidateAwaited ==
    \A s \in SessionRuns : pc[s] \in Booting =>
        /\ s \in Successors
        /\ predecessor[s] \in SessionRuns
        /\ pc[predecessor[s]] = "awaiting"
        /\ activation[predecessor[s]].kind = "none"
OneCandidate == \A s, q \in SessionRuns : pc[s] \in Booting /\ pc[q] \in Booting => s = q
SignalIsAwaited == \A r \in SessionRuns : activation[r].kind # "none" => pc[r] = "awaiting"

ClaimsAreKept ==
    \A r \in SessionRuns : pc[r] \in {"claiming", "recovering"} /\ r \notin conflicts =>
        \A t \in Tokens : t \in unclaimed[r] \/ hook[t] = r
OwnerHolds == \A r \in SessionRuns : pc[r] \in Owning => \A t \in Tokens : hook[t] = r
MovingMarks == \A r \in SessionRuns : pc[r] \in Moving => \A t \in Tokens : marker[t] = r

HInv ==
    /\ CoreTypeOK
    /\ OneLive /\ SomeoneLive
    /\ CandidateAwaited /\ OneCandidate /\ SignalIsAwaited
    /\ ClaimsAreKept /\ OwnerHolds /\ MovingMarks

LEMMA RunFacts ==
    /\ Origin \in SessionRuns
    /\ Successors \subseteq SessionRuns /\ SessionRuns \subseteq Runs
    /\ Replacements \subseteq Runs
    /\ \A r \in SessionRuns : r \notin Replacements /\ r # NoRun
    /\ \A s \in Successors : s # Origin
    /\ Stable \in Tokens
BY RunsAssumption, CommandsAssumption DEF SessionRuns, Runs

LEMMA InitHolds == Init => HInv
BY RunFacts
   DEF Init, HInv, CoreTypeOK, OneLive, SomeoneLive, CandidateAwaited, OneCandidate,
       SignalIsAwaited, ClaimsAreKept, OwnerHolds, MovingMarks, Live, Phases, Owning, Moving,
       Booting, Gone

(* The phases, expanded wherever the proofs compare them.                  *)
USE DEF Phases, Owning, Moving, Booting, Gone

(* Steps that change none of the variables HInv speaks of.                 *)
LEMMA Untouched ==
    ASSUME HInv, UNCHANGED <<hook, marker, pc, unclaimed, conflicts, predecessor, activation>>
    PROVE  HInv'
<1> USE RunFacts DEF HInv, CoreTypeOK
<1>1. CoreTypeOK'
  OBVIOUS
<1>2. OneLive'
  BY DEF OneLive, Live
<1>3. SomeoneLive'
  BY DEF SomeoneLive, Live, over
<1>4. CandidateAwaited'
  BY DEF CandidateAwaited
<1>5. OneCandidate'
  BY DEF OneCandidate
<1>6. SignalIsAwaited'
  BY DEF SignalIsAwaited
<1>7. ClaimsAreKept'
  BY DEF ClaimsAreKept
<1>8. OwnerHolds'
  BY DEF OwnerHolds
<1>9. MovingMarks'
  BY DEF MovingMarks
<1> QED BY <1>1, <1>2, <1>3, <1>4, <1>5, <1>6, <1>7, <1>8, <1>9

(* An owner moves within its own phases.                                   *)
LEMMA OwnerMovesOn ==
    ASSUME HInv, NEW r \in SessionRuns, NEW phase \in Owning, pc[r] \in Owning,
           pc' = [pc EXCEPT ![r] = phase],
           UNCHANGED <<hook, marker, unclaimed, conflicts, predecessor, activation>>
    PROVE  HInv'
<1> USE RunFacts DEF HInv, CoreTypeOK
<1>1. CoreTypeOK'
  OBVIOUS
<1>2. OneLive'
  BY DEF OneLive, Live
<1>3. SomeoneLive'
  BY DEF SomeoneLive, Live, over
<1>4. CandidateAwaited'
  BY DEF CandidateAwaited
<1>5. OneCandidate'
  BY DEF OneCandidate
<1>6. SignalIsAwaited'
  BY DEF SignalIsAwaited
<1>7. ClaimsAreKept'
  BY DEF ClaimsAreKept
<1>8. OwnerHolds'
  BY DEF OwnerHolds
<1>9. MovingMarks'
  BY DEF MovingMarks
<1> QED BY <1>1, <1>2, <1>3, <1>4, <1>5, <1>6, <1>7, <1>8, <1>9

(* The owner ends or fails: nobody is responsible any more.                *)
LEMMA Finishes ==
    ASSUME HInv, NEW r \in SessionRuns, Live(r), pc[r] # "awaiting",
           NEW phase \in {"ended", "failed"}, NEW result, finish(r, phase, result),
           UNCHANGED claimVars
    PROVE  HInv'
<1> USE RunFacts DEF HInv, CoreTypeOK, finish, disposeMarkers, claimVars, without
<1>1. CoreTypeOK'
  OBVIOUS
<1>2. OneLive'
  BY DEF OneLive, Live
<1>3. SomeoneLive'
  BY DEF SomeoneLive, Live, over
<1>4. CandidateAwaited'
  BY DEF CandidateAwaited
<1>5. OneCandidate'
  BY DEF OneCandidate
<1>6. SignalIsAwaited'
  BY DEF SignalIsAwaited
<1>7. ClaimsAreKept'
  BY DEF ClaimsAreKept
<1>8. OwnerHolds'
  BY DEF OwnerHolds
<1>9. MovingMarks'
  BY DEF MovingMarks
<1> QED BY <1>1, <1>2, <1>3, <1>4, <1>5, <1>6, <1>7, <1>8, <1>9

LEMMA BeginTransfer ==
    ASSUME HInv, NEW r \in SessionRuns, beginTransfer(r)
    PROVE  HInv'
<1> USE RunFacts DEF HInv, CoreTypeOK, beginTransfer, claimMarkers, claimVars
<1>1. CoreTypeOK'
  OBVIOUS
<1>2. OneLive'
  BY DEF OneLive, Live
<1>3. SomeoneLive'
  BY DEF SomeoneLive, Live, over
<1>4. CandidateAwaited'
  BY DEF CandidateAwaited
<1>5. OneCandidate'
  BY DEF OneCandidate
<1>6. SignalIsAwaited'
  BY DEF SignalIsAwaited
<1>7. ClaimsAreKept'
  BY DEF ClaimsAreKept
<1>8. OwnerHolds'
  BY DEF OwnerHolds
<1>9. MovingMarks'
  BY DEF MovingMarks
<1> QED BY <1>1, <1>2, <1>3, <1>4, <1>5, <1>6, <1>7, <1>8, <1>9

LEMMA ReleaseHook ==
    ASSUME HInv, NEW r \in SessionRuns, NEW t \in Tokens, releaseHook(r, t)
    PROVE  HInv'
<1> USE RunFacts DEF HInv, CoreTypeOK, releaseHook, runVars, claimVars
<1>1. CoreTypeOK'
  OBVIOUS
<1>2. OneLive'
  BY DEF OneLive, Live
<1>3. SomeoneLive'
  BY DEF SomeoneLive, Live, over
<1>4. CandidateAwaited'
  BY DEF CandidateAwaited
<1>5. OneCandidate'
  BY DEF OneCandidate
<1>6. SignalIsAwaited'
  BY DEF SignalIsAwaited
<1>7. ClaimsAreKept'
  BY DEF ClaimsAreKept
<1>8. OwnerHolds'
  BY DEF OwnerHolds
<1>9. MovingMarks'
  BY DEF MovingMarks
<1> QED BY <1>1, <1>2, <1>3, <1>4, <1>5, <1>6, <1>7, <1>8, <1>9

LEMMA Released ==
    ASSUME HInv, NEW r \in SessionRuns, released(r)
    PROVE  HInv'
<1> USE RunFacts DEF HInv, CoreTypeOK, released, recover, hookVars
<1>1. CoreTypeOK'
  OBVIOUS
<1>2. OneLive'
  BY DEF OneLive, Live
<1>3. SomeoneLive'
  BY DEF SomeoneLive, Live, over
<1>4. CandidateAwaited'
  BY DEF CandidateAwaited
<1>5. OneCandidate'
  BY DEF OneCandidate
<1>6. SignalIsAwaited'
  BY DEF SignalIsAwaited
<1>7. ClaimsAreKept'
  BY DEF ClaimsAreKept
<1>8. OwnerHolds'
  BY DEF OwnerHolds
<1>9. MovingMarks'
  BY DEF MovingMarks
<1> QED BY <1>1, <1>2, <1>3, <1>4, <1>5, <1>6, <1>7, <1>8, <1>9

LEMMA StartSessionOwner ==
    ASSUME HInv, NEW r \in SessionRuns, NEW s \in Successors, startSessionOwner(r, s)
    PROVE  HInv'
<1> USE RunFacts DEF HInv, CoreTypeOK, startSessionOwner, hookVars
<1>1. CoreTypeOK'
  OBVIOUS
<1>2. OneLive'
  <2>1. Live(r) /\ ~Live(s)'
    BY DEF Live
  <2>2. ASSUME NEW q \in SessionRuns, q \notin {r, s} PROVE Live(q)' => Live(q)
    <3>1. pc'[q] = pc[q] /\ activation'[q] = activation[q]
      BY <2>2
    <3> QED BY <3>1 DEF Live
  <2> QED BY <2>1, <2>2 DEF OneLive
<1>3. SomeoneLive'
  <2>1. Live(r)'
    BY DEF Live, SignalIsAwaited
  <2> QED BY <2>1 DEF SomeoneLive
<1>4. CandidateAwaited'
  BY ZenonT(60) DEF CandidateAwaited, SignalIsAwaited
<1>5. OneCandidate'
  BY DEF OneCandidate, CandidateAwaited, OneLive, Live
<1>6. SignalIsAwaited'
  BY DEF SignalIsAwaited
<1>7. ClaimsAreKept'
  BY DEF ClaimsAreKept
<1>8. OwnerHolds'
  BY DEF OwnerHolds
<1>9. MovingMarks'
  BY DEF MovingMarks
<1> QED BY <1>1, <1>2, <1>3, <1>4, <1>5, <1>6, <1>7, <1>8, <1>9

LEMMA StartFails ==
    ASSUME HInv, NEW r \in SessionRuns, startFails(r)
    PROVE  HInv'
<1> USE RunFacts DEF HInv, CoreTypeOK, startFails, mayFailToStart, recover, hookVars
<1>1. CoreTypeOK'
  OBVIOUS
<1>2. OneLive'
  BY DEF OneLive, Live
<1>3. SomeoneLive'
  BY DEF SomeoneLive, Live, over
<1>4. CandidateAwaited'
  BY DEF CandidateAwaited
<1>5. OneCandidate'
  BY DEF OneCandidate
<1>6. SignalIsAwaited'
  BY DEF SignalIsAwaited
<1>7. ClaimsAreKept'
  BY DEF ClaimsAreKept
<1>8. OwnerHolds'
  BY DEF OwnerHolds
<1>9. MovingMarks'
  BY DEF MovingMarks
<1> QED BY <1>1, <1>2, <1>3, <1>4, <1>5, <1>6, <1>7, <1>8, <1>9

LEMMA Activated ==
    ASSUME HInv, NEW r \in SessionRuns, activated(r)
    PROVE  HInv'
<1> USE RunFacts DEF HInv, CoreTypeOK, activated, hookVars
<1>1. CoreTypeOK'
  OBVIOUS
<1>2. OneLive'
  BY DEF OneLive, Live
<1>3. SomeoneLive'
  BY DEF SomeoneLive, Live, over
<1>4. CandidateAwaited'
  BY DEF CandidateAwaited
<1>5. OneCandidate'
  BY DEF OneCandidate
<1>6. SignalIsAwaited'
  BY DEF SignalIsAwaited
<1>7. ClaimsAreKept'
  BY DEF ClaimsAreKept
<1>8. OwnerHolds'
  BY DEF OwnerHolds
<1>9. MovingMarks'
  BY DEF MovingMarks
<1> QED BY <1>1, <1>2, <1>3, <1>4, <1>5, <1>6, <1>7, <1>8, <1>9

LEMMA ActivationFailed ==
    ASSUME HInv, NEW r \in SessionRuns, activationFailed(r)
    PROVE  HInv'
<1> USE RunFacts DEF HInv, CoreTypeOK, activationFailed, recover, hookVars
<1>1. CoreTypeOK'
  OBVIOUS
<1>2. OneLive'
  BY DEF OneLive, Live
<1>3. SomeoneLive'
  BY DEF SomeoneLive, Live, over
<1>4. CandidateAwaited'
  BY DEF CandidateAwaited
<1>5. OneCandidate'
  BY DEF OneCandidate
<1>6. SignalIsAwaited'
  BY DEF SignalIsAwaited
<1>7. ClaimsAreKept'
  BY DEF ClaimsAreKept
<1>8. OwnerHolds'
  BY DEF OwnerHolds
<1>9. MovingMarks'
  BY DEF MovingMarks
<1> QED BY <1>1, <1>2, <1>3, <1>4, <1>5, <1>6, <1>7, <1>8, <1>9

LEMMA ClaimHook ==
    ASSUME HInv, NEW r \in SessionRuns, NEW t \in Tokens, claimHook(r, t)
    PROVE  HInv'
<1> USE RunFacts DEF HInv, CoreTypeOK, claimHook, runVars
<1>1. CoreTypeOK'
  OBVIOUS
<1>2. OneLive'
  BY DEF OneLive, Live
<1>3. SomeoneLive'
  BY DEF SomeoneLive, Live, over
<1>4. CandidateAwaited'
  BY DEF CandidateAwaited
<1>5. OneCandidate'
  BY DEF OneCandidate
<1>6. SignalIsAwaited'
  BY DEF SignalIsAwaited
<1>7. ClaimsAreKept'
  BY DEF ClaimsAreKept
<1>8. OwnerHolds'
  BY DEF OwnerHolds
<1>9. MovingMarks'
  BY DEF MovingMarks
<1> QED BY <1>1, <1>2, <1>3, <1>4, <1>5, <1>6, <1>7, <1>8, <1>9

LEMMA Recovered ==
    ASSUME HInv, NEW r \in SessionRuns, recovered(r)
    PROVE  HInv'
<1> USE RunFacts DEF HInv, CoreTypeOK, recovered, claimedAll, disposeMarkers, runTurn, without
<1>1. CoreTypeOK'
  OBVIOUS
<1>2. OneLive'
  BY DEF OneLive, Live
<1>3. SomeoneLive'
  BY DEF SomeoneLive, Live, over
<1>4. CandidateAwaited'
  BY DEF CandidateAwaited
<1>5. OneCandidate'
  BY DEF OneCandidate
<1>6. SignalIsAwaited'
  BY DEF SignalIsAwaited
<1>7. ClaimsAreKept'
  BY DEF ClaimsAreKept
<1>8. OwnerHolds'
  BY DEF OwnerHolds, ClaimsAreKept
<1>9. MovingMarks'
  BY DEF MovingMarks
<1> QED BY <1>1, <1>2, <1>3, <1>4, <1>5, <1>6, <1>7, <1>8, <1>9

LEMMA Leave ==
    ASSUME HInv, NEW r \in SessionRuns, leave(r)
    PROVE  HInv'
<1> USE RunFacts DEF HInv, CoreTypeOK, leave, disposeMarkers, without, claimVars
<1>1. CoreTypeOK'
  OBVIOUS
<1>2. OneLive'
  BY DEF OneLive, Live
<1>3. SomeoneLive'
  BY DEF SomeoneLive, Live, over
<1>4. CandidateAwaited'
  BY DEF CandidateAwaited
<1>5. OneCandidate'
  BY DEF OneCandidate
<1>6. SignalIsAwaited'
  BY DEF SignalIsAwaited
<1>7. ClaimsAreKept'
  BY DEF ClaimsAreKept
<1>8. OwnerHolds'
  BY DEF OwnerHolds
<1>9. MovingMarks'
  BY DEF MovingMarks
<1> QED BY <1>1, <1>2, <1>3, <1>4, <1>5, <1>6, <1>7, <1>8, <1>9

LEMMA AwaitAnchoredResult ==
    ASSUME HInv, awaitAnchoredResult
    PROVE  HInv'
<1> USE RunFacts DEF HInv, CoreTypeOK, awaitAnchoredResult, claimVars
<1>1. CoreTypeOK'
  OBVIOUS
<1>2. OneLive'
  BY DEF OneLive, Live
<1>3. SomeoneLive'
  BY DEF SomeoneLive, Live, over
<1>4. CandidateAwaited'
  BY DEF CandidateAwaited
<1>5. OneCandidate'
  BY DEF OneCandidate
<1>6. SignalIsAwaited'
  BY DEF SignalIsAwaited
<1>7. ClaimsAreKept'
  BY DEF ClaimsAreKept
<1>8. OwnerHolds'
  BY DEF OwnerHolds
<1>9. MovingMarks'
  BY DEF MovingMarks
<1> QED BY <1>1, <1>2, <1>3, <1>4, <1>5, <1>6, <1>7, <1>8, <1>9

LEMMA Validated ==
    ASSUME HInv, NEW s \in Successors, validated(s)
    PROVE  HInv'
<1> USE RunFacts DEF HInv, CoreTypeOK, validated, hookVars
<1>1. CoreTypeOK'
  OBVIOUS
<1>2. OneLive'
  BY DEF OneLive, Live
<1>3. SomeoneLive'
  BY DEF SomeoneLive, Live, over
<1>4. CandidateAwaited'
  BY DEF CandidateAwaited
<1>5. OneCandidate'
  BY DEF OneCandidate
<1>6. SignalIsAwaited'
  BY DEF SignalIsAwaited
<1>7. ClaimsAreKept'
  BY DEF ClaimsAreKept
<1>8. OwnerHolds'
  BY DEF OwnerHolds
<1>9. MovingMarks'
  BY DEF MovingMarks
<1> QED BY <1>1, <1>2, <1>3, <1>4, <1>5, <1>6, <1>7, <1>8, <1>9

LEMMA BootFails ==
    ASSUME HInv, NEW s \in Successors, bootFails(s)
    PROVE  HInv'
<1> USE RunFacts DEF HInv, CoreTypeOK, bootFails, hookVars, claimVars
<1>1. CoreTypeOK'
  OBVIOUS
<1>2. OneLive'
  BY DEF OneLive, Live
<1>3. SomeoneLive'
  BY DEF SomeoneLive, Live, over
<1>4. CandidateAwaited'
  BY DEF CandidateAwaited
<1>5. OneCandidate'
  BY DEF OneCandidate
<1>6. SignalIsAwaited'
  BY DEF SignalIsAwaited
<1>7. ClaimsAreKept'
  BY DEF ClaimsAreKept
<1>8. OwnerHolds'
  BY DEF OwnerHolds
<1>9. MovingMarks'
  BY DEF MovingMarks
<1> QED BY <1>1, <1>2, <1>3, <1>4, <1>5, <1>6, <1>7, <1>8, <1>9

LEMMA Activate ==
    ASSUME HInv, NEW s \in Successors, activate(s)
    PROVE  HInv'
<1> USE RunFacts DEF HInv, CoreTypeOK, activate, claimedAll, runTurn, hookVars
<1>1. CoreTypeOK'
  OBVIOUS
<1>2. OneLive'
  <2>1. Live(predecessor[s]) /\ ~Live(predecessor[s])'
    BY DEF Live, CandidateAwaited, SignalIsAwaited
  <2>2. \A q \in SessionRuns : Live(q)' => q = s \/ Live(q)
    BY DEF Live, CandidateAwaited
  <2> QED BY <2>1, <2>2 DEF OneLive, CandidateAwaited
<1>3. SomeoneLive'
  BY DEF SomeoneLive, Live, over
<1>4. CandidateAwaited'
  BY DEF CandidateAwaited, OneCandidate
<1>5. OneCandidate'
  BY DEF OneCandidate
<1>6. SignalIsAwaited'
  BY DEF SignalIsAwaited, CandidateAwaited
<1>7. ClaimsAreKept'
  BY DEF ClaimsAreKept
<1>8. OwnerHolds'
  BY DEF OwnerHolds, ClaimsAreKept
<1>9. MovingMarks'
  BY DEF MovingMarks
<1> QED BY <1>1, <1>2, <1>3, <1>4, <1>5, <1>6, <1>7, <1>8, <1>9

LEMMA ReportFailure ==
    ASSUME HInv, NEW s \in Successors, reportFailure(s)
    PROVE  HInv'
<1> USE RunFacts DEF HInv, CoreTypeOK, reportFailure, hookVars
<1>1. CoreTypeOK'
  OBVIOUS
<1>2. OneLive'
  <2>1. \A q \in SessionRuns : Live(q)' => Live(q)
    BY DEF Live, CandidateAwaited
  <2> QED BY <2>1 DEF OneLive
<1>3. SomeoneLive'
  BY DEF SomeoneLive, Live, over, CandidateAwaited
<1>4. CandidateAwaited'
  BY DEF CandidateAwaited, OneCandidate
<1>5. OneCandidate'
  BY DEF OneCandidate
<1>6. SignalIsAwaited'
  BY DEF SignalIsAwaited, CandidateAwaited
<1>7. ClaimsAreKept'
  BY DEF ClaimsAreKept
<1>8. OwnerHolds'
  BY DEF OwnerHolds
<1>9. MovingMarks'
  BY DEF MovingMarks
<1> QED BY <1>1, <1>2, <1>3, <1>4, <1>5, <1>6, <1>7, <1>8, <1>9

LEMMA StartReplacement ==
    ASSUME HInv, NEW c \in Commands, NEW x \in Replacements, startReplacement(c, x)
    PROVE  HInv'
<1> USE RunFacts DEF HInv, CoreTypeOK, startReplacement, hookVars, claimVars
<1>1. CoreTypeOK'
  OBVIOUS
<1>2. OneLive'
  BY DEF OneLive, Live
<1>3. SomeoneLive'
  BY DEF SomeoneLive, Live, over
<1>4. CandidateAwaited'
  BY DEF CandidateAwaited
<1>5. OneCandidate'
  BY DEF OneCandidate
<1>6. SignalIsAwaited'
  BY DEF SignalIsAwaited
<1>7. ClaimsAreKept'
  BY DEF ClaimsAreKept
<1>8. OwnerHolds'
  BY DEF OwnerHolds
<1>9. MovingMarks'
  BY DEF MovingMarks
<1> QED BY <1>1, <1>2, <1>3, <1>4, <1>5, <1>6, <1>7, <1>8, <1>9

LEMMA Contend ==
    ASSUME HInv, NEW x \in Replacements, contend(x)
    PROVE  HInv'
<1> USE RunFacts DEF HInv, CoreTypeOK, contend, claimVars
<1>1. CoreTypeOK'
  OBVIOUS
<1>2. OneLive'
  BY DEF OneLive, Live
<1>3. SomeoneLive'
  BY DEF SomeoneLive, Live, over
<1>4. CandidateAwaited'
  BY SMTT(60) DEF CandidateAwaited
<1>5. OneCandidate'
  BY DEF OneCandidate
<1>6. SignalIsAwaited'
  BY DEF SignalIsAwaited
<1>7. ClaimsAreKept'
  BY DEF ClaimsAreKept
<1>8. OwnerHolds'
  BY DEF OwnerHolds
<1>9. MovingMarks'
  BY DEF MovingMarks
<1> QED BY <1>1, <1>2, <1>3, <1>4, <1>5, <1>6, <1>7, <1>8, <1>9

LEMMA StepPreserves == HInv /\ [Next]_vars => HInv'
<1> SUFFICES ASSUME HInv, [Next]_vars PROVE HInv'
  OBVIOUS
<1>1. CASE UNCHANGED vars
  BY <1>1, Untouched DEF vars, hookVars, runVars, claimVars
<1>2. ASSUME NEW r \in SessionRuns, ownerStep(r) PROVE HInv'
  <2>1. CASE nextTurnDelivery(r)
    BY <2>1, OwnerMovesOn DEF nextTurnDelivery, hookVars, claimVars, Owning
  <2>2. CASE ignoreTimeout(r)
    BY <2>2, Untouched DEF ignoreTimeout, hookVars, runVars, claimVars
  <2>3. CASE endSession(r)
    BY <2>3, Finishes DEF endSession, Live, Owning
  <2>4. CASE endTurn(r)
    BY <2>4, OwnerMovesOn DEF endTurn, hookVars, claimVars, Owning
  <2>5. CASE retain(r)
    BY <2>5, OwnerMovesOn DEF retain, runTurn, hookVars, claimVars, Owning
  <2>6. CASE beginTransfer(r)
    BY <2>6, BeginTransfer
  <2>7. CASE markerConflict(r)
    BY <2>7, Finishes DEF markerConflict, Live, Owning
  <2>8. CASE released(r)
    BY <2>8, Released
  <2>9. CASE startFails(r)
    BY <2>9, StartFails
  <2>10. ASSUME NEW s \in Successors, startSessionOwner(r, s) PROVE HInv'
    BY <2>10, StartSessionOwner
  <2>11. CASE activated(r)
    BY <2>11, Activated
  <2>12. CASE activationFailed(r)
    BY <2>12, ActivationFailed
  <2>13. CASE recovered(r)
    BY <2>13, Recovered
  <2>14. CASE recoveryFails(r)
    BY <2>14, Finishes DEF recoveryFails, Live
  <2>15. CASE leave(r)
    BY <2>15, Leave
  <2> QED BY <1>2, <2>1, <2>2, <2>3, <2>4, <2>5, <2>6, <2>7, <2>8, <2>9, <2>10, <2>11, <2>12,
             <2>13, <2>14, <2>15 DEF ownerStep
<1>3. ASSUME NEW r \in SessionRuns, hookStep(r) PROVE HInv'
  BY <1>3, ReleaseHook, ClaimHook DEF hookStep
<1>4. ASSUME NEW s \in Successors, candidateStep(s) PROVE HInv'
  BY <1>4, Validated, BootFails, Activate, ReportFailure DEF candidateStep
<1>5. ASSUME NEW p \in Payloads, send(p) \/ ingressStep(p) PROVE HInv'
  BY <1>5, Untouched DEF send, ingressStep, resumed, hookNotFound, isHandoffInProgress,
     retryWindowPasses, hookVars, runVars, claimVars
<1> QED BY <1>1, <1>2, <1>3, <1>4, <1>5, AwaitAnchoredResult, StartReplacement, Contend DEF Next

(* Every state of a session satisfies HInv, whatever its candidates, its   *)
(* clients and the channels that replace it do.                            *)
THEOREM Invariance == Spec => []HInv
BY InitHolds, StepPreserves, PTL DEF Spec

(* At no time do two runs of a session decide for it (handoff.ts tryTransfer,
   entry.ts bootHandoffOwner): the predecessor stops deciding before its
   candidate starts and starts again only on the candidate's failure.      *)
THEOREM OneOwnerAtATime == Spec => []OneOwner
<1>1. HInv => OneOwner
  BY DEF HInv, OneLive, OneOwner, Live, Deciding
<1> QED BY <1>1, Invariance, PTL

(* An owner that takes input or runs a turn holds the hook of every        *)
(* address of the session (inbox.ts claimSessionHooks, handoff.ts recover).*)
THEOREM OwnersHoldTheirAddresses == Spec => []OwnerHoldsEveryAddress
<1>1. HInv => OwnerHoldsEveryAddress
  BY DEF HInv, OwnerHolds, OwnerHoldsEveryAddress, Held
<1> QED BY <1>1, Invariance, PTL

(* While the session lives, an address no run holds carries a marker       *)
(* (handoff.ts:108-114), so ingress that sees both at once retries.        *)
THEOREM UnownedAddressesAreMarked == Spec => []UnownedIsMarked
<1>1. HInv => UnownedIsMarked
  <2> SUFFICES ASSUME HInv, ~over, NEW t \in Tokens PROVE hook[t] # NoRun \/ marker[t] # NoRun
    BY DEF UnownedIsMarked
  <2>1. PICK r \in SessionRuns : Live(r)
    BY DEF HInv, SomeoneLive
  <2>2. CASE pc[r] \in Owning
    BY <2>2, RunFacts DEF HInv, OwnerHolds
  <2>3. CASE pc[r] \in Moving
    BY <2>3, RunFacts DEF HInv, MovingMarks
  <2> QED BY <2>1, <2>2, <2>3 DEF Live
<1> QED BY <1>1, Invariance, PTL

=============================================================================
