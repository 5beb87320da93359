--------------------------- MODULE SessionHandoff ---------------------------
(***************************************************************************)
(* How an idle session moves from the run that owns it to a successor on   *)
(* another deployment (packages/eve/src/execution/session/handoff.ts,      *)
(* entry.ts, program.ts, execution/session-inbox/*.ts), while clients keep *)
(* sending and a channel may start a replacement for a session it believes *)
(* gone (channel/channel-address.ts, continuation-conflict-step.ts).       *)
(*                                                                         *)
(* A run is a durable workflow; hooks are the world's unique tokens.  An   *)
(* action is what a run does between two awaits that commit.  The input    *)
(* queue is SessionInputQueue's subject: here one command makes one turn.  *)
(***************************************************************************)
EXTENDS Naturals, Sequences, FiniteSets

CONSTANTS
    Origin,          \* the original run; anchors the public stream
    Successors,      \* runs that may be started as successors
    Replacements,    \* runs a channel may start as a new session
    NoRun,
    Tokens,          \* addresses of the session
    Stable,          \* its stable command inbox
    Commands,        \* what clients send, each once
    Resets,          \* those of them that end the session
    NoCommand,
    Deployments,
    address,         \* address a command is sent to
    acceptedBy,      \* deployment that accepted it
    Timed,           \* runs whose session timeout may fire
    WindowMayPass    \* whether a retry may outlast HANDOFF_RETRY_WINDOW_MS

SessionRuns == {Origin} \cup Successors
Runs == SessionRuns \cup Replacements
Timers == [timer: Timed]
Payloads == Commands \cup Timers

ASSUME RunsAssumption ==
    /\ Origin \notin Successors
    /\ SessionRuns \cap Replacements = {}
    /\ NoRun \notin Runs
    /\ Timed \subseteq SessionRuns
ASSUME CommandsAssumption ==
    /\ Stable \in Tokens
    /\ Resets \subseteq Commands
    /\ NoCommand \notin Commands
    /\ Commands \cap Timers = {}
    /\ address \in [Commands -> Tokens]
    /\ acceptedBy \in [Commands -> Deployments]
    /\ WindowMayPass \in BOOLEAN

VARIABLES
    hook,         \* run holding the inbox hook of each address, or NoRun
    marker,       \* run holding its handoff marker, or NoRun
    anchor,       \* anchor hook: "unclaimed", "held", a result, or "disposed"
    pc,           \* where each run is
    deploymentId, \* deployment each session run executes
    inbox,        \* payloads its hooks accepted, unread
    selected,     \* delivery each run is about to run
    eligible,     \* runs whose selection is a lone fresh delivery
    unclaimed,    \* addresses a claiming run has yet to claim
    conflicts,    \* runs that lost a claim
    restored,     \* payloads a recovering run replays
    predecessor,  \* who started each successor
    activation,   \* what each run's activation hook received
    sent,         \* how far delivery of each payload got
    accepted,     \* history: commands the session accepted, in order
    turns         \* history: commands its turns took, in order

hookVars == <<hook, marker, anchor>>
runVars == <<pc, deploymentId, selected, eligible>>
claimVars == <<unclaimed, conflicts, restored, predecessor, activation>>
historyVars == <<accepted, turns>>
vars == <<hookVars, runVars, claimVars, inbox, sent, historyVars>>

Owning == {"parked", "selected", "turn"}
Moving == {"releasing", "starting", "awaiting", "recovering"}
Booting == {"booting", "claiming", "withdrawing"}
Gone == {"anchored", "exited", "ended", "failed"}
Phases == {"unused", "leaving", "contending", "replacement"} \cup Owning \cup Moving
              \cup Booting \cup Gone
AnchorResults == {"final", "error"}

Held(r) == {t \in Tokens : hook[t] = r}
without(owned, r) == [t \in Tokens |-> IF owned[t] = r THEN NoRun ELSE owned[t]]
over == \E r \in SessionRuns : pc[r] \in {"ended", "failed"}

(* Operators whose name ends in an underscore and a word are the mistakes  *)
(* the runs must notice; no behaviour of the model uses them.              *)

(***************************************************************************)
(* The parked owner.                                                       *)
(***************************************************************************)
isDelivery_orTimer(p) == p \notin Resets
isDelivery(p) == p \in Commands \ Resets

nextTurnDelivery(r) ==
    /\ pc[r] = "parked"
    /\ inbox[r] # <<>>
    /\ isDelivery(Head(inbox[r]))
    /\ selected' = [selected EXCEPT ![r] = Head(inbox[r])]
    /\ eligible' = IF Tail(inbox[r]) = <<>> THEN eligible \cup {r} ELSE eligible \ {r}
    /\ inbox' = [inbox EXCEPT ![r] = Tail(inbox[r])]
    /\ pc' = [pc EXCEPT ![r] = "selected"]
    /\ UNCHANGED <<hookVars, deploymentId, claimVars, sent, historyVars>>

(* Only this owner's own deadline counts.                                  *)
ownDeadline_any(p, r) == p \in Timers
ownDeadline(p, r) == p \in Timers /\ p.timer = r

ignoreTimeout(r) ==
    /\ pc[r] = "parked"
    /\ inbox[r] # <<>>
    /\ Head(inbox[r]) \in Timers
    /\ ~ownDeadline(Head(inbox[r]), r)
    /\ inbox' = [inbox EXCEPT ![r] = Tail(inbox[r])]
    /\ UNCHANGED <<hookVars, runVars, claimVars, sent, historyVars>>

(* reportResultToAnchor for an owner that leaves with `result`.  A signal  *)
(* to an anchor nobody holds fails the signalling run.                     *)
reportResultToAnchor(r, result) ==
    anchor' = IF r = Origin THEN "disposed" ELSE IF anchor = "held" THEN result ELSE anchor

disposeMarkers_never(r) == UNCHANGED marker
disposeMarkers(r) == marker' = without(marker, r)

(* The owner ends: its hooks go, and what they accepted unread with them.  *)
finish(r, phase, result) ==
    /\ pc' = [pc EXCEPT ![r] = phase]
    /\ hook' = without(hook, r)
    /\ disposeMarkers(r)
    /\ inbox' = [inbox EXCEPT ![r] = <<>>]
    /\ reportResultToAnchor(r, result)

endSession(r) ==
    /\ pc[r] = "parked"
    /\ inbox[r] # <<>>
    /\ \/ /\ Head(inbox[r]) \in Resets
          /\ turns' = Append(turns, Head(inbox[r]))
       \/ ownDeadline(Head(inbox[r]), r) /\ UNCHANGED turns
    /\ finish(r, "ended", "final")
    /\ UNCHANGED <<deploymentId, selected, eligible, claimVars, sent, accepted>>

runTurn(r) ==
    /\ pc' = [pc EXCEPT ![r] = "turn"]
    /\ turns' = Append(turns, selected[r])

endTurn(r) ==
    /\ pc[r] = "turn"
    /\ pc' = [pc EXCEPT ![r] = "parked"]
    /\ selected' = [selected EXCEPT ![r] = NoCommand]
    /\ UNCHANGED <<hookVars, deploymentId, eligible, claimVars, inbox, sent, historyVars>>

(***************************************************************************)
(* tryTransfer.  `idle` is what isSessionIdleForHandoffStep finds.         *)
(***************************************************************************)
transferable(r) == r \in eligible /\ acceptedBy[selected[r]] # deploymentId[r]

(* Not transferable, not idle, or no newer deployment: the turn runs here. *)
retain(r) ==
    /\ pc[r] = "selected"
    /\ runTurn(r)
    /\ UNCHANGED <<hookVars, deploymentId, selected, eligible, claimVars, inbox, sent, accepted>>

claimMarkers_stable(r) == marker' = [marker EXCEPT ![Stable] = r]
claimMarkers(r) == marker' = [t \in Tokens |-> r]

beginTransfer(r) ==
    /\ pc[r] = "selected"
    /\ transferable(r)
    /\ \A t \in Tokens : marker[t] = NoRun
    /\ claimMarkers(r)
    /\ anchor' = IF r = Origin THEN "held" ELSE anchor
    /\ pc' = [pc EXCEPT ![r] = "releasing"]
    /\ UNCHANGED <<hook, deploymentId, selected, eligible, claimVars, inbox, sent, historyVars>>

(* A marker another run still holds makes the claim throw, and the error   *)
(* leaves tryTransfer before its try block.                                *)
markerConflict(r) ==
    /\ pc[r] = "selected"
    /\ transferable(r)
    /\ \E t \in Tokens : marker[t] # NoRun
    /\ finish(r, "failed", "error")
    /\ UNCHANGED <<deploymentId, selected, eligible, claimVars, sent, historyVars>>

releaseHook(r, t) ==
    /\ pc[r] \in {"releasing", "withdrawing"}
    /\ hook[t] = r
    /\ hook' = [hook EXCEPT ![t] = NoRun]
    /\ UNCHANGED <<marker, anchor, runVars, claimVars, inbox, sent, historyVars>>

recover(r, payloads) ==
    /\ restored' = [restored EXCEPT ![r] = payloads]
    /\ unclaimed' = [unclaimed EXCEPT ![r] = Tokens]
    /\ pc' = [pc EXCEPT ![r] = "recovering"]

drained_always(r) == TRUE
drained(r) == inbox[r] = <<>>

released(r) ==
    /\ pc[r] = "releasing"
    /\ Held(r) = {}
    /\ inbox' = [inbox EXCEPT ![r] = <<>>]
    /\ IF drained(r)
       THEN /\ pc' = [pc EXCEPT ![r] = "starting"]
            /\ UNCHANGED <<restored, unclaimed>>
       ELSE recover(r, inbox[r])
    /\ UNCHANGED <<hookVars, deploymentId, selected, eligible, conflicts, predecessor,
                   activation, sent, historyVars>>

startSessionOwner(r, s) ==
    /\ pc[r] = "starting"
    /\ s \in Successors
    /\ pc[s] = "unused"
    /\ pc' = [pc EXCEPT ![r] = "awaiting", ![s] = "booting"]
    /\ predecessor' = [predecessor EXCEPT ![s] = r]
    /\ deploymentId' = [deploymentId EXCEPT ![s] = acceptedBy[selected[r]]]
    /\ selected' = [selected EXCEPT ![s] = selected[r]]
    /\ UNCHANGED <<hookVars, eligible, unclaimed, conflicts, restored, activation, inbox,
                   sent, historyVars>>

mayFailToStart_ambiguously(r) == pc[r] \in {"starting", "awaiting"}
mayFailToStart(r) == pc[r] = "starting"

startFails(r) ==
    /\ mayFailToStart(r)
    /\ recover(r, <<>>)
    /\ UNCHANGED <<hookVars, deploymentId, selected, eligible, conflicts, predecessor,
                   activation, inbox, sent, historyVars>>

activated(r) ==
    /\ pc[r] = "awaiting"
    /\ activation[r].kind = "active"
    /\ activation' = [activation EXCEPT ![r] = [kind |-> "none"]]
    /\ pc' = [pc EXCEPT ![r] = "leaving"]
    /\ UNCHANGED <<hookVars, deploymentId, selected, eligible, unclaimed, conflicts, restored,
                   predecessor, inbox, sent, historyVars>>

activationFailed(r) ==
    /\ pc[r] = "awaiting"
    /\ activation[r].kind = "failed"
    /\ activation' = [activation EXCEPT ![r] = [kind |-> "none"]]
    /\ recover(r, activation[r].payloads)
    /\ UNCHANGED <<hookVars, deploymentId, selected, eligible, conflicts, predecessor, inbox,
                   sent, historyVars>>

claimedAll_orLost(r) == unclaimed[r] = {}
claimedAll(r) == unclaimed[r] = {} /\ r \notin conflicts
replay_late(r) == inbox[r] \o restored[r]
replay(r) == restored[r] \o inbox[r]

claimHook(r, t) ==
    /\ pc[r] \in {"claiming", "recovering"}
    /\ t \in unclaimed[r]
    /\ unclaimed' = [unclaimed EXCEPT ![r] = @ \ {t}]
    /\ IF hook[t] = NoRun
       THEN hook' = [hook EXCEPT ![t] = r] /\ UNCHANGED conflicts
       ELSE conflicts' = conflicts \cup {r} /\ UNCHANGED hook
    /\ UNCHANGED <<marker, anchor, runVars, restored, predecessor, activation, inbox, sent,
                   historyVars>>

recovered(r) ==
    /\ pc[r] = "recovering"
    /\ claimedAll(r)
    /\ inbox' = [inbox EXCEPT ![r] = replay(r)]
    /\ restored' = [restored EXCEPT ![r] = <<>>]
    /\ disposeMarkers(r)
    /\ runTurn(r)
    /\ UNCHANGED <<hook, anchor, deploymentId, selected, eligible, unclaimed, conflicts,
                   predecessor, activation, sent, accepted>>

recoveryFails(r) ==
    /\ pc[r] = "recovering"
    /\ unclaimed[r] = {}
    /\ r \in conflicts
    /\ finish(r, "failed", "error")
    /\ UNCHANGED <<deploymentId, selected, eligible, claimVars, sent, historyVars>>

(* The old owner exits.  A run that is not the original reports a result   *)
(* to the anchor on this path too: `return` inside `try` runs `finally`.   *)
leave(r) ==
    /\ pc[r] = "leaving"
    /\ disposeMarkers(r)
    /\ IF r = Origin
       THEN pc' = [pc EXCEPT ![r] = "anchored"] /\ UNCHANGED anchor
       ELSE pc' = [pc EXCEPT ![r] = "exited"] /\ reportResultToAnchor(r, "error")
    /\ UNCHANGED <<hook, deploymentId, selected, eligible, claimVars, inbox, sent, historyVars>>

awaitAnchoredResult ==
    /\ pc[Origin] = "anchored"
    /\ anchor \in AnchorResults
    /\ anchor' = "disposed"
    /\ pc' = [pc EXCEPT ![Origin] = "exited"]
    /\ UNCHANGED <<hook, marker, deploymentId, selected, eligible, claimVars, inbox, sent,
                   historyVars>>

(***************************************************************************)
(* bootHandoffOwner.                                                       *)
(***************************************************************************)
validated(s) ==
    /\ pc[s] = "booting"
    /\ pc' = [pc EXCEPT ![s] = "claiming"]
    /\ unclaimed' = [unclaimed EXCEPT ![s] = Tokens]
    /\ UNCHANGED <<hookVars, deploymentId, selected, eligible, conflicts, restored,
                   predecessor, activation, inbox, sent, historyVars>>

bootFails(s) ==
    /\ \/ pc[s] = "booting"
       \/ pc[s] = "claiming" /\ unclaimed[s] = {} /\ s \in conflicts
    /\ pc' = [pc EXCEPT ![s] = "withdrawing"]
    /\ UNCHANGED <<hookVars, deploymentId, selected, eligible, claimVars, inbox, sent,
                   historyVars>>

activate(s) ==
    /\ pc[s] = "claiming"
    /\ claimedAll(s)
    /\ activation' = [activation EXCEPT ![predecessor[s]] = [kind |-> "active"]]
    /\ runTurn(s)
    /\ UNCHANGED <<hookVars, deploymentId, selected, eligible, unclaimed, conflicts, restored,
                   predecessor, inbox, sent, accepted>>

reportFailure(s) ==
    /\ pc[s] = "withdrawing"
    /\ Held(s) = {}
    /\ activation' = [activation EXCEPT ![predecessor[s]] =
                         [kind |-> "failed", payloads |-> inbox[s]]]
    /\ inbox' = [inbox EXCEPT ![s] = <<>>]
    /\ pc' = [pc EXCEPT ![s] = "exited"]
    /\ UNCHANGED <<hookVars, deploymentId, selected, eligible, unclaimed, conflicts, restored,
                   predecessor, sent, historyVars>>

(***************************************************************************)
(* resumeSessionInbox, and the channel that starts a replacement.          *)
(***************************************************************************)
addressOf(p) == IF p \in Commands THEN address[p] ELSE Stable

(* A run's timer runs from its activation until it leaves the session.     *)
TimerRuns(r) == pc[r] \in Owning \cup Moving \cup {"leaving"}

send(p) ==
    /\ sent[p] = "new"
    /\ p \in Timers => TimerRuns(p.timer)
    /\ sent' = [sent EXCEPT ![p] = "resuming"]
    /\ UNCHANGED <<hookVars, runVars, claimVars, inbox, historyVars>>

resumed(p) ==
    LET owner == hook[addressOf(p)] IN
    /\ sent[p] = "resuming"
    /\ owner # NoRun
    /\ inbox' = [inbox EXCEPT ![owner] = Append(@, p)]
    /\ accepted' = IF p \in Commands /\ owner \in SessionRuns THEN Append(accepted, p) ELSE accepted
    /\ sent' = [sent EXCEPT ![p] = "accepted"]
    /\ UNCHANGED <<hookVars, runVars, claimVars, turns>>

hookNotFound(p) ==
    /\ sent[p] = "resuming"
    /\ hook[addressOf(p)] = NoRun
    /\ sent' = [sent EXCEPT ![p] = "checking"]
    /\ UNCHANGED <<hookVars, runVars, claimVars, inbox, historyVars>>

isHandoffInProgress(p) ==
    /\ sent[p] = "checking"
    /\ sent' = [sent EXCEPT ![p] = IF marker[addressOf(p)] # NoRun THEN "resuming" ELSE "gone"]
    /\ UNCHANGED <<hookVars, runVars, claimVars, inbox, historyVars>>

retryWindowPasses(p) ==
    /\ WindowMayPass
    /\ sent[p] = "checking"
    /\ sent' = [sent EXCEPT ![p] = "gone"]
    /\ UNCHANGED <<hookVars, runVars, claimVars, inbox, historyVars>>

startReplacement(c, x) ==
    /\ sent[c] = "gone"
    /\ address[c] # Stable
    /\ pc[x] = "unused"
    /\ pc' = [pc EXCEPT ![x] = "contending"]
    /\ selected' = [selected EXCEPT ![x] = c]
    /\ sent' = [sent EXCEPT ![c] = "contending"]
    /\ UNCHANGED <<hookVars, deploymentId, eligible, claimVars, inbox, historyVars>>

(* bootInitialOwner: a candidate that loses the alias hands its command to *)
(* the owner and exits.                                                    *)
contend(x) ==
    LET c == selected[x] IN
    /\ pc[x] = "contending"
    /\ IF hook[address[c]] = NoRun
       THEN /\ hook' = [hook EXCEPT ![address[c]] = x]
            /\ pc' = [pc EXCEPT ![x] = "replacement"]
            /\ sent' = [sent EXCEPT ![c] = "replaced"]
       ELSE /\ pc' = [pc EXCEPT ![x] = "exited"]
            /\ sent' = [sent EXCEPT ![c] = "resuming"]
            /\ UNCHANGED hook
    /\ UNCHANGED <<marker, anchor, deploymentId, selected, eligible, claimVars, inbox,
                   historyVars>>

Init ==
    /\ hook = [t \in Tokens |-> Origin]
    /\ marker = [t \in Tokens |-> NoRun]
    /\ anchor = "unclaimed"
    /\ pc = [r \in Runs |-> IF r = Origin THEN "parked" ELSE "unused"]
    /\ deploymentId \in {[r \in SessionRuns |-> d] : d \in Deployments}
    /\ inbox = [r \in Runs |-> <<>>]
    /\ selected = [r \in Runs |-> NoCommand]
    /\ eligible = {}
    /\ unclaimed = [r \in SessionRuns |-> {}]
    /\ conflicts = {}
    /\ restored = [r \in SessionRuns |-> <<>>]
    /\ predecessor = [s \in Successors |-> NoRun]
    /\ activation = [r \in SessionRuns |-> [kind |-> "none"]]
    /\ sent = [p \in Payloads |-> "new"]
    /\ accepted = <<>>
    /\ turns = <<>>

ownerStep(r) ==
    \/ nextTurnDelivery(r) \/ ignoreTimeout(r) \/ endSession(r) \/ endTurn(r)
    \/ retain(r) \/ beginTransfer(r) \/ markerConflict(r)
    \/ released(r) \/ startFails(r) \/ \E s \in Successors : startSessionOwner(r, s)
    \/ activated(r) \/ activationFailed(r) \/ recovered(r) \/ recoveryFails(r) \/ leave(r)
candidateStep(s) == validated(s) \/ bootFails(s) \/ activate(s) \/ reportFailure(s)
hookStep(r) == \E t \in Tokens : releaseHook(r, t) \/ claimHook(r, t)
ingressStep(p) == resumed(p) \/ hookNotFound(p) \/ isHandoffInProgress(p) \/ retryWindowPasses(p)

Next ==
    \/ \E r \in SessionRuns : ownerStep(r) \/ hookStep(r)
    \/ \E s \in Successors : candidateStep(s)
    \/ awaitAnchoredResult
    \/ \E p \in Payloads : send(p) \/ ingressStep(p)
    \/ \E c \in Commands, x \in Replacements : startReplacement(c, x)
    \/ \E x \in Replacements : contend(x)

Spec == Init /\ [][Next]_vars

(***************************************************************************)
(* Properties.                                                             *)
(***************************************************************************)
Payload == [kind: {"none", "active"}]
              \cup [kind: {"failed"}, payloads: Seq(Payloads)]
TypeOK ==
    /\ hook \in [Tokens -> Runs \cup {NoRun}]
    /\ marker \in [Tokens -> SessionRuns \cup {NoRun}]
    /\ anchor \in {"unclaimed", "held", "disposed"} \cup AnchorResults
    /\ pc \in [Runs -> Phases]
    /\ deploymentId \in [SessionRuns -> Deployments]
    /\ inbox \in [Runs -> Seq(Payloads)]
    /\ selected \in [Runs -> Commands \cup {NoCommand}]
    /\ eligible \in SUBSET SessionRuns
    /\ unclaimed \in [SessionRuns -> SUBSET Tokens]
    /\ conflicts \in SUBSET SessionRuns
    /\ restored \in [SessionRuns -> Seq(Payloads)]
    /\ predecessor \in [Successors -> SessionRuns \cup {NoRun}]
    /\ activation \in [SessionRuns -> Payload]
    /\ sent \in [Payloads -> {"new", "resuming", "checking", "accepted", "gone",
                              "contending", "replaced"}]
    /\ accepted \in Seq(Commands)
    /\ turns \in Seq(Commands)

(* No two runs ever decide for the session at once, however a candidate    *)
(* fails and however late its predecessor learns of it.                    *)
Deciding(r) == pc[r] \in Owning \cup {"releasing", "starting", "recovering"}
OneOwner == \A r, q \in SessionRuns : Deciding(r) /\ Deciding(q) => r = q

(* A run takes input only while every address of the session reaches it.   *)
OwnerHoldsEveryAddress == \A r \in SessionRuns : pc[r] \in Owning => Held(r) = Tokens

(* An address of a live session that no run holds is marked, or ingress    *)
(* would take the session for gone (resume.ts:33-38).                      *)
UnownedIsMarked == over \/ \A t \in Tokens : hook[t] # NoRun \/ marker[t] # NoRun

(* Commands are taken once each, in the order they were accepted, across   *)
(* releases, failed candidates and recoveries.                             *)
Mailbox == INSTANCE SessionMailbox WITH taken <- turns
ImplementsMailbox == Mailbox!Spec

(* A timeout ends the session only if it is the one its last owner set.    *)
Occurs(c, seq) == \E i \in 1 .. Len(seq) : seq[i] = c
EndsByOwnTimeout ==
    \A r \in SessionRuns : pc[r] = "ended" =>
        \/ \E c \in Resets : Occurs(c, turns)
        \/ r \in Timed /\ sent[[timer |-> r]] = "accepted"

(* handoff.ts:108-110: markers let a concurrent channel delivery retry     *)
(* "instead of creating a replacement session on the released alias".      *)
LiveSessionNeverGone == (\E c \in Commands : sent[c] = "gone") => over

(* Every accepted command is eventually taken, unless the session ends.    *)
AcceptedIsTaken == \A c \in Commands : Occurs(c, accepted) ~> (Occurs(c, turns) \/ over)

(* Retrying a delivery in the gap of a handoff comes to an end.            *)
DeliverySettles ==
    \A p \in Payloads : sent[p] \in {"resuming", "checking"} ~>
                         sent[p] \notin {"resuming", "checking"}

(* The workflow engine runs every run on, and a client keeps retrying.     *)
Fairness ==
    /\ \A r \in SessionRuns : WF_vars(ownerStep(r)) /\ WF_vars(hookStep(r))
    /\ \A s \in Successors : WF_vars(candidateStep(s))
    /\ \A p \in Payloads : WF_vars(ingressStep(p))
FairSpec == Spec /\ Fairness
=============================================================================
