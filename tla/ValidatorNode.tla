---------------------------- MODULE ValidatorNode ----------------------------
(***************************************************************************)
(* The validator node (offchain/src/logic/descartes_logic.rs): for each    *)
(* block it compares the state of the chain with the status of the machine *)
(* manager, feeds the manager inputs, finishes epochs and sends the claim  *)
(* or finalization transactions the phase asks for.                        *)
(*                                                                         *)
(* The chain is the life cycle of module EpochLifecycle with the claims of *)
(* the sealed epoch and its challenge period as the node times it          *)
(* (StateFold says where the contract's differs); an epoch the node takes  *)
(* for sealed by the clock is sealed.  A dispute is settled in the claim   *)
(* that raises it, as DisputeManagerImpl does.  The machine manager is a   *)
(* server outside the repository, driven through                           *)
(* offchain/src/machine/rollup_mm.rs.  Every remote call of the node is a  *)
(* step: chain and manager move in between.  A call that fails, with or    *)
(* without effect at the manager, and a panic both end the main loop, and  *)
(* the node has to be started again.                                       *)
(***************************************************************************)
EXTENDS EpochLifecycle

CONSTANTS
    InitialEpochs,  \* what initial_epoch may be configured to
    MaxRestarts,    \* bound: the validators run out, one by one
    MaxFailures     \* bound on remote calls that fail

ASSUME NodeAssumption ==
    InitialEpochs \subseteq Nat /\ MaxRestarts \in Nat /\ MaxFailures \in Nat

VARIABLES
    (* The chain, besides the life cycle. *)
    mine,        \* epochs meant by the node's claims that count for the sealed one
    others,      \* somebody else claimed for the sealed epoch
    timedOut,    \* the challenge period of the sealed epoch is over
    restarts,    \* how often a challenge period that was over started again
    (* The machine manager. *)
    mm,          \* inputs of the epochs it finished, and of its active epoch
    (* The node. *)
    initialEpoch, \* the first epoch its view keeps
    pc,          \* the next step or remote call of react, or "down"
    snap,        \* the state of the chain for the block it reacts to
    status,      \* mm_epoch_status
    request,     \* what a call sends to the manager, and the step after it
    (* History. *)
    sent,        \* claim transactions given to the transaction manager
    failures     \* remote calls that failed so far

chainVars == <<vars, mine, others, timedOut, restarts>>
nodeVars == <<initialEpoch, pc, snap, status, request, sent, failures>>
systemVars == <<chainVars, mm, nodeVars>>

NoRequest == [epoch |-> 0, first |-> 0, batch |-> <<>>, then |-> "idle"]
NoSnap == [next |-> 0, phase |-> "none", inputs |-> <<>>, mine |-> {}, open |-> 0,
           restarts |-> 0]
NoStatus == [epoch |-> 0, processed |-> 0, pending |-> 0]

\* An epoch waits for claims.
IsSealed == open = Len(finalized) + 1

Claimed == others \/ mine # {}

Phase ==
    IF ~IsSealed THEN "InputAccumulation"
    ELSE IF ~Claimed THEN "EpochSealedAwaitingFirstClaim"
    ELSE IF timedOut THEN "ConsensusTimeout"
    ELSE "AwaitingConsensus"

-----------------------------------------------------------------------------
NodeInit ==
    /\ Init
    /\ mine = {} /\ others = FALSE /\ timedOut = FALSE /\ restarts = 0
    /\ mm = [finished |-> <<>>, active |-> <<>>, processed |-> 0]
    /\ initialEpoch \in InitialEpochs
    /\ pc = "idle"
    /\ snap = NoSnap /\ status = NoStatus /\ request = NoRequest
    /\ sent = {} /\ failures = 0

-----------------------------------------------------------------------------
(* The chain: any inputs, claims and finalizations the contracts allow.    *)

ChainAdd(x) == Add(x) /\ UNCHANGED <<mine, others, timedOut, restarts, mm, nodeVars>>

ChainSeal == Seal /\ UNCHANGED <<mine, others, timedOut, restarts, mm, nodeVars>>

\* A claim may disagree with an earlier one, however late: the dispute between
\* the two is settled at once and starts the challenge period again, which
\* shows if it was over.
MayDisagree ==
    \/ UNCHANGED <<timedOut, restarts>>
    \/ /\ timedOut
       /\ restarts < MaxRestarts
       /\ restarts' = restarts + 1
       /\ timedOut' = FALSE

OtherClaims ==
    /\ IsSealed
    /\ others' = TRUE
    /\ MayDisagree
    /\ UNCHANGED <<vars, mine, mm, nodeVars>>

\* A transaction of the node is executed, perhaps late; the node sends one per
\* block until it sees its claim.  claim has no epoch number: it counts for the
\* epoch that is sealed then.
LandClaim(tx) ==
    /\ IsSealed
    /\ mine' = mine \cup {tx.epoch}
    /\ MayDisagree
    /\ UNCHANGED <<vars, others, mm, nodeVars>>

TimeOut ==
    /\ Claimed
    /\ timedOut' = TRUE
    /\ UNCHANGED <<vars, mine, others, restarts, mm, nodeVars>>

\* By finalizeEpoch after the timeout, whoever sends it, or by consensus of the
\* validators that are left, with or without this node: then it follows the
\* last claim at once.
ChainFinalize(c) ==
    /\ IsSealed
    /\ Claimed
    /\ Finalize(c)
    /\ mine' = {} /\ others' = FALSE /\ timedOut' = FALSE
    /\ UNCHANGED <<restarts, mm, nodeVars>>

-----------------------------------------------------------------------------
(* The machine manager.                                                    *)

Process ==
    /\ mm.processed < Len(mm.active)
    /\ mm' = [mm EXCEPT !.processed = @ + 1]
    /\ UNCHANGED <<chainVars, nodeVars>>

\* It accepts inputs in order and only for its active epoch.
MayEnqueue(epoch, index) == epoch = Len(mm.finished) /\ index = Len(mm.active)

MayFinish(epoch, count) ==
    epoch = Len(mm.finished) /\ count = mm.processed /\ count = Len(mm.active)

Finished == [finished |-> Append(mm.finished, mm.active), active |-> <<>>, processed |-> 0]

-----------------------------------------------------------------------------
(* The node.                                                               *)

\* react is at its next step; nothing else of the node changes but what it
\* leaves behind when it returns or dies.
Goto(step) ==
    /\ pc' = step
    /\ request' = NoRequest
    /\ snap' = IF step \in {"idle", "down"} THEN NoSnap ELSE snap
    /\ status' = IF step \in {"idle", "down"} THEN NoStatus ELSE status
    /\ UNCHANGED initialEpoch

Continue(step) == Goto(step) /\ UNCHANGED failures

\* A panic, or an answer that is an error.
GoDown == Continue("down")

\* finalized_epochs.next_epoch: epochs before the initial one are not kept.
NextEpoch == IF initialEpoch > Len(finalized) THEN initialEpoch ELSE Len(finalized)

\* main_loop receives a block and folds the state of the chain.
ReceiveBlock ==
    /\ pc = "idle"
    /\ snap' = [next |-> NextEpoch, phase |-> Phase, inputs |-> inputs,
                mine |-> mine, open |-> open, restarts |-> restarts]
    /\ pc' = "status"
    /\ UNCHANGED <<chainVars, mm, initialEpoch, status, request, sent, failures>>

GetCurrentEpochStatus ==
    /\ pc = "status"
    /\ status' = [epoch     |-> Len(mm.finished),
                  processed |-> mm.processed,
                  pending   |-> Len(mm.active) - mm.processed]
    /\ pc' = "finalized"
    /\ UNCHANGED <<chainVars, mm, initialEpoch, snap, request, sent, failures>>

InputsSentCount == status.processed + status.pending

AllProcessed(epochInputs) == status.processed = Len(epochInputs)

\* A call with these parameters is made next.
Call(name, parameters) ==
    /\ pc' = name
    /\ request' = parameters
    /\ UNCHANGED <<initialEpoch, snap, status, failures>>

\* enqueue_remaning_inputs: it skips what was sent, which panics if that is
\* more than there is.  allProcessed is the step after it returns true.
EnqueueRemainingInputs(epochInputs, allProcessed, otherwise) ==
    IF AllProcessed(epochInputs) THEN Continue(allProcessed)
    ELSE IF InputsSentCount > Len(epochInputs) THEN GoDown
    ELSE IF InputsSentCount = Len(epochInputs) THEN Continue(otherwise)
    ELSE Call("enqueue",
              [epoch |-> status.epoch,
               first |-> InputsSentCount,
               batch |-> SubSeq(epochInputs, InputsSentCount + 1, Len(epochInputs)),
               then  |-> otherwise])

FinishEpoch(then) == Call("finish", [NoRequest EXCEPT !.epoch = status.epoch,
                                                      !.first = status.processed,
                                                      !.then  = then])

WrongCatchUp ==
    /\ pc = "finalized"
    /\ IF status.epoch >= snap.next THEN Continue("phase")
       ELSE IF status.epoch < initialEpoch THEN GoDown
       ELSE IF status.pending = 0 THEN FinishEpoch("status")
       ELSE EnqueueRemainingInputs(snap.inputs[status.epoch], "idle", "idle")
    /\ UNCHANGED <<chainVars, mm, sent>>

\* enqueue_inputs_of_finalized_epochs: one epoch at a time, until the manager
\* is past those that are final.  It panics at one the view does not keep.
CatchUp ==
    /\ pc = "finalized"
    /\ IF status.epoch >= snap.next THEN Continue("phase")
       ELSE IF status.epoch < initialEpoch THEN GoDown
       ELSE IF ~AllProcessed(snap.inputs[status.epoch])
       THEN EnqueueRemainingInputs(snap.inputs[status.epoch], "idle", "idle")
       ELSE IF status.pending = 0 THEN FinishEpoch("status")
       ELSE GoDown
    /\ UNCHANGED <<chainVars, mm, sent>>

WrongReactToPhase ==
    /\ pc = "phase"
    /\ IF snap.phase = "InputAccumulation"
       THEN EnqueueRemainingInputs(snap.inputs[snap.open], "idle", "idle")
       ELSE IF status.epoch # snap.next THEN Continue("accumulating")
       ELSE IF status.pending = 0 THEN FinishEpoch("accumulating")
       ELSE EnqueueRemainingInputs(snap.inputs[snap.next], "idle", "idle")
    /\ UNCHANGED <<chainVars, mm, sent>>

\* In the accumulation phase only the current epoch is fed; otherwise the
\* sealed one first (update_sealed_epoch), until it is processed and finished.
ReactToPhase ==
    /\ pc = "phase"
    /\ IF snap.phase = "InputAccumulation"
       THEN EnqueueRemainingInputs(snap.inputs[snap.open], "idle", "idle")
       ELSE IF status.epoch # snap.next THEN Continue("accumulating")
       ELSE IF AllProcessed(snap.inputs[snap.next]) THEN FinishEpoch("accumulating")
       ELSE EnqueueRemainingInputs(snap.inputs[snap.next], "idle", "idle")
    /\ UNCHANGED <<chainVars, mm, sent>>

\* The status is the one from before the sealed epoch was finished.
EnqueueAccumulating ==
    /\ pc = "accumulating"
    /\ EnqueueRemainingInputs(snap.inputs[snap.open], "decide", "decide")
    /\ UNCHANGED <<chainVars, mm, sent>>

WrongDecide ==
    /\ pc = "decide"
    /\ IF snap.phase = "EpochSealedAwaitingFirstClaim" THEN Continue("claim")
       ELSE IF snap.phase = "ConsensusTimeout" THEN Continue("finalize")
       ELSE GoDown
    /\ UNCHANGED <<chainVars, mm, sent>>

WrongEarlyDecide ==
    /\ pc = "decide"
    /\ Continue(IF snap.mine = {} THEN "claim" ELSE "finalize")
    /\ UNCHANGED <<chainVars, mm, sent>>

\* The node claims unless it has; then it asks for the finalization if the
\* challenge period is over and has nothing to do otherwise: that case ends in
\* todo!().
Decide ==
    /\ pc = "decide"
    /\ IF snap.mine = {} THEN Continue("claim")
       ELSE IF snap.phase = "ConsensusTimeout" THEN Continue("finalize")
       ELSE GoDown
    /\ UNCHANGED <<chainVars, mm, sent>>

\* The calls that change the manager.  The manager executes one or refuses
\* it; if the answer is lost the node takes it for an error.
Execute(executed, refused, nextStep) ==
    /\ UNCHANGED <<chainVars, sent>>
    /\ \/ mm' = executed /\ ~refused /\ nextStep
       \/ mm' = executed /\ ~refused /\ failures < MaxFailures
          /\ failures' = failures + 1 /\ Goto("down")
       \/ UNCHANGED mm /\ refused /\ GoDown

\* One EnqueueInput call per input.
EnqueueInput ==
    /\ pc = "enqueue"
    /\ Execute([mm EXCEPT !.active = Append(@, Head(request.batch))],
               ~MayEnqueue(request.epoch, request.first),
               IF Len(request.batch) = 1
               THEN Continue(request.then)
               ELSE Call("enqueue", [request EXCEPT !.first = @ + 1, !.batch = Tail(@)]))

FinishEpochCall ==
    /\ pc = "finish"
    /\ Execute(Finished, ~MayFinish(request.epoch, request.first), Continue(request.then))

\* get_epoch_claim and send_claim_tx.
SendClaim ==
    /\ pc = "claim"
    /\ sent' = sent \cup {[epoch  |-> snap.next,
                           inputs |-> IF snap.next < Len(mm.finished)
                                      THEN mm.finished[snap.next + 1] ELSE mm.active]}
    /\ Continue("idle")
    /\ UNCHANGED <<chainVars, mm>>

\* send_finalize_tx: the transaction names no epoch, and anybody may send it;
\* ChainFinalize is its execution.
SendFinalize ==
    /\ pc = "finalize"
    /\ Continue("idle")
    /\ UNCHANGED <<chainVars, mm, sent>>

\* A remote call fails before it reaches the manager: the loop ends.
CallFails ==
    /\ pc \in {"status", "enqueue", "finish", "claim"}
    /\ failures < MaxFailures
    /\ failures' = failures + 1
    /\ Goto("down")
    /\ UNCHANGED <<chainVars, mm, sent>>

\* Somebody starts the node again; the manager has kept its session.
Restart ==
    /\ pc = "down"
    /\ Continue("idle")
    /\ UNCHANGED <<chainVars, mm, sent>>

-----------------------------------------------------------------------------
React ==
    \/ ReceiveBlock
    \/ GetCurrentEpochStatus
    \/ CatchUp
    \/ ReactToPhase
    \/ EnqueueAccumulating
    \/ Decide
    \/ EnqueueInput
    \/ FinishEpochCall
    \/ SendClaim
    \/ SendFinalize

NodeNext ==
    \/ \E x \in Inputs : ChainAdd(x)
    \/ ChainSeal
    \/ OtherClaims
    \/ \E tx \in sent : LandClaim(tx)
    \/ TimeOut
    \/ \E c \in Claims : ChainFinalize(c)
    \/ Process
    \/ React
    \/ CallFails
    \/ Restart

NodeSpec == NodeInit /\ [][NodeNext]_systemVars

\* The node runs, the manager computes, and somebody restarts a node that is
\* down.
NodeFairness ==
    /\ WF_systemVars(React)
    /\ WF_systemVars(Process)
    /\ WF_systemVars(Restart)

FairNodeSpec == NodeSpec /\ NodeFairness

-----------------------------------------------------------------------------
(* Properties.                                                             *)

\* The manager computes on the inputs of the chain: every epoch it finished is
\* sealed and complete, and its active epoch holds the next inputs in order,
\* without a gap or a repetition, whatever the node forgot when it went down.
MachineFollowsChain ==
    /\ Len(mm.finished) <= open
    /\ \A e \in 1 .. Len(mm.finished) : mm.finished[e] = inputs[e - 1]
    /\ LET current == inputs[Len(mm.finished)]
       IN  /\ Len(mm.active) <= Len(current)
           /\ mm.active = SubSeq(current, 1, Len(mm.active))

\* A claim is only sent for an epoch that is sealed, of a machine that has
\* finished that epoch with all its inputs.
ClaimsAreComplete ==
    \A tx \in sent : tx.epoch < open /\ tx.inputs = inputs[tx.epoch]

\* finalizeEpoch has no epoch number, and the chain has moved since the node
\* looked.  The epoch it asks to finalize is final already, or it still has a
\* claim of the node and its challenge period is over, unless a claim that
\* disagreed has started the period again since: only then does the transaction
\* come too early, and it reverts.
FinalizationsAreDue ==
    [][SendFinalize =>
          \/ snap.next < Len(finalized)
          \/ mine # {} /\ (timedOut \/ restarts > snap.restarts)]_systemVars

\* Going down costs time and nothing else: if the node is always started
\* again and not all its calls fail, no epoch stays sealed without a claim the
\* node sent for it, unless an earlier claim of its own has counted for that
\* epoch.  That is so for a node that keeps all epochs: the manager's session
\* starts with the first, and the node never gets it past one that is not kept.
SealedEpochIsClaimed ==
    []<>(initialEpoch = 0 /\ IsSealed =>
            mine # {} \/ \E tx \in sent : tx.epoch = Len(finalized))

\* "Enqueue accumulating epoch" (descartes_logic.rs:170): what the node asks
\* the manager to enqueue are inputs of the epoch it names, in their places.
RequestsNameTheirEpoch ==
    pc = "enqueue" =>
        \A i \in 1 .. Len(request.batch) :
            /\ request.first + i <= Len(inputs[request.epoch])
            /\ inputs[request.epoch][request.first + i] = request.batch[i]

\* "Check if validator local claim for claimed epoch matches the claim
\* currently standing onchain.  If yes, React finalizeEpoch().  If not, React
\* claim()" (descartes_logic.rs:311): the node only asks to finalize an epoch
\* for which it sees the claim it computed for that epoch.
FinalizesItsOwnClaim == [][SendFinalize => snap.next \in snap.mine]_systemVars

=============================================================================
