------------------------- MODULE ValidatorNodeProofs -------------------------
(***************************************************************************)
(* Theorems about the validator node for any number of epochs, inputs,     *)
(* claims, failing calls and restarts.                                     *)
(*                                                                         *)
(* The node acts on what it read some steps ago: the chain's state for the *)
(* block, and the manager's status.  NodeInv says how old that may be at   *)
(* each step of react, and which requests the manager can therefore still  *)
(* accept.                                                                 *)
(***************************************************************************)
EXTENDS ValidatorNode, EpochLifecycleProofs

\* The epoch the machine manager is at.
ActiveEpoch == Len(mm.finished)

\* A sequence that continues another one.
Extends(longer, s) == Len(s) <= Len(longer) /\ \A i \in 1 .. Len(s) : longer[i] = s[i]

\* The manager computes on the inputs of the chain.
ManagerInv ==
    /\ mm \in [finished : Seq(Seq(Inputs)), active : Seq(Inputs), processed : Nat]
    /\ mm.processed <= Len(mm.active)
    /\ ActiveEpoch <= open
    /\ \A e \in 1 .. ActiveEpoch : mm.finished[e] = inputs[e - 1]
    /\ Extends(inputs[ActiveEpoch], mm.active)

\* What the node has claimed is the truth about sealed epochs.  (The restarts of
\* challenge periods are counted.)
ClaimsInv ==
    /\ \A tx \in sent : tx.epoch \in Epochs /\ tx.epoch < open /\ tx.inputs = inputs[tx.epoch]
    /\ restarts \in Nat

\* What the node knows of the chain is a state the chain was in.
SnapInv ==
    pc \notin {"idle", "down"} =>
        /\ snap.inputs \in [Epochs -> Seq(Inputs)] /\ snap.open \in Epochs /\ snap.next \in Nat
        /\ \A e \in Epochs : Extends(inputs[e], snap.inputs[e])
        /\ \A e \in Epochs : e < snap.open => snap.inputs[e] = inputs[e]
        /\ snap.open <= open /\ ActiveEpoch <= snap.open
        /\ initialEpoch <= snap.next /\ snap.restarts \in Nat /\ snap.restarts <= restarts
        /\ initialEpoch = 0 =>
              /\ snap.next <= Len(finalized) /\ snap.open \in {snap.next, snap.next + 1}
              /\ snap.phase = "InputAccumulation" <=> snap.open = snap.next
              /\ snap.mine # {} => snap.next < Len(finalized) \/ mine # {}
              /\ snap.phase = "ConsensusTimeout" =>
                    snap.next < Len(finalized) \/ timedOut \/ restarts > snap.restarts

\* What it knows of the manager: the status is the manager's, until an epoch is
\* finished, an input enqueued or another one processed.
StatusInv ==
    pc \notin {"idle", "down", "status"} =>
        /\ status \in [epoch : Nat, processed : Nat, pending : Nat]
        /\ status.epoch <= ActiveEpoch
        /\ pc \in {"finalized", "phase"} => status.epoch = ActiveEpoch
        /\ pc \in {"finalized", "phase", "accumulating"} /\ status.epoch = ActiveEpoch =>
              InputsSentCount = Len(mm.active)
        /\ pc = "phase" => snap.next <= status.epoch

\* The sealed epoch of the node's view is finished.
SealedIsFinished == snap.open = snap.next + 1 /\ ActiveEpoch = snap.open

\* A node that does not keep the first epoch never gets its manager past it.
StepInv ==
    /\ pc \in {"idle", "down", "status", "finalized", "phase", "accumulating", "decide",
               "enqueue", "finish", "claim", "finalize"}
    /\ initialEpoch \in Nat
    /\ initialEpoch # 0 => ActiveEpoch = 0 /\ pc \in {"idle", "down", "status", "finalized"}
    /\ pc \in {"accumulating", "decide", "claim", "finalize"} => SealedIsFinished
    /\ pc = "finalize" => snap.mine # {} /\ snap.phase = "ConsensusTimeout"

\* What the manager may still accept: of inputs, those of its active epoch that
\* come next, if they name it; of epochs, the active one if it is sealed and
\* complete.
RequestInv ==
    /\ pc = "enqueue" =>
          /\ request \in [epoch : Nat, first : Nat, batch : Seq(Inputs), then : {"idle", "decide"}]
          /\ request.batch # <<>>
          /\ request.epoch <= ActiveEpoch
          /\ request.epoch = ActiveEpoch =>
                /\ request.first = Len(mm.active)
                /\ \A i \in 1 .. Len(request.batch) :
                      /\ request.first + i <= Len(inputs[ActiveEpoch])
                      /\ inputs[ActiveEpoch][request.first + i] = request.batch[i]
          /\ request.then = "decide" => SealedIsFinished
    /\ pc = "finish" =>
          /\ request.epoch = ActiveEpoch /\ ActiveEpoch < snap.open
          /\ request.first = Len(inputs[ActiveEpoch])
          /\ request.then \in {"status", "accumulating"}
          /\ request.then = "accumulating" => ActiveEpoch = snap.next /\ snap.open = snap.next + 1

\* The inductive invariant.
NodeInv ==
    /\ LifecycleInv /\ ManagerInv /\ ClaimsInv
    /\ SnapInv /\ StatusInv /\ StepInv /\ RequestInv

-----------------------------------------------------------------------------
(* The chain under the node.                                               *)

\* The chain of the node's model does what EpochLifecycle allows.
LEMMA ChainSteps == [NodeNext]_systemVars => [Next]_vars
<1>. SUFFICES ASSUME [NodeNext]_systemVars PROVE [Next]_vars
  OBVIOUS
<1>1. ASSUME NEW x \in Inputs, ChainAdd(x) PROVE Next
  BY <1>1 DEF ChainAdd, Next
<1>2. CASE ChainSeal
  BY <1>2 DEF ChainSeal, Next
<1>3. ASSUME NEW c \in Claims, ChainFinalize(c) PROVE Next
  BY <1>3 DEF ChainFinalize, Next
<1>4. CASE OtherClaims \/ TimeOut \/ Process \/ \E tx \in sent : LandClaim(tx)
  BY <1>4 DEF OtherClaims, TimeOut, Process, LandClaim, chainVars
<1>5. CASE React
  BY <1>5
  DEF React, ReceiveBlock, GetCurrentEpochStatus, CatchUp, ReactToPhase, EnqueueAccumulating,
      Decide, EnqueueInput, FinishEpochCall, SendClaim, SendFinalize, Execute, chainVars
<1>6. CASE CallFails \/ Restart
  BY <1>6 DEF CallFails, Restart, chainVars
<1>7. CASE UNCHANGED systemVars
  BY <1>7 DEF systemVars, chainVars
<1>. QED BY <1>1, <1>2, <1>3, <1>4, <1>5, <1>6, <1>7 DEF NodeNext

\* Under the node, its failures and its late transactions, the chain is the life cycle of
\* EpochLifecycle.
THEOREM NodeImplementsLifecycle == NodeSpec => Spec
<1>1. NodeInit => Init
  BY DEF NodeInit
<1>. QED BY <1>1, ChainSteps, PTL DEF NodeSpec, Spec

\* Extends is reflexive on inputs.
LEMMA ExtendsItself ==
    ASSUME NEW s \in Seq(Inputs) PROVE Extends(s, s)
  BY DEF Extends

\* Extends is transitive on inputs.
LEMMA ExtendsTwice ==
    ASSUME NEW r \in Seq(Inputs), NEW s \in Seq(Inputs), NEW t \in Seq(Inputs),
           Extends(s, r), Extends(t, s)
    PROVE  Extends(t, r)
<1>1. Len(r) \in Nat /\ Len(s) \in Nat /\ Len(t) \in Nat
  OBVIOUS
<1>2. Len(r) <= Len(t)
  BY <1>1 DEF Extends
<1>3. ASSUME NEW i \in 1 .. Len(r) PROVE t[i] = r[i]
  <2>1. i \in 1 .. Len(s)
    BY <1>1 DEF Extends
  <2>. QED BY <2>1 DEF Extends
<1>. QED BY <1>2, <1>3 DEF Extends

\* What a step of the chain leaves as it was.
ChainGrows ==
    /\ open <= open' /\ Len(finalized) <= Len(finalized')
    /\ \A e \in Epochs : Extends(inputs'[e], inputs[e])
    /\ \A e \in Epochs : e < open => inputs'[e] = inputs[e]

\* Every step of the chain only adds, and only to the open epoch.
LEMMA ChainOnlyGrows == LifecycleInv /\ [Next]_vars => ChainGrows
<1>. SUFFICES ASSUME LifecycleInv, [Next]_vars PROVE ChainGrows
  OBVIOUS
<1>0. /\ open \in Nat /\ Len(finalized) \in Nat /\ finalized \in Seq(Claims)
      /\ inputs \in [Epochs -> Seq(Inputs)] /\ \A e \in Epochs : e \in Nat
  BY DEF LifecycleInv, TypeOK, Epochs
<1>1. \A e \in Epochs : Extends(inputs[e], inputs[e])
  BY <1>0, ExtendsItself
<1>2. ASSUME NEW x \in Inputs, Add(x) PROVE ChainGrows
  <2>1. open' \in Nat /\ open <= open' /\ finalized' = finalized
    BY <1>0, <1>2 DEF Add, MaySeal
  <2>2. inputs' = [inputs EXCEPT ![open'] = Append(@, x)]
    BY <1>2 DEF Add
  <2>3. ASSUME NEW e \in Epochs, e # open' PROVE inputs'[e] = inputs[e]
    BY <1>0, <2>2, <2>3
  <2>4. ASSUME NEW e \in Epochs, e = open' PROVE Extends(inputs'[e], inputs[e])
    <3>1. inputs'[e] = Append(inputs[e], x) /\ inputs[e] \in Seq(Inputs)
      BY <1>0, <2>2, <2>4
    <3>. QED BY <3>1 DEF Extends
  <2>5. \A e \in Epochs : Extends(inputs'[e], inputs[e])
    BY <1>1, <2>3, <2>4
  <2>6. \A e \in Epochs : e < open => inputs'[e] = inputs[e]
    BY <1>0, <2>1, <2>3
  <2>. QED BY <1>0, <2>1, <2>5, <2>6 DEF ChainGrows
<1>3. CASE Seal
  BY <1>0, <1>1, <1>3 DEF Seal, ChainGrows
<1>4. ASSUME NEW c \in Claims, Finalize(c) PROVE ChainGrows
  <2>1. open <= open' /\ Len(finalized') = Len(finalized) + 1 /\ inputs' = inputs
    BY <1>0, <1>4 DEF Finalize, MaySeal
  <2>. QED BY <1>0, <1>1, <2>1 DEF ChainGrows
<1>5. CASE UNCHANGED vars
  BY <1>0, <1>1, <1>5 DEF vars, ChainGrows
<1>. QED BY <1>2, <1>3, <1>4, <1>5 DEF Next

\* The types of what the node and the manager index.
LEMMA NodeTypes ==
    ASSUME NodeInv
    PROVE  /\ ActiveEpoch \in Nat /\ ActiveEpoch \in Epochs /\ Len(mm.active) \in Nat
           /\ open \in Epochs /\ open \in Nat /\ Len(finalized) \in Nat
           /\ inputs \in [Epochs -> Seq(Inputs)]
           /\ \A e \in Epochs : inputs[e] \in Seq(Inputs) /\ Len(inputs[e]) \in Nat
           /\ \A e \in Epochs : e \in Nat
           /\ \A e \in 1 .. ActiveEpoch : e - 1 \in Epochs /\ e - 1 < open
           /\ mm.finished \in Seq(Seq(Inputs)) /\ mm.active \in Seq(Inputs)
           /\ MaxEpochs \in Nat
<1>1. /\ mm.finished \in Seq(Seq(Inputs)) /\ mm.active \in Seq(Inputs)
      /\ ActiveEpoch \in Nat /\ ActiveEpoch <= open /\ Len(mm.active) \in Nat
  BY DEF NodeInv, ManagerInv, ActiveEpoch
<1>2. /\ open \in Epochs /\ Len(finalized) \in Nat /\ inputs \in [Epochs -> Seq(Inputs)]
      /\ MaxEpochs \in Nat
  BY LifecycleAssumption DEF NodeInv, LifecycleInv, TypeOK
<1>3. \A e \in Epochs : e \in Nat
  BY DEF Epochs
<1>4. \A e \in Nat : e <= open => e \in Epochs
  BY <1>2 DEF Epochs
<1>5. \A e \in 1 .. ActiveEpoch : e - 1 \in Nat /\ e - 1 < open /\ e - 1 <= open
  BY <1>1, <1>2, <1>3
<1>. QED BY <1>1, <1>2, <1>3, <1>4, <1>5

\* NodeInv holds when the session and the node are new.
LEMMA InitNode == NodeInit => NodeInv
<1>. SUFFICES ASSUME NodeInit PROVE NodeInv
  OBVIOUS
<1>1. LifecycleInv
  BY InitLifecycle DEF NodeInit
<1>2. /\ mm = [finished |-> <<>>, active |-> <<>>, processed |-> 0] /\ open = 0
      /\ pc = "idle" /\ sent = {} /\ initialEpoch \in Nat /\ restarts = 0
  BY NodeAssumption DEF NodeInit, Init
<1>3. Len(mm.finished) = 0 /\ Len(mm.active) = 0
  BY <1>2
<1>4. ManagerInv
  <2>1. 0 \in Epochs
    BY LifecycleAssumption DEF Epochs
  <2>2. inputs[0] \in Seq(Inputs)
    BY <1>1, <2>1 DEF LifecycleInv, TypeOK
  <2>3. Extends(inputs[0], <<>>)
    BY <2>2 DEF Extends
  <2>. QED BY <1>2, <1>3, <2>3 DEF ManagerInv, ActiveEpoch
<1>5. ClaimsInv
  BY <1>2 DEF ClaimsInv
<1>6. SnapInv /\ StatusInv /\ StepInv /\ RequestInv
  BY <1>2, <1>3 DEF SnapInv, StatusInv, StepInv, RequestInv, ActiveEpoch
<1>. QED BY <1>1, <1>4, <1>5, <1>6 DEF NodeInv

\* What the node knows and has asked for stays good while the chain grows.
LEMMA ChainKeepsNode ==
    ASSUME NodeInv, LifecycleInv', ChainGrows, UNCHANGED <<mm, nodeVars>>,
           mine # {} => mine' # {} \/ Len(finalized) < Len(finalized'),
           restarts' \in Nat /\ restarts <= restarts',
           timedOut => \/ timedOut'
                       \/ Len(finalized) < Len(finalized')
                       \/ restarts < restarts'
    PROVE  NodeInv'
<1>. DEFINE F == ActiveEpoch
<1>0. /\ F \in Nat /\ F \in Epochs /\ open \in Epochs /\ open \in Nat /\ Len(finalized) \in Nat
      /\ \A e \in Epochs : inputs[e] \in Seq(Inputs) /\ Len(inputs[e]) \in Nat
      /\ \A e \in Epochs : e \in Nat
      /\ \A e \in 1 .. F : e - 1 \in Epochs /\ e - 1 < open
      /\ mm.active \in Seq(Inputs)
  BY NodeTypes
<1>1. /\ open' \in Nat /\ Len(finalized') \in Nat
      /\ \A e \in Epochs : inputs'[e] \in Seq(Inputs) /\ Len(inputs'[e]) \in Nat
  BY <1>0 DEF LifecycleInv, TypeOK
<1>2. /\ open <= open' /\ Len(finalized) <= Len(finalized')
      /\ \A e \in Epochs : Extends(inputs'[e], inputs[e])
      /\ \A e \in Epochs : e < open => inputs'[e] = inputs[e]
  BY DEF ChainGrows
<1>3. /\ F' = F
      /\ UNCHANGED <<mm, initialEpoch, pc, snap, status, request, sent>>
  BY DEF nodeVars, ActiveEpoch
<1>. HIDE DEF F
<1>4. ManagerInv'
  <2>1. /\ mm \in [finished : Seq(Seq(Inputs)), active : Seq(Inputs), processed : Nat]
        /\ mm.processed <= Len(mm.active) /\ F <= open
        /\ \A e \in 1 .. F : mm.finished[e] = inputs[e - 1]
        /\ Extends(inputs[F], mm.active)
    BY DEF NodeInv, ManagerInv, F
  <2>2. F <= open'
    BY <1>0, <1>1, <1>2, <2>1
  <2>3. \A e \in 1 .. F : mm.finished[e] = inputs'[e - 1]
    BY <1>0, <1>2, <2>1
  <2>4. Extends(inputs'[F], mm.active)
    BY <1>0, <1>1, <1>2, <2>1, ExtendsTwice
  <2>. QED BY <1>3, <2>1, <2>2, <2>3, <2>4 DEF ManagerInv, F
<1>5. ClaimsInv'
  <2>1. ASSUME NEW tx \in sent
        PROVE  tx.epoch \in Epochs /\ tx.epoch < open' /\ tx.inputs = inputs'[tx.epoch]
    <3>1. tx.epoch \in Epochs /\ tx.epoch < open /\ tx.inputs = inputs[tx.epoch]
      BY DEF NodeInv, ClaimsInv
    <3>2. inputs'[tx.epoch] = inputs[tx.epoch]
      BY <1>2, <3>1
    <3>3. tx.epoch \in Nat
      BY <1>0, <3>1
    <3>4. tx.epoch < open'
      BY <1>0, <1>1, <1>2, <3>1, <3>3
    <3>. QED BY <3>1, <3>2, <3>4
  <2>2. restarts' \in Nat
    OBVIOUS
  <2>. QED BY <1>3, <2>1, <2>2 DEF ClaimsInv
<1>6. SnapInv'
  <2>. SUFFICES ASSUME pc \notin {"idle", "down"} PROVE SnapInv'
    BY <1>3 DEF SnapInv
  <2>1. /\ snap.inputs \in [Epochs -> Seq(Inputs)] /\ snap.open \in Epochs /\ snap.next \in Nat
        /\ \A e \in Epochs : Extends(inputs[e], snap.inputs[e])
        /\ \A e \in Epochs : e < snap.open => snap.inputs[e] = inputs[e]
        /\ snap.open <= open /\ F <= snap.open
        /\ initialEpoch <= snap.next /\ snap.restarts \in Nat /\ snap.restarts <= restarts
    BY DEF NodeInv, SnapInv, F
  <2>2. ASSUME initialEpoch = 0
        PROVE  /\ snap.next <= Len(finalized) /\ snap.open \in {snap.next, snap.next + 1}
               /\ snap.phase = "InputAccumulation" <=> snap.open = snap.next
               /\ snap.mine # {} => snap.next < Len(finalized) \/ mine # {}
               /\ snap.phase = "ConsensusTimeout" =>
                     snap.next < Len(finalized) \/ timedOut \/ restarts > snap.restarts
    BY <2>2 DEF NodeInv, SnapInv
  <2>3. snap.open \in Nat
    BY <1>0, <2>1
  <2>4. ASSUME NEW e \in Epochs PROVE Extends(inputs'[e], snap.inputs[e])
    <3>1. /\ snap.inputs[e] \in Seq(Inputs) /\ inputs[e] \in Seq(Inputs)
          /\ inputs'[e] \in Seq(Inputs)
      BY <1>0, <1>1, <2>1
    <3>. QED BY <1>2, <2>1, <3>1, ExtendsTwice
  <2>5. \A e \in Epochs : e < snap.open => snap.inputs[e] = inputs'[e]
    BY <1>0, <1>2, <2>1, <2>3
  <2>6. snap.open <= open'
    BY <1>0, <1>1, <1>2, <2>1, <2>3
  <2>8. snap.restarts <= restarts'
    <3>1. restarts \in Nat
      BY DEF NodeInv, ClaimsInv
    <3>. QED BY <2>1, <3>1
  <2>7. ASSUME initialEpoch = 0
        PROVE  /\ snap.next <= Len(finalized')
               /\ snap.mine # {} => snap.next < Len(finalized') \/ mine' # {}
               /\ snap.phase = "ConsensusTimeout" =>
                     snap.next < Len(finalized') \/ timedOut' \/ restarts' > snap.restarts
    <3>0. snap.restarts <= restarts /\ snap.restarts \in Nat /\ restarts \in Nat
      BY <2>1, <2>2, <2>7 DEF NodeInv, ClaimsInv
    <3>2. /\ restarts > snap.restarts => restarts' > snap.restarts
          /\ restarts < restarts' => restarts' > snap.restarts
      BY <3>0
    <3>1. /\ snap.next <= Len(finalized')
          /\ snap.next < Len(finalized) => snap.next < Len(finalized')
          /\ Len(finalized) < Len(finalized') => snap.next < Len(finalized')
      BY <1>0, <1>1, <1>2, <2>1, <2>2, <2>7
    <3>. QED BY <2>2, <2>7, <3>1, <3>2
  <2>. QED BY <1>3, <2>1, <2>2, <2>4, <2>5, <2>6, <2>7, <2>8 DEF SnapInv, F
<1>7. StatusInv' /\ StepInv'
  BY <1>3 DEF NodeInv, StatusInv, StepInv, InputsSentCount, SealedIsFinished, F
<1>8. RequestInv'
  <2>1. CASE pc = "enqueue"
    <3>1. /\ request \in [epoch : Nat, first : Nat, batch : Seq(Inputs), then : {"idle", "decide"}]
          /\ request.batch # <<>>
          /\ request.epoch <= F
          /\ request.epoch = F =>
                /\ request.first = Len(mm.active)
                /\ \A i \in 1 .. Len(request.batch) :
                      /\ request.first + i <= Len(inputs[F])
                      /\ inputs[F][request.first + i] = request.batch[i]
          /\ request.then = "decide" => SealedIsFinished
      BY <2>1 DEF NodeInv, RequestInv, F
    <3>2. ASSUME request.epoch = F, NEW i \in 1 .. Len(request.batch)
          PROVE  /\ request.first + i <= Len(inputs'[F])
                 /\ inputs'[F][request.first + i] = request.batch[i]
      <4>1. /\ request.first + i \in Nat /\ request.first + i >= 1
            /\ request.first + i <= Len(inputs[F])
            /\ inputs[F][request.first + i] = request.batch[i]
        BY <3>1, <3>2
      <4>2. /\ Len(inputs[F]) <= Len(inputs'[F]) /\ Len(inputs[F]) \in Nat
            /\ Len(inputs'[F]) \in Nat
            /\ \A j \in 1 .. Len(inputs[F]) : inputs'[F][j] = inputs[F][j]
        BY <1>0, <1>1, <1>2 DEF Extends
      <4>. QED BY <4>1, <4>2
    <3>. QED BY <1>3, <2>1, <3>1, <3>2 DEF RequestInv, SealedIsFinished, F
  <2>2. CASE pc = "finish"
    <3>1. /\ request.epoch = F /\ F < snap.open
          /\ request.first = Len(inputs[F])
          /\ request.then \in {"status", "accumulating"}
          /\ request.then = "accumulating" => F = snap.next /\ snap.open = snap.next + 1
      BY <2>2 DEF NodeInv, RequestInv, F
    <3>2. snap.open <= open /\ snap.open \in Nat
      BY <1>0, <2>2 DEF NodeInv, SnapInv
    <3>3. inputs'[F] = inputs[F]
      BY <1>0, <1>2, <3>1, <3>2
    <3>. QED BY <1>3, <2>2, <3>1, <3>3 DEF RequestInv, F
  <2>3. CASE pc \notin {"enqueue", "finish"}
    BY <1>3, <2>3 DEF RequestInv
  <2>. QED BY <2>1, <2>2, <2>3
<1>. QED BY <1>4, <1>5, <1>6, <1>7, <1>8 DEF NodeInv

\* Every step of the chain keeps NodeInv: what it takes from the sealed epoch
\* when it finalizes it, the node may still have in its view.
LEMMA StepOfChain ==
    ASSUME NodeInv, [NodeNext]_systemVars,
           \/ \E x \in Inputs : ChainAdd(x)
           \/ ChainSeal
           \/ OtherClaims
           \/ \E tx \in sent : LandClaim(tx)
           \/ TimeOut
           \/ \E c \in Claims : ChainFinalize(c)
    PROVE  NodeInv'
<1>1. LifecycleInv'
  BY ChainSteps, StepLifecycle DEF NodeInv
<1>2. ChainGrows
  BY ChainSteps, ChainOnlyGrows DEF NodeInv
<1>3. UNCHANGED <<mm, nodeVars>>
  BY DEF ChainAdd, ChainSeal, OtherClaims, LandClaim, TimeOut, ChainFinalize
<1>4. /\ mine # {} => mine' # {} \/ Len(finalized) < Len(finalized')
      /\ restarts' \in Nat /\ restarts <= restarts'
      /\ timedOut => \/ timedOut'
                     \/ Len(finalized) < Len(finalized')
                     \/ restarts < restarts'
  <2>0. restarts \in Nat
    BY DEF NodeInv, ClaimsInv
  <2>5. ASSUME MayDisagree
        PROVE  /\ restarts' \in Nat /\ restarts <= restarts'
               /\ timedOut => timedOut' \/ restarts < restarts'
    BY <2>0, <2>5 DEF MayDisagree
  <2>1. ASSUME NEW c \in Claims, ChainFinalize(c) PROVE Len(finalized) < Len(finalized') /\ restarts' = restarts
    <3>1. /\ finalized \in Seq(Claims) /\ finalized' = Append(finalized, c)
          /\ restarts' = restarts
      BY <2>1 DEF NodeInv, LifecycleInv, TypeOK, ChainFinalize, Finalize
    <3>. QED BY <3>1
  <2>2. CASE \/ \E x \in Inputs : ChainAdd(x)
             \/ ChainSeal
    BY <2>0, <2>2 DEF ChainAdd, ChainSeal
  <2>3. CASE TimeOut
    BY <2>0, <2>3 DEF TimeOut
  <2>4. ASSUME NEW tx \in sent, LandClaim(tx)
        PROVE  MayDisagree /\ mine' # {}
    <3>1. MayDisagree /\ tx.epoch \in mine'
      BY <2>4 DEF LandClaim
    <3>. QED BY <3>1
  <2>6. CASE OtherClaims
    BY <2>5, <2>6 DEF OtherClaims
  <2>. QED BY <2>0, <2>1, <2>2, <2>3, <2>4, <2>5, <2>6
<1>. QED BY <1>1, <1>2, <1>3, <1>4, ChainKeepsNode

\* Neither does the machine manager's own work disturb it.
LEMMA StepOfManager == NodeInv /\ Process => NodeInv'
<1>. SUFFICES ASSUME NodeInv, Process PROVE NodeInv'
  OBVIOUS
<1>0. /\ Len(mm.active) \in Nat
      /\ mm \in [finished : Seq(Seq(Inputs)), active : Seq(Inputs), processed : Nat]
  BY NodeTypes DEF NodeInv, ManagerInv
<1>1. /\ mm' = [mm EXCEPT !.processed = @ + 1] /\ mm.processed < Len(mm.active)
      /\ UNCHANGED <<chainVars, nodeVars>>
  BY DEF Process
<1>2. /\ mm'.finished = mm.finished /\ mm'.active = mm.active
      /\ mm'.processed = mm.processed + 1
      /\ mm' \in [finished : Seq(Seq(Inputs)), active : Seq(Inputs), processed : Nat]
  BY <1>0, <1>1
<1>3. mm'.processed <= Len(mm'.active)
  BY <1>0, <1>1, <1>2
<1>4. ActiveEpoch' = ActiveEpoch
  BY <1>2 DEF ActiveEpoch
<1>5. /\ UNCHANGED <<inputs, open, finalized, mine, timedOut, restarts>>
      /\ UNCHANGED <<initialEpoch, pc, snap, status, request, sent>>
  BY <1>1 DEF chainVars, vars, nodeVars
<1>6. LifecycleInv' /\ ClaimsInv'
  BY <1>5 DEF NodeInv, LifecycleInv, TypeOK, OneSealedEpoch, ClaimsInv
<1>7. ManagerInv'
  BY <1>2, <1>3, <1>4, <1>5 DEF NodeInv, ManagerInv, Extends
<1>8. SnapInv' /\ StatusInv' /\ StepInv' /\ RequestInv'
  BY <1>2, <1>4, <1>5
  DEF NodeInv, SnapInv, StatusInv, StepInv, RequestInv, InputsSentCount, SealedIsFinished, Extends
<1>. QED BY <1>6, <1>7, <1>8 DEF NodeInv

-----------------------------------------------------------------------------
(* The node's own steps.                                                   *)

\* A step that leaves chain, manager and transactions alone.
LEMMA QuietStep ==
    ASSUME NodeInv, UNCHANGED <<chainVars, mm, sent>>
    PROVE  LifecycleInv' /\ ManagerInv' /\ ClaimsInv' /\ ActiveEpoch' = ActiveEpoch
<1>1. UNCHANGED <<inputs, open, finalized, restarts, mm, sent>>
  BY DEF chainVars, vars
<1>2. ActiveEpoch' = ActiveEpoch
  BY <1>1 DEF ActiveEpoch
<1>. QED BY <1>1, <1>2
     DEF NodeInv, LifecycleInv, TypeOK, OneSealedEpoch, ClaimsInv, ManagerInv, Extends

\* A node that waits for a block, or is down, knows and asks nothing.
LEMMA RestingNode ==
    ASSUME NodeInv, LifecycleInv', ManagerInv', ClaimsInv',
           initialEpoch # 0 => ActiveEpoch' = ActiveEpoch,
           NEW step \in {"idle", "down"}, Goto(step)
    PROVE  NodeInv'
<1>1. pc' \in {"idle", "down"} /\ initialEpoch' = initialEpoch
  BY DEF Goto
<1>2. initialEpoch \in Nat /\ (initialEpoch # 0 => ActiveEpoch = 0)
  BY DEF NodeInv, StepInv
<1>3. StepInv'
  BY <1>1, <1>2 DEF StepInv
<1>4. SnapInv' /\ StatusInv' /\ RequestInv'
  BY <1>1 DEF SnapInv, StatusInv, RequestInv
<1>. QED BY <1>3, <1>4 DEF NodeInv

\* The same, when nothing else has changed.
LEMMA NodeRests ==
    ASSUME NodeInv, UNCHANGED <<chainVars, mm, sent>>,
           NEW step \in {"idle", "down"}, Goto(step)
    PROVE  NodeInv'
  BY QuietStep, RestingNode

\* The view of the chain stays good as long as the manager is not past it.
LEMMA NodeKeepsSnap ==
    ASSUME NodeInv, pc \notin {"idle", "down"}, UNCHANGED <<chainVars, snap, initialEpoch>>,
           ActiveEpoch' <= snap.open
    PROVE  SnapInv'
<1>1. UNCHANGED <<inputs, open, finalized, mine, timedOut, restarts, snap, initialEpoch>>
  BY DEF chainVars, vars
<1>. QED BY <1>1 DEF NodeInv, SnapInv, Extends

\* main_loop takes a block.
LEMMA StepReceiveBlock == NodeInv /\ ReceiveBlock => NodeInv'
<1>. SUFFICES ASSUME NodeInv, ReceiveBlock PROVE NodeInv'
  OBVIOUS
<1>1. /\ pc' = "status" /\ UNCHANGED <<chainVars, mm, sent, initialEpoch>>
      /\ snap' = [next |-> NextEpoch, phase |-> Phase, inputs |-> inputs,
                  mine |-> mine, open |-> open, restarts |-> restarts]
  BY DEF ReceiveBlock
<1>2. LifecycleInv' /\ ManagerInv' /\ ClaimsInv' /\ ActiveEpoch' = ActiveEpoch
  BY <1>1, QuietStep
<1>3. UNCHANGED <<inputs, open, finalized, mine, timedOut, restarts>>
  BY <1>1 DEF chainVars, vars
<1>4. /\ initialEpoch \in Nat /\ Len(finalized) \in Nat /\ open \in Epochs /\ open \in Nat
      /\ inputs \in [Epochs -> Seq(Inputs)] /\ ActiveEpoch <= open
      /\ open = Len(finalized) \/ open = Len(finalized) + 1
      /\ initialEpoch # 0 => ActiveEpoch = 0
  BY NodeTypes DEF NodeInv, StepInv, ManagerInv, LifecycleInv, OneSealedEpoch
<1>5. \A e \in Epochs : Extends(inputs[e], inputs[e])
  BY <1>4, ExtendsItself
<1>6. NextEpoch \in Nat /\ initialEpoch <= NextEpoch
      /\ (initialEpoch = 0 => NextEpoch = Len(finalized))
  BY <1>4 DEF NextEpoch
<1>7. /\ Phase = "InputAccumulation" <=> open = Len(finalized)
      /\ Phase = "ConsensusTimeout" => timedOut
  BY <1>4 DEF Phase, IsSealed
<1>8. SnapInv'
  <2>1. /\ snap'.next = NextEpoch /\ snap'.phase = Phase /\ snap'.inputs = inputs
        /\ snap'.mine = mine /\ snap'.open = open /\ snap'.restarts = restarts
    BY <1>1
  <2>3. \A e \in Epochs : Extends(inputs[e], snap.inputs[e])'
    BY <1>3, <1>5, <2>1 DEF Extends
  <2>4. initialEpoch = 0 =>
              /\ snap'.next <= Len(finalized) /\ snap'.open \in {snap'.next, snap'.next + 1}
              /\ snap'.phase = "InputAccumulation" <=> snap'.open = snap'.next
              /\ snap'.mine # {} => snap'.next < Len(finalized) \/ mine # {}
              /\ snap'.phase = "ConsensusTimeout" =>
                    snap'.next < Len(finalized) \/ timedOut \/ restarts > snap'.restarts
    BY <1>4, <1>6, <1>7, <2>1
  <2>5. snap'.restarts \in Nat /\ snap'.restarts <= restarts
    BY <2>1 DEF NodeInv, ClaimsInv
  <2>. QED BY <1>1, <1>2, <1>3, <1>4, <1>6, <2>1, <2>3, <2>4, <2>5 DEF SnapInv
<1>9. StatusInv' /\ StepInv' /\ RequestInv'
  BY <1>1, <1>2, <1>4 DEF StatusInv, StepInv, RequestInv
<1>. QED BY <1>2, <1>8, <1>9 DEF NodeInv

\* It asks the manager where it is.
LEMMA StepGetCurrentEpochStatus == NodeInv /\ GetCurrentEpochStatus => NodeInv'
<1>. SUFFICES ASSUME NodeInv, GetCurrentEpochStatus PROVE NodeInv'
  OBVIOUS
<1>1. /\ pc = "status" /\ pc' = "finalized"
      /\ UNCHANGED <<chainVars, mm, sent, initialEpoch, snap>>
      /\ status' = [epoch     |-> Len(mm.finished),
                    processed |-> mm.processed,
                    pending   |-> Len(mm.active) - mm.processed]
  BY DEF GetCurrentEpochStatus
<1>2. /\ LifecycleInv' /\ ManagerInv' /\ ClaimsInv' /\ ActiveEpoch' = ActiveEpoch
  BY <1>1, QuietStep
<1>3. ActiveEpoch <= snap.open
  BY <1>1 DEF NodeInv, SnapInv
<1>4. SnapInv'
  BY <1>1, <1>2, <1>3, NodeKeepsSnap
<1>5. /\ ActiveEpoch \in Nat /\ Len(mm.active) \in Nat /\ mm.processed \in Nat
      /\ mm.processed <= Len(mm.active)
  BY NodeTypes DEF NodeInv, ManagerInv
<1>6. /\ status' \in [epoch : Nat, processed : Nat, pending : Nat]
      /\ status'.epoch = ActiveEpoch /\ status'.processed + status'.pending = Len(mm.active)
  BY <1>1, <1>5 DEF ActiveEpoch
<1>7. StatusInv'
  BY <1>1, <1>2, <1>5, <1>6 DEF StatusInv, InputsSentCount
<1>8. StepInv' /\ RequestInv'
  BY <1>1, <1>2 DEF NodeInv, StepInv, RequestInv
<1>. QED BY <1>2, <1>4, <1>7, <1>8 DEF NodeInv

\* react goes on to its next step with what it knows.
LEMMA NodeContinues ==
    ASSUME NodeInv, UNCHANGED <<chainVars, mm, sent>>, initialEpoch = 0,
           pc \notin {"idle", "down", "status"},
           NEW step \in {"phase", "accumulating", "decide", "claim", "finalize"}, Goto(step),
           step = "phase" => pc = "finalized" /\ snap.next <= status.epoch,
           step = "accumulating" => pc = "phase" /\ SealedIsFinished,
           step \in {"decide", "claim", "finalize"} => SealedIsFinished,
           step = "finalize" => snap.mine # {} /\ snap.phase = "ConsensusTimeout"
    PROVE  NodeInv'
<1>1. pc' = step /\ UNCHANGED <<snap, status, initialEpoch>>
  BY DEF Goto
<1>2. LifecycleInv' /\ ManagerInv' /\ ClaimsInv' /\ ActiveEpoch' = ActiveEpoch
  BY QuietStep
<1>3. ActiveEpoch <= snap.open
  BY DEF NodeInv, SnapInv
<1>4. SnapInv'
  BY <1>1, <1>2, <1>3, NodeKeepsSnap
<1>5. StatusInv'
  BY <1>1, <1>2 DEF NodeInv, StatusInv, InputsSentCount
<1>6. StepInv' /\ RequestInv'
  BY <1>1, <1>2 DEF NodeInv, StepInv, RequestInv, SealedIsFinished
<1>. QED BY <1>2, <1>4, <1>5, <1>6 DEF NodeInv

\* It asks to finish an epoch that its view knows to be sealed, and to which
\* the manager has nothing to add.
LEMMA NodeFinishes ==
    ASSUME NodeInv, UNCHANGED <<chainVars, mm, sent>>, initialEpoch = 0,
           pc \in {"finalized", "phase"},
           NEW then \in {"status", "accumulating"}, FinishEpoch(then),
           ActiveEpoch < snap.open, AllProcessed(snap.inputs[ActiveEpoch]),
           then = "accumulating" => ActiveEpoch = snap.next /\ snap.open = snap.next + 1
    PROVE  NodeInv'
<1>1. /\ pc' = "finish" /\ UNCHANGED <<snap, status, initialEpoch>>
      /\ request'.epoch = status.epoch /\ request'.first = status.processed
      /\ request'.then = then
  BY DEF FinishEpoch, Call, NoRequest
<1>2. LifecycleInv' /\ ManagerInv' /\ ClaimsInv' /\ ActiveEpoch' = ActiveEpoch
  BY QuietStep
<1>3. ActiveEpoch <= snap.open
  BY DEF NodeInv, SnapInv
<1>4. SnapInv'
  BY <1>1, <1>2, <1>3, NodeKeepsSnap
<1>5. StatusInv' /\ StepInv'
  BY <1>1, <1>2 DEF NodeInv, StatusInv, StepInv
<1>6. snap.inputs[ActiveEpoch] = inputs[ActiveEpoch]
  BY NodeTypes DEF NodeInv, SnapInv
<1>7. status.epoch = ActiveEpoch /\ status.processed = Len(inputs[ActiveEpoch])
  BY <1>6 DEF NodeInv, StatusInv, AllProcessed
<1>8. RequestInv'
  <2>1. inputs' = inputs
    BY DEF chainVars, vars
  <2>. QED BY <1>1, <1>2, <1>7, <2>1 DEF RequestInv
<1>. QED BY <1>2, <1>4, <1>5, <1>8 DEF NodeInv

\* What is left of an epoch's inputs once the first n are taken is in its place
\* in every longer version of them.
LEMMA RestInPlace ==
    ASSUME NEW s \in Seq(Inputs), NEW longer \in Seq(Inputs), Extends(longer, s),
           NEW n \in Nat, n < Len(s)
    PROVE  LET rest == SubSeq(s, n + 1, Len(s))
           IN  /\ rest \in Seq(Inputs) /\ rest # <<>>
               /\ \A i \in 1 .. Len(rest) :
                      n + i <= Len(longer) /\ longer[n + i] = rest[i]
<1>. DEFINE rest == SubSeq(s, n + 1, Len(s))
<1>1. Len(s) \in Nat /\ Len(longer) \in Nat /\ Len(s) <= Len(longer)
  BY DEF Extends
<1>2. rest \in Seq(Inputs)
  OBVIOUS
<1>3. /\ Len(rest) = Len(s) - n
      /\ \A i \in 1 .. Len(s) - n : rest[i] = s[n + i]
  BY <1>1
<1>. HIDE DEF rest
<1>4. rest # <<>>
  BY <1>1, <1>3
<1>5. ASSUME NEW i \in 1 .. Len(rest) PROVE n + i <= Len(longer) /\ longer[n + i] = rest[i]
  <2>1. n + i \in 1 .. Len(s) /\ n + i <= Len(longer)
    BY <1>1, <1>3
  <2>. QED BY <1>3, <2>1 DEF Extends
<1>6. rest \in Seq(Inputs) /\ rest # <<>>
         /\ \A i \in 1 .. Len(rest) : n + i <= Len(longer) /\ longer[n + i] = rest[i]
  BY <1>2, <1>4, <1>5
<1>. QED BY <1>6 DEF rest

\* It feeds the manager the inputs of an epoch, as its view has them.
LEMMA NodeFeeds ==
    ASSUME NodeInv, UNCHANGED <<chainVars, mm, sent>>, initialEpoch = 0,
           pc \in {"finalized", "phase", "accumulating"},
           NEW e \in Epochs, status.epoch = ActiveEpoch => e = ActiveEpoch,
           NEW then \in {"idle", "decide"}, then = "decide" => SealedIsFinished,
           EnqueueRemainingInputs(snap.inputs[e], then, then)
    PROVE  NodeInv'
<1>1. CASE Continue(then)
  <2>1. CASE then = "idle"
    BY <1>1, <2>1, NodeRests DEF Continue
  <2>2. CASE then = "decide"
    BY <1>1, <2>2, NodeContinues DEF Continue
  <2>. QED BY <2>1, <2>2
<1>2. CASE GoDown
  BY <1>2, NodeRests DEF GoDown, Continue
<1>3. CASE ~Continue(then) /\ ~GoDown
  <2>. DEFINE n == InputsSentCount
              s == snap.inputs[e]
              rest == SubSeq(s, n + 1, Len(s))
  <2>1. /\ ~(n > Len(s)) /\ n # Len(s)
        /\ Call("enqueue", [epoch |-> status.epoch, first |-> n, batch |-> rest, then |-> then])
    BY <1>3 DEF EnqueueRemainingInputs
  <2>2. /\ pc' = "enqueue" /\ UNCHANGED <<snap, status, initialEpoch>>
        /\ request' = [epoch |-> status.epoch, first |-> n, batch |-> rest, then |-> then]
    BY <2>1 DEF Call
  <2>3. /\ status \in [epoch : Nat, processed : Nat, pending : Nat] /\ n \in Nat
        /\ status.epoch <= ActiveEpoch
        /\ status.epoch = ActiveEpoch => n = Len(mm.active)
    BY DEF NodeInv, StatusInv, InputsSentCount
  <2>4. /\ s \in Seq(Inputs) /\ inputs[e] \in Seq(Inputs) /\ Extends(inputs[e], s)
        /\ Len(s) \in Nat
    BY NodeTypes DEF NodeInv, SnapInv
  <2>. HIDE DEF n, s
  <2>5. n < Len(s)
    BY <2>1, <2>3, <2>4
  <2>6. /\ rest \in Seq(Inputs) /\ rest # <<>>
        /\ \A i \in 1 .. Len(rest) : n + i <= Len(inputs[e]) /\ inputs[e][n + i] = rest[i]
    BY <2>3, <2>4, <2>5, RestInPlace
  <2>. HIDE DEF rest
  <2>7. LifecycleInv' /\ ManagerInv' /\ ClaimsInv' /\ ActiveEpoch' = ActiveEpoch
    BY QuietStep
  <2>8. ActiveEpoch <= snap.open
    BY DEF NodeInv, SnapInv
  <2>9. SnapInv'
    BY <2>2, <2>7, <2>8, NodeKeepsSnap
  <2>10. StatusInv' /\ StepInv'
    BY <2>2, <2>7 DEF NodeInv, StatusInv, StepInv
  <2>11. RequestInv'
    <3>1. inputs' = inputs /\ mm' = mm
      BY DEF chainVars, vars
    <3>2. /\ request'.epoch = status.epoch /\ request'.first = n /\ request'.batch = rest
          /\ request'.then = then
          /\ request' \in [epoch : Nat, first : Nat, batch : Seq(Inputs), then : {"idle", "decide"}]
      BY <2>2, <2>3, <2>6
    <3>3. then = "decide" => SealedIsFinished'
      BY <2>2, <2>7 DEF SealedIsFinished
    <3>. QED BY <2>2, <2>3, <2>6, <2>7, <3>1, <3>2, <3>3 DEF RequestInv
  <2>. QED BY <2>7, <2>9, <2>10, <2>11 DEF NodeInv
<1>. QED BY <1>1, <1>2, <1>3

\* enqueue_inputs_of_finalized_epochs keeps NodeInv: the epoch it feeds is
\* final in the node's view, hence complete there.
LEMMA StepCatchUp == NodeInv /\ CatchUp => NodeInv'
<1>. SUFFICES ASSUME NodeInv, CatchUp PROVE NodeInv'
  OBVIOUS
<1>. DEFINE F == ActiveEpoch
<1>0. /\ pc = "finalized" /\ UNCHANGED <<chainVars, mm, sent>>
      /\ IF status.epoch >= snap.next THEN Continue("phase")
         ELSE IF status.epoch < initialEpoch THEN GoDown
         ELSE IF ~AllProcessed(snap.inputs[status.epoch])
         THEN EnqueueRemainingInputs(snap.inputs[status.epoch], "idle", "idle")
         ELSE IF status.pending = 0 THEN FinishEpoch("status")
         ELSE GoDown
  BY DEF CatchUp
<1>1. /\ F \in Nat /\ F \in Epochs /\ status.epoch = F /\ snap.next \in Nat /\ initialEpoch \in Nat
      /\ initialEpoch # 0 => F = 0
      /\ initialEpoch <= snap.next /\ snap.open \in Nat
      /\ initialEpoch = 0 => snap.open \in {snap.next, snap.next + 1}
  BY <1>0, NodeTypes DEF NodeInv, SnapInv, StatusInv, StepInv
<1>. HIDE DEF F
<1>2. CASE F >= snap.next
  <2>1. initialEpoch = 0
    BY <1>1, <1>2
  <2>2. Continue("phase") /\ snap.next <= status.epoch
    BY <1>0, <1>1, <1>2
  <2>. QED BY <1>0, <2>1, <2>2, NodeContinues DEF Continue
<1>3. CASE ~(F >= snap.next) /\ F < initialEpoch
  <2>1. Continue("down")
    BY <1>0, <1>1, <1>3 DEF GoDown
  <2>. QED BY <1>0, <2>1, NodeRests DEF Continue
<1>4. CASE ~(F >= snap.next) /\ ~(F < initialEpoch)
  <2>1. initialEpoch = 0 /\ F < snap.open
    BY <1>1, <1>4
  <2>2. CASE ~AllProcessed(snap.inputs[F])
    <3>1. EnqueueRemainingInputs(snap.inputs[F], "idle", "idle")
      BY <1>0, <1>1, <1>4, <2>2
    <3>. QED BY <1>0, <1>1, <2>1, <3>1, NodeFeeds DEF F
  <2>3. CASE AllProcessed(snap.inputs[F]) /\ status.pending = 0
    <3>1. FinishEpoch("status")
      BY <1>0, <1>1, <1>4, <2>3
    <3>. QED BY <1>0, <2>1, <2>3, <3>1, NodeFinishes DEF F
  <2>4. CASE AllProcessed(snap.inputs[F]) /\ ~(status.pending = 0)
    <3>1. Continue("down")
      BY <1>0, <1>1, <1>4, <2>4 DEF GoDown
    <3>. QED BY <1>0, <3>1, NodeRests DEF Continue
  <2>. QED BY <2>2, <2>3, <2>4
<1>. QED BY <1>2, <1>3, <1>4

\* So does what it does with the open and the sealed epoch.
LEMMA StepReactToPhase == NodeInv /\ ReactToPhase => NodeInv'
<1>. SUFFICES ASSUME NodeInv, ReactToPhase PROVE NodeInv'
  OBVIOUS
<1>. DEFINE F == ActiveEpoch
<1>0. /\ pc = "phase" /\ UNCHANGED <<chainVars, mm, sent>>
      /\ IF snap.phase = "InputAccumulation"
         THEN EnqueueRemainingInputs(snap.inputs[snap.open], "idle", "idle")
         ELSE IF status.epoch # snap.next THEN Continue("accumulating")
         ELSE IF AllProcessed(snap.inputs[snap.next]) THEN FinishEpoch("accumulating")
         ELSE EnqueueRemainingInputs(snap.inputs[snap.next], "idle", "idle")
  BY DEF ReactToPhase
<1>1. /\ F \in Nat /\ F \in Epochs /\ status.epoch = F /\ snap.next \in Nat /\ initialEpoch = 0
      /\ snap.next <= F /\ F <= snap.open /\ snap.open \in Nat /\ snap.open \in Epochs
  BY <1>0, NodeTypes DEF NodeInv, SnapInv, StatusInv, StepInv
<1>2. /\ snap.open \in {snap.next, snap.next + 1}
      /\ snap.phase = "InputAccumulation" <=> snap.open = snap.next
  BY <1>0, <1>1 DEF NodeInv, SnapInv
<1>. HIDE DEF F
<1>3. CASE snap.phase = "InputAccumulation"
  <2>1. F = snap.open /\ EnqueueRemainingInputs(snap.inputs[F], "idle", "idle")
    BY <1>0, <1>1, <1>2, <1>3
  <2>. QED BY <1>0, <1>1, <2>1, NodeFeeds DEF F
<1>4. CASE snap.phase # "InputAccumulation" /\ F # snap.next
  <2>1. F = snap.open /\ snap.open = snap.next + 1
    BY <1>1, <1>2, <1>4
  <2>2. Continue("accumulating") /\ SealedIsFinished
    BY <1>0, <1>1, <1>4, <2>1 DEF SealedIsFinished, F
  <2>. QED BY <1>0, <1>1, <2>2, NodeContinues DEF Continue
<1>5. CASE snap.phase # "InputAccumulation" /\ F = snap.next
  <2>1. F < snap.open /\ snap.open = snap.next + 1
    BY <1>1, <1>2, <1>5
  <2>2. CASE AllProcessed(snap.inputs[F])
    <3>1. FinishEpoch("accumulating")
      BY <1>0, <1>1, <1>5, <2>2
    <3>. QED BY <1>0, <1>1, <1>5, <2>1, <2>2, <3>1, NodeFinishes DEF F
  <2>3. CASE ~AllProcessed(snap.inputs[F])
    <3>1. EnqueueRemainingInputs(snap.inputs[F], "idle", "idle")
      BY <1>0, <1>1, <1>5, <2>3
    <3>. QED BY <1>0, <1>1, <3>1, NodeFeeds DEF F
  <2>. QED BY <2>2, <2>3
<1>. QED BY <1>3, <1>4, <1>5

\* The old status makes the node name an epoch the manager has left, never
\* another epoch's input for the one it is at.
LEMMA StepEnqueueAccumulating == NodeInv /\ EnqueueAccumulating => NodeInv'
<1>. SUFFICES ASSUME NodeInv, EnqueueAccumulating PROVE NodeInv'
  OBVIOUS
<1>1. /\ pc = "accumulating" /\ UNCHANGED <<chainVars, mm, sent>>
      /\ EnqueueRemainingInputs(snap.inputs[snap.open], "decide", "decide")
  BY DEF EnqueueAccumulating
<1>2. initialEpoch = 0 /\ SealedIsFinished /\ snap.open \in Epochs
  BY <1>1 DEF NodeInv, StepInv, SnapInv
<1>3. snap.open = ActiveEpoch
  BY <1>2 DEF SealedIsFinished
<1>. QED BY <1>1, <1>2, <1>3, NodeFeeds

\* It decides what to send.
LEMMA StepDecide == NodeInv /\ Decide => NodeInv'
<1>. SUFFICES ASSUME NodeInv, Decide PROVE NodeInv'
  OBVIOUS
<1>1. /\ pc = "decide" /\ UNCHANGED <<chainVars, mm, sent>>
      /\ IF snap.mine = {} THEN Continue("claim")
         ELSE IF snap.phase = "ConsensusTimeout" THEN Continue("finalize")
         ELSE GoDown
  BY DEF Decide
<1>2. initialEpoch = 0 /\ SealedIsFinished
  BY <1>1 DEF NodeInv, StepInv
<1>3. CASE Continue("claim")
  BY <1>1, <1>2, <1>3, NodeContinues DEF Continue
<1>4. CASE Continue("finalize") /\ snap.mine # {} /\ snap.phase = "ConsensusTimeout"
  BY <1>1, <1>2, <1>4, NodeContinues DEF Continue
<1>5. CASE GoDown
  BY <1>1, <1>5, NodeRests DEF GoDown, Continue
<1>. QED BY <1>1, <1>3, <1>4, <1>5

\* Records keep their type when the fields that EnqueueInput changes do.
LEMMA RecordsKeepType ==
    ASSUME NEW m \in [finished : Seq(Seq(Inputs)), active : Seq(Inputs), processed : Nat],
           NEW r \in [epoch : Nat, first : Nat, batch : Seq(Inputs), then : {"idle", "decide"}],
           NEW s \in Seq(Inputs), NEW n \in Nat
    PROVE  /\ [m EXCEPT !.active = s]
                 \in [finished : Seq(Seq(Inputs)), active : Seq(Inputs), processed : Nat]
           /\ [r EXCEPT !.first = n, !.batch = s]
                 \in [epoch : Nat, first : Nat, batch : Seq(Inputs), then : {"idle", "decide"}]
           /\ [r EXCEPT !.first = n, !.batch = s].epoch = r.epoch
           /\ [r EXCEPT !.first = n, !.batch = s].first = n
           /\ [r EXCEPT !.first = n, !.batch = s].batch = s
           /\ [r EXCEPT !.first = n, !.batch = s].then = r.then
  OBVIOUS

\* The tail of a sequence of inputs.
LEMMA TailInPlace ==
    ASSUME NEW s \in Seq(Inputs), s # <<>>
    PROVE  /\ Tail(s) \in Seq(Inputs) /\ Len(s) \in Nat /\ 1 <= Len(s)
           /\ Len(Tail(s)) = Len(s) - 1
           /\ \A i \in 1 .. Len(s) - 1 : Tail(s)[i] = s[i + 1]
  OBVIOUS

\* The manager takes the next input of its epoch.
LEMMA ManagerEnqueues ==
    ASSUME NodeInv, pc = "enqueue", UNCHANGED <<chainVars, sent>>,
           MayEnqueue(request.epoch, request.first),
           mm' = [mm EXCEPT !.active = Append(@, Head(request.batch))]
    PROVE  LifecycleInv' /\ ManagerInv' /\ ClaimsInv' /\ ActiveEpoch' = ActiveEpoch
<1>. DEFINE F == ActiveEpoch
            x == Head(request.batch)
<1>1. /\ F \in Nat /\ F \in Epochs /\ mm.active \in Seq(Inputs) /\ Len(mm.active) \in Nat
      /\ inputs[F] \in Seq(Inputs)
      /\ mm \in [finished : Seq(Seq(Inputs)), active : Seq(Inputs), processed : Nat]
      /\ mm.processed <= Len(mm.active) /\ F <= open
      /\ \A e \in 1 .. F : mm.finished[e] = inputs[e - 1]
      /\ Extends(inputs[F], mm.active)
  BY NodeTypes DEF NodeInv, ManagerInv
<1>2. /\ request.batch \in Seq(Inputs) /\ request.batch # <<>>
      /\ request.first = Len(mm.active)
      /\ \A i \in 1 .. Len(request.batch) :
            /\ request.first + i <= Len(inputs[F])
            /\ inputs[F][request.first + i] = request.batch[i]
  BY DEF NodeInv, RequestInv, MayEnqueue, ActiveEpoch
<1>3. x \in Inputs /\ x = request.batch[1] /\ Len(request.batch) \in Nat /\ 1 <= Len(request.batch)
  BY <1>2
<1>. HIDE DEF x
<1>4. Len(mm.active) + 1 <= Len(inputs[F]) /\ inputs[F][Len(mm.active) + 1] = x
  BY <1>2, <1>3
<1>5. /\ mm'.finished = mm.finished /\ mm'.active = Append(mm.active, x)
      /\ mm'.processed = mm.processed
  BY <1>1 DEF x
<1>6. F' = F
  BY <1>5 DEF ActiveEpoch
<1>. HIDE DEF F
<1>7. mm' \in [finished : Seq(Seq(Inputs)), active : Seq(Inputs), processed : Nat]
  <2>1. Append(mm.active, x) \in Seq(Inputs) /\ mm' = [mm EXCEPT !.active = Append(mm.active, x)]
    BY <1>1, <1>3 DEF x
  <2>2. \A t \in Seq(Inputs) : [mm EXCEPT !.active = t]
                 \in [finished : Seq(Seq(Inputs)), active : Seq(Inputs), processed : Nat]
    BY <1>1
  <2>. QED BY <2>1, <2>2
<1>8. Len(mm'.active) = Len(mm.active) + 1 /\ mm'.processed <= Len(mm'.active)
  BY <1>1, <1>5, <1>7
<1>9. Extends(inputs[F], mm'.active)
  <2>1. ASSUME NEW i \in 1 .. Len(mm.active) + 1 PROVE inputs[F][i] = mm'.active[i]
    <3>1. CASE i = Len(mm.active) + 1
      <4>1. mm'.active[i] = x
        BY <1>1, <1>3, <1>5, <3>1
      <4>. QED BY <1>4, <3>1, <4>1
    <3>2. CASE i # Len(mm.active) + 1
      <4>1. i \in 1 .. Len(mm.active) /\ mm'.active[i] = mm.active[i]
        BY <1>1, <1>3, <1>5, <3>2
      <4>. QED BY <1>1, <4>1 DEF Extends
    <3>. QED BY <3>1, <3>2
  <2>. QED BY <1>4, <1>8, <2>1 DEF Extends
<1>10. UNCHANGED <<inputs, open, finalized, restarts, sent>>
  BY DEF chainVars, vars
<1>11. ManagerInv'
  <2>1. mm'.finished = mm.finished /\ inputs' = inputs /\ open' = open
    BY <1>5, <1>10
  <2>2. Extends(inputs[F], mm.active)'
    BY <1>6, <1>9, <1>10 DEF Extends
  <2>. QED BY <1>1, <1>6, <1>7, <1>8, <2>1, <2>2 DEF ManagerInv, F
<1>12. LifecycleInv' /\ ClaimsInv'
  BY <1>10 DEF NodeInv, LifecycleInv, TypeOK, OneSealedEpoch, ClaimsInv
<1>. QED BY <1>6, <1>11, <1>12 DEF F

\* Whatever becomes of the answer, the next request of the batch is in order.
LEMMA StepEnqueueInput == NodeInv /\ EnqueueInput => NodeInv'
<1>. SUFFICES ASSUME NodeInv, EnqueueInput PROVE NodeInv'
  OBVIOUS
<1>. DEFINE F == ActiveEpoch
            next == IF Len(request.batch) = 1
                    THEN Continue(request.then)
                    ELSE Call("enqueue", [request EXCEPT !.first = @ + 1, !.batch = Tail(@)])
            taken == [mm EXCEPT !.active = Append(@, Head(request.batch))]
            may == MayEnqueue(request.epoch, request.first)
<1>0. /\ pc = "enqueue" /\ UNCHANGED <<chainVars, sent>>
      /\ \/ mm' = taken /\ may /\ next
         \/ mm' = taken /\ may /\ Goto("down")
         \/ UNCHANGED mm /\ GoDown
  BY DEF EnqueueInput, Execute
<1>. HIDE DEF next
<1>1. CASE UNCHANGED mm /\ GoDown
  BY <1>0, <1>1, NodeRests DEF GoDown, Continue
<1>2. ASSUME mm' = taken, may
      PROVE  LifecycleInv' /\ ManagerInv' /\ ClaimsInv' /\ F' = F
  BY <1>0, <1>2, ManagerEnqueues
<1>. HIDE DEF taken
<1>3. CASE mm' = taken /\ may /\ Goto("down")
  <2>. QED BY <1>2, <1>3, RestingNode
<1>4. CASE mm' = taken /\ may /\ next
  <2>0. LifecycleInv' /\ ManagerInv' /\ ClaimsInv' /\ F' = F
    BY <1>2, <1>4
  <2>1. /\ request \in [epoch : Nat, first : Nat, batch : Seq(Inputs), then : {"idle", "decide"}]
        /\ request.batch # <<>> /\ request.epoch = F /\ F \in Nat
        /\ request.first = Len(mm.active)
        /\ \A i \in 1 .. Len(request.batch) :
              /\ request.first + i <= Len(inputs[F])
              /\ inputs[F][request.first + i] = request.batch[i]
        /\ request.then = "decide" => SealedIsFinished
    BY <1>0, <1>4, NodeTypes DEF NodeInv, RequestInv, MayEnqueue, ActiveEpoch
  <2>2. initialEpoch = 0 /\ F <= snap.open
    BY <1>0 DEF NodeInv, StepInv, SnapInv
  <2>3. ASSUME UNCHANGED <<snap, initialEpoch>> PROVE SnapInv'
    BY <1>0, <2>0, <2>2, <2>3, NodeKeepsSnap
  <2>4. CASE Goto("idle")
    BY <2>0, <2>4, RestingNode
  <2>5. CASE Goto("decide") /\ SealedIsFinished
    <3>1. pc' = "decide" /\ UNCHANGED <<snap, status, initialEpoch>>
      BY <2>5 DEF Goto
    <3>2. StatusInv'
      BY <1>0, <2>0, <3>1 DEF NodeInv, StatusInv
    <3>3. StepInv' /\ RequestInv'
      BY <2>0, <2>2, <2>5, <3>1 DEF StepInv, RequestInv, SealedIsFinished
    <3>. QED BY <2>0, <2>3, <3>1, <3>2, <3>3 DEF NodeInv
  <2>6. CASE /\ Len(request.batch) # 1
             /\ Call("enqueue", [request EXCEPT !.first = @ + 1, !.batch = Tail(@)])
    <3>1. /\ pc' = "enqueue" /\ UNCHANGED <<snap, status, initialEpoch>>
          /\ request' = [request EXCEPT !.first = @ + 1, !.batch = Tail(@)]
      BY <2>6 DEF Call
    <3>2. /\ Tail(request.batch) \in Seq(Inputs) /\ Len(request.batch) \in Nat
          /\ Len(Tail(request.batch)) = Len(request.batch) - 1 /\ Len(request.batch) > 1
          /\ \A i \in 1 .. Len(request.batch) - 1 : Tail(request.batch)[i] = request.batch[i + 1]
      <4>1. request.batch \in Seq(Inputs) /\ request.batch # <<>>
        BY <2>1
      <4>2. /\ Tail(request.batch) \in Seq(Inputs) /\ Len(request.batch) \in Nat
            /\ 1 <= Len(request.batch) /\ Len(Tail(request.batch)) = Len(request.batch) - 1
            /\ \A i \in 1 .. Len(request.batch) - 1 : Tail(request.batch)[i] = request.batch[i + 1]
        BY <4>1, TailInPlace
      <4>3. Len(request.batch) # 1
        BY <2>6
      <4>4. Len(request.batch) > 1
        <5>1. Len(request.batch) \in Nat /\ 1 <= Len(request.batch)
          BY <4>2
        <5>2. \A n \in Nat : 1 <= n /\ n # 1 => n > 1
          OBVIOUS
        <5>. QED BY <4>3, <5>1, <5>2
      <4>. QED BY <4>2, <4>4
    <3>3. /\ request'.epoch = F /\ request'.first = request.first + 1
          /\ request'.batch = Tail(request.batch) /\ request'.then = request.then
          /\ request' \in [epoch : Nat, first : Nat, batch : Seq(Inputs), then : {"idle", "decide"}]
      <4>1. request.first + 1 \in Nat /\ Tail(request.batch) \in Seq(Inputs)
        BY <2>1, <3>2
      <4>2. mm \in [finished : Seq(Seq(Inputs)), active : Seq(Inputs), processed : Nat]
        BY DEF NodeInv, ManagerInv
      <4>3. request' = [request EXCEPT !.first = request.first + 1, !.batch = Tail(request.batch)]
        BY <3>1
      <4>4. /\ request \in [epoch : Nat, first : Nat, batch : Seq(Inputs), then : {"idle", "decide"}]
            /\ request.epoch = F
        BY <2>1
      <4>. QED BY ONLY <4>1, <4>2, <4>3, <4>4, RecordsKeepType
    <3>4. request'.batch # <<>>
      BY <3>2, <3>3
    <3>5. request'.first = Len(mm'.active)
      <4>1. /\ mm.active \in Seq(Inputs) /\ Len(mm.active) \in Nat /\ Head(request.batch) \in Inputs
            /\ mm \in [finished : Seq(Seq(Inputs)), active : Seq(Inputs), processed : Nat]
        BY <2>1, NodeTypes DEF NodeInv, ManagerInv
      <4>2. mm'.active = Append(mm.active, Head(request.batch))
        BY <1>4, <4>1 DEF taken
      <4>. QED BY <2>1, <3>3, <4>1, <4>2
    <3>6. ASSUME NEW i \in 1 .. Len(request'.batch)
          PROVE  /\ request'.first + i <= Len(inputs[F])
                 /\ inputs[F][request'.first + i] = request'.batch[i]
      <4>1. i \in Nat /\ i + 1 \in 1 .. Len(request.batch)
            /\ request'.batch[i] = request.batch[i + 1] /\ request.first \in Nat
        BY <2>1, <3>2, <3>3
      <4>2. request'.first + i = request.first + (i + 1)
        BY <3>3, <4>1
      <4>. QED BY <2>1, <4>1, <4>2
    <3>7. StatusInv'
      BY <1>0, <2>0, <3>1 DEF NodeInv, StatusInv
    <3>8. StepInv'
      BY <2>0, <2>2, <3>1 DEF StepInv
    <3>9. inputs' = inputs
      BY <1>0 DEF chainVars, vars
    <3>10. RequestInv'
      <4>1. request'.then = "decide" => SealedIsFinished'
        BY <2>0, <2>1, <3>1, <3>3 DEF SealedIsFinished
      <4>2. request'.epoch <= F /\ (\A i \in 1 .. Len(request'.batch) :
                  /\ request'.first + i <= Len(inputs[F])
                  /\ inputs[F][request'.first + i] = request'.batch[i])
        BY <2>1, <3>3, <3>6
      <4>3. pc' # "finish"
        BY <3>1
      <4>. QED BY <2>0, <3>3, <3>4, <3>5, <3>9, <4>1, <4>2, <4>3 DEF RequestInv
    <3>. QED BY <2>0, <2>3, <3>1, <3>7, <3>8, <3>10 DEF NodeInv
  <2>7. \/ Goto("idle")
        \/ Goto("decide") /\ SealedIsFinished
        \/ /\ Len(request.batch) # 1
           /\ Call("enqueue", [request EXCEPT !.first = @ + 1, !.batch = Tail(@)])
    BY <1>4, <2>1 DEF next, Continue
  <2>. QED BY <2>4, <2>5, <2>6, <2>7
<1>. QED BY <1>0, <1>1, <1>3, <1>4

\* Two sequences of inputs are the same if one extends the other and they are
\* equally long.
LEMMA ExtendsAll ==
    ASSUME NEW s \in Seq(Inputs), NEW t \in Seq(Inputs), Extends(t, s), Len(s) = Len(t)
    PROVE  s = t
<1>1. \A i \in 1 .. Len(s) : s[i] = t[i]
  BY DEF Extends
<1>. QED BY <1>1

\* The manager finishes its epoch, which is one of the chain, complete.
LEMMA ManagerFinishes ==
    ASSUME NodeInv, pc = "finish", UNCHANGED <<chainVars, sent>>,
           MayFinish(request.epoch, request.first), mm' = Finished
    PROVE  LifecycleInv' /\ ManagerInv' /\ ClaimsInv' /\ ActiveEpoch' = ActiveEpoch + 1
<1>. DEFINE F == ActiveEpoch
<1>1. /\ F \in Nat /\ F \in Epochs /\ open \in Epochs /\ open \in Nat /\ MaxEpochs \in Nat
      /\ mm.active \in Seq(Inputs) /\ mm.finished \in Seq(Seq(Inputs))
      /\ \A e \in Epochs : inputs[e] \in Seq(Inputs)
      /\ F = Len(mm.finished)
      /\ \A e \in 1 .. F : mm.finished[e] = inputs[e - 1]
      /\ Extends(inputs[F], mm.active)
  BY NodeTypes DEF NodeInv, ManagerInv, ActiveEpoch
<1>2. /\ F < snap.open /\ snap.open <= open /\ snap.open \in Nat
      /\ Len(mm.active) = Len(inputs[F])
  BY <1>1 DEF NodeInv, RequestInv, SnapInv, MayFinish, Epochs
<1>3. mm.active = inputs[F]
  BY <1>1, <1>2, ExtendsAll
<1>4. /\ mm'.finished = Append(mm.finished, mm.active) /\ mm'.active = <<>> /\ mm'.processed = 0
      /\ mm' \in [finished : Seq(Seq(Inputs)), active : Seq(Inputs), processed : Nat]
  BY <1>1 DEF Finished
<1>5. F' = F + 1
  BY <1>1, <1>4 DEF ActiveEpoch
<1>. HIDE DEF F
<1>6. UNCHANGED <<inputs, open, finalized, restarts, sent>>
  BY DEF chainVars, vars
<1>7. ManagerInv'
  <2>1. F + 1 <= open /\ F + 1 \in Epochs
    BY <1>1, <1>2 DEF Epochs
  <2>2. ASSUME NEW e \in 1 .. F + 1 PROVE mm'.finished[e] = inputs[e - 1]
    <3>1. CASE e = F + 1
      <4>1. mm'.finished[e] = mm.active /\ e - 1 = F
        BY <1>1, <1>4, <3>1
      <4>. QED BY <1>3, <4>1
    <3>2. CASE e # F + 1
      <4>1. e \in 1 .. F /\ mm'.finished[e] = mm.finished[e]
        BY <1>1, <1>4, <3>2
      <4>. QED BY <1>1, <4>1
    <3>. QED BY <3>1, <3>2
  <2>3. inputs[F + 1] \in Seq(Inputs)
    BY <1>1, <2>1
  <2>4. Extends(inputs[F + 1], <<>>)
    BY <2>3 DEF Extends
  <2>5. Extends(inputs[ActiveEpoch], mm.active)'
    BY <1>4, <1>5, <1>6, <2>4 DEF F, Extends
  <2>6. mm'.processed <= Len(mm'.active)
    BY <1>4
  <2>. QED BY <1>4, <1>5, <1>6, <2>1, <2>2, <2>5, <2>6 DEF ManagerInv, F
<1>8. LifecycleInv' /\ ClaimsInv'
  BY <1>6 DEF NodeInv, LifecycleInv, TypeOK, OneSealedEpoch, ClaimsInv
<1>. QED BY <1>5, <1>7, <1>8 DEF F

\* Finishing an epoch keeps NodeInv.
LEMMA StepFinishEpochCall == NodeInv /\ FinishEpochCall => NodeInv'
<1>. SUFFICES ASSUME NodeInv, FinishEpochCall PROVE NodeInv'
  OBVIOUS
<1>. DEFINE F == ActiveEpoch
            may == MayFinish(request.epoch, request.first)
<1>0. /\ pc = "finish" /\ UNCHANGED <<chainVars, sent>>
      /\ \/ mm' = Finished /\ may /\ Continue(request.then)
         \/ mm' = Finished /\ may /\ Goto("down")
         \/ UNCHANGED mm /\ GoDown
  BY DEF FinishEpochCall, Execute
<1>1. CASE UNCHANGED mm /\ GoDown
  BY <1>0, <1>1, NodeRests DEF GoDown, Continue
<1>2. ASSUME mm' = Finished, may
      PROVE  LifecycleInv' /\ ManagerInv' /\ ClaimsInv' /\ F' = F + 1
  BY <1>0, <1>2, ManagerFinishes
<1>3. initialEpoch = 0
  BY <1>0 DEF NodeInv, StepInv
<1>4. CASE mm' = Finished /\ may /\ Goto("down")
  BY <1>2, <1>3, <1>4, RestingNode
<1>5. CASE mm' = Finished /\ may /\ Continue(request.then)
  <2>0. LifecycleInv' /\ ManagerInv' /\ ClaimsInv' /\ F' = F + 1
    BY <1>2, <1>5
  <2>1. /\ F \in Nat /\ F < snap.open /\ snap.open \in Nat /\ snap.next \in Nat
        /\ request.then \in {"status", "accumulating"}
        /\ request.then = "accumulating" => F = snap.next /\ snap.open = snap.next + 1
    BY <1>0, NodeTypes DEF NodeInv, RequestInv, SnapInv
  <2>2. pc' = request.then /\ UNCHANGED <<snap, status, initialEpoch>>
    BY <1>5, <2>1 DEF Continue, Goto
  <2>. HIDE DEF F
  <2>3. F + 1 <= snap.open
    BY <2>1
  <2>4. SnapInv'
    BY <1>0, <2>0, <2>2, <2>3, NodeKeepsSnap DEF F
  <2>5. StatusInv'
    <3>1. status \in [epoch : Nat, processed : Nat, pending : Nat] /\ status.epoch <= F
      BY <1>0 DEF NodeInv, StatusInv, F
    <3>2. status.epoch <= F + 1 /\ status.epoch # F + 1
      BY <2>1, <3>1
    <3>. QED BY <2>0, <2>1, <2>2, <3>1, <3>2 DEF StatusInv, F
  <2>6. StepInv'
    <3>1. request.then = "accumulating" => SealedIsFinished'
      BY <2>0, <2>1, <2>2 DEF SealedIsFinished, F
    <3>. QED BY <1>3, <2>1, <2>2, <3>1 DEF StepInv
  <2>7. RequestInv'
    BY <2>1, <2>2 DEF RequestInv
  <2>. QED BY <2>0, <2>4, <2>5, <2>6, <2>7 DEF NodeInv
<1>. QED BY <1>0, <1>1, <1>4, <1>5

\* The claim a node sends is computed from all the inputs of a sealed epoch.
LEMMA StepSendClaim == NodeInv /\ SendClaim => NodeInv'
<1>. SUFFICES ASSUME NodeInv, SendClaim PROVE NodeInv'
  OBVIOUS
<1>. DEFINE F == ActiveEpoch
            tx == [epoch  |-> snap.next,
                   inputs |-> IF snap.next < Len(mm.finished)
                              THEN mm.finished[snap.next + 1] ELSE mm.active]
<1>0. /\ pc = "claim" /\ UNCHANGED <<chainVars, mm>> /\ sent' = sent \cup {tx} /\ Goto("idle")
  BY DEF SendClaim, Continue
<1>1. /\ SealedIsFinished /\ snap.next \in Nat /\ F \in Nat /\ F \in Epochs /\ F <= open
      /\ open \in Nat /\ open \in Epochs
      /\ \A e \in 1 .. F : mm.finished[e] = inputs[e - 1]
  BY <1>0, NodeTypes DEF NodeInv, StepInv, SnapInv, ManagerInv
<1>2. snap.next + 1 = F
  BY <1>1 DEF SealedIsFinished
<1>. HIDE DEF F
<1>3. snap.next < F /\ snap.next < open /\ snap.next + 1 \in 1 .. F /\ (snap.next + 1) - 1 = snap.next
  BY <1>1, <1>2
<1>4. snap.next \in Epochs
  BY <1>1, <1>3, LifecycleAssumption DEF Epochs
<1>5. tx.epoch = snap.next /\ tx.inputs = inputs[snap.next]
  BY <1>1, <1>3 DEF F, ActiveEpoch
<1>. HIDE DEF tx
<1>6. UNCHANGED <<inputs, open, finalized, restarts, mm>>
  BY <1>0 DEF chainVars, vars
<1>7. ClaimsInv'
  <2>1. ASSUME NEW t \in sent'
        PROVE  t.epoch \in Epochs /\ t.epoch < open /\ t.inputs = inputs[t.epoch]
    <3>1. t \in sent \/ t = tx
      BY <1>0, <2>1
    <3>2. CASE t \in sent
      BY <3>2 DEF NodeInv, ClaimsInv
    <3>3. CASE t = tx
      BY <1>3, <1>4, <1>5, <3>3
    <3>. QED BY <3>1, <3>2, <3>3
  <2>2. restarts' \in Nat
    BY <1>6 DEF NodeInv, ClaimsInv
  <2>. QED BY <1>6, <2>1, <2>2 DEF ClaimsInv
<1>8. LifecycleInv' /\ ManagerInv' /\ ActiveEpoch' = ActiveEpoch
  BY <1>6 DEF NodeInv, LifecycleInv, TypeOK, OneSealedEpoch, ManagerInv, Extends, ActiveEpoch
<1>. QED BY <1>0, <1>7, <1>8, RestingNode

\* The node's last steps, its death and its restart.
LEMMA StepEnds == NodeInv /\ (SendFinalize \/ CallFails \/ Restart) => NodeInv'
<1>1. ASSUME NodeInv, SendFinalize PROVE NodeInv'
  BY <1>1, NodeRests DEF SendFinalize, Continue
<1>2. ASSUME NodeInv, CallFails PROVE NodeInv'
  BY <1>2, NodeRests DEF CallFails
<1>3. ASSUME NodeInv, Restart PROVE NodeInv'
  BY <1>3, NodeRests DEF Restart, Continue
<1>. QED BY <1>1, <1>2, <1>3

\* NodeInv is inductive.
LEMMA StepNode == NodeInv /\ [NodeNext]_systemVars => NodeInv'
<1>. SUFFICES ASSUME NodeInv, [NodeNext]_systemVars PROVE NodeInv'
  OBVIOUS
<1>1. CASE \/ \E x \in Inputs : ChainAdd(x)
           \/ ChainSeal
           \/ OtherClaims
           \/ \E tx \in sent : LandClaim(tx)
           \/ TimeOut
           \/ \E c \in Claims : ChainFinalize(c)
  BY <1>1, StepOfChain
<1>2. CASE Process
  BY <1>2, StepOfManager
<1>3. CASE React
  BY <1>3, StepReceiveBlock, StepGetCurrentEpochStatus, StepCatchUp, StepReactToPhase,
     StepEnqueueAccumulating, StepDecide, StepEnqueueInput, StepFinishEpochCall, StepSendClaim,
     StepEnds
  DEF React
<1>4. CASE CallFails \/ Restart
  BY <1>4, StepEnds
<1>5. CASE UNCHANGED systemVars
  <2>1. UNCHANGED <<mm, nodeVars>> /\ UNCHANGED <<finalized, mine, timedOut, restarts>>
    BY <1>5 DEF systemVars, chainVars, vars
  <2>2. LifecycleInv' /\ ChainGrows
    BY ChainSteps, StepLifecycle, ChainOnlyGrows DEF NodeInv
  <2>3. restarts' \in Nat /\ restarts <= restarts'
    BY <2>1 DEF NodeInv, ClaimsInv
  <2>. QED BY <2>1, <2>2, <2>3, ChainKeepsNode
<1>. QED BY <1>1, <1>2, <1>3, <1>4, <1>5 DEF NodeNext

\* It holds in every state the node, the manager and the chain can be in.
LEMMA NodeInvariant == NodeSpec => []NodeInv
  BY InitNode, StepNode, PTL DEF NodeSpec

-----------------------------------------------------------------------------
\* However often the node dies, whatever it forgets and however late its view
\* is, the machine manager computes on the inputs of the chain, in their order
\* (enqueue_inputs_of_finalized_epochs, update_sealed_epoch and
\* enqueue_remaning_inputs).
THEOREM MachineAlwaysFollowsChain == NodeSpec => []MachineFollowsChain
<1>1. NodeInv => MachineFollowsChain
  <2>. SUFFICES ASSUME NodeInv PROVE MachineFollowsChain
    OBVIOUS
  <2>1. /\ mm.active \in Seq(Inputs) /\ Len(mm.active) \in Nat
        /\ inputs[ActiveEpoch] \in Seq(Inputs)
        /\ Extends(inputs[ActiveEpoch], mm.active)
    BY NodeTypes DEF NodeInv, ManagerInv
  <2>2. LET s == inputs[ActiveEpoch]
            n == Len(mm.active)
        IN  SubSeq(s, 1, n) \in Seq(Inputs) /\ Extends(SubSeq(s, 1, n), mm.active)
            /\ Len(SubSeq(s, 1, n)) = n
    BY <2>1 DEF Extends
  <2>3. mm.active = SubSeq(inputs[ActiveEpoch], 1, Len(mm.active))
    BY <2>1, <2>2, ExtendsAll
  <2>4. Len(mm.active) <= Len(inputs[ActiveEpoch])
    BY <2>1 DEF Extends
  <2>. QED BY <2>3, <2>4 DEF NodeInv, ManagerInv, MachineFollowsChain, ActiveEpoch
<1>. QED BY <1>1, NodeInvariant, PTL

\* Every claim the node has ever sent is for an epoch that was sealed, computed
\* from all its inputs (get_epoch_claim and send_claim_tx).
THEOREM ClaimsAreAlwaysComplete == NodeSpec => []ClaimsAreComplete
<1>1. NodeInv => ClaimsAreComplete
  BY DEF NodeInv, ClaimsInv, ClaimsAreComplete
<1>. QED BY <1>1, NodeInvariant, PTL

\* finalizeEpoch is only asked for when the epoch is final already or the
\* node's claim for it stands and its challenge period is over, unless the
\* period has started again since the node looked (send_finalize_tx).
THEOREM FinalizationsAreAlwaysDue == NodeSpec => FinalizationsAreDue
<1>. DEFINE Due == \/ snap.next < Len(finalized)
                   \/ mine # {} /\ (timedOut \/ restarts > snap.restarts)
<1>1. NodeInv => [SendFinalize => Due]_systemVars
  BY DEF SendFinalize, NodeInv, SnapInv, StepInv
<1>. QED BY <1>1, NodeInvariant, PTL DEF FinalizationsAreDue

=============================================================================
