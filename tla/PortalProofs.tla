---------------------------- MODULE PortalProofs ----------------------------
(***************************************************************************)
(* Theorems about OutputExecution and Portal for every number of epochs,   *)
(* outputs and calls.  ExecutionInv says what the lock, the bits and the   *)
(* stack of calls have to do with each other; BooksInv, which builds on    *)
(* it, what the assets have to do with deposits and withdrawals.           *)
(***************************************************************************)
EXTENDS Portal, SumProofs

-----------------------------------------------------------------------------
(* Positions.                                                              *)

\* Quotient and remainder are unique.
LEMMA DivisionIsUnique ==
    ASSUME NEW R \in Nat \ {0}, NEW a \in Nat, NEW b \in Nat,
           NEW i \in 0 .. R - 1, NEW j \in 0 .. R - 1, a * R + i = b * R + j
    PROVE  a = b /\ i = j
<1>1. ASSUME NEW c \in Nat, NEW d \in Nat, NEW k \in 0 .. R - 1, NEW l \in 0 .. R - 1,
             c < d
      PROVE  c * R + k # d * R + l
  <2>1. (c + 1) * R <= d * R
    <3>1. PICK m \in Nat : d = c + 1 + m
      <4>1. d - (c + 1) \in Nat /\ d = c + 1 + (d - (c + 1))
        BY <1>1
      <4>. QED BY <4>1
    <3>2. d * R = (c + 1) * R + m * R /\ m * R \in Nat /\ (c + 1) * R \in Nat
      BY <3>1
    <3>. QED BY <3>2
  <2>2. (c + 1) * R = c * R + R /\ c * R \in Nat /\ d * R \in Nat
    OBVIOUS
  <2>. QED BY <2>1, <2>2
<1>2. a = b
  BY <1>1
<1>3. a * R \in Nat /\ a * R = b * R
  BY <1>2
<1>. QED BY <1>2, <1>3

\* What an output is made of are numbers.
LEMMA OutputIndicesFit ==
    ASSUME NEW o \in Outputs
    PROVE  /\ o.epoch \in Nat /\ o.input \in Nat /\ o.output \in Nat
           /\ o = [epoch |-> o.epoch, input |-> o.input, output |-> o.output]
<1>1. IndexRange \in Nat /\ Double \in Nat
  BY IndexAssumption DEF Double
<1>2. Word \in Nat
  BY <1>1 DEF Word
<1>3. o \in [epoch : Index, input : Index, output : Index]
  BY IndexAssumption
<1>4. Index \subseteq Nat
  BY <1>2 DEF Index
<1>. QED BY <1>3, <1>4

\* Half a word, and a word, in units of an index.
LEMMA WordsFit ==
    /\ IndexRange \in Nat \ {0} /\ Double \in Nat \ {0} /\ Word \in Nat \ {0}
    /\ IndexRange <= Double /\ Double <= Word
<1>1. ASSUME NEW m \in Nat \ {0}
      PROVE  m * m \in Nat \ {0} /\ m <= m * m
  <2>1. PICK k \in Nat : m = k + 1
    <3>1. m - 1 \in Nat /\ m = (m - 1) + 1
      OBVIOUS
    <3>. QED BY <3>1
  <2>2. m * m = m * k + m /\ m * k \in Nat
    BY <2>1
  <2>. QED BY <2>2
<1>2. IndexRange \in Nat \ {0}
  BY IndexAssumption
<1>3. Double \in Nat \ {0} /\ IndexRange <= Double
  BY <1>1, <1>2 DEF Double
<1>4. Word \in Nat \ {0} /\ Double <= Word
  BY <1>1, <1>3 DEF Word
<1>. QED BY <1>2, <1>3, <1>4

\* Nothing is shifted out of a field an index fits in.
LEMMA ShiftsFit ==
    ASSUME NEW m \in Nat \ {0}, NEW n \in Nat, n < m, m * m <= Word
    PROVE  ShiftLeft(n, m) = n * m
<1>1. n * m \in Nat /\ n * m < m * m
  <2>1. PICK k \in Nat : m = n + 1 + k
    <3>1. m - (n + 1) \in Nat /\ m = n + 1 + (m - (n + 1))
      OBVIOUS
    <3>. QED BY <3>1
  <2>2. m * m = n * m + m + k * m /\ n * m \in Nat /\ k * m \in Nat
    BY <2>1
  <2>. QED BY <2>2
<1>2. n * m < Word /\ m * m \in Nat /\ Word \in Nat \ {0}
  BY <1>1, WordsFit
<1>3. \A x \in Nat : x < Word => x % Word = x
  BY WordsFit
<1>. QED BY <1>1, <1>2, <1>3 DEF ShiftLeft

\* No two outputs whose indices fit in their fields share a bit.
LEMMA BitsDiffer ==
    ASSUME NEW o \in Outputs, NEW p \in Outputs, InRange(o), InRange(p),
           GetBitMaskPosition(o) = GetBitMaskPosition(p)
    PROVE  o = p
<1>1. ASSUME NEW q \in Outputs, InRange(q)
      PROVE  /\ q.epoch \in 0 .. IndexRange - 1 /\ q.input \in 0 .. IndexRange - 1
             /\ q.output \in Nat
             /\ GetBitMaskPosition(q) = (q.output * IndexRange + q.input) * IndexRange + q.epoch
  <2>1. /\ q.epoch \in Nat /\ q.epoch < IndexRange /\ q.input \in Nat /\ q.input < IndexRange
        /\ q.output \in Nat /\ q.output < Double
    BY <1>1, OutputIndicesFit DEF InRange
  <2>2. ShiftLeft(q.output, Double) = q.output * Double
    <3>1. Double * Double <= Word
      BY WordsFit DEF Word
    <3>. QED BY <2>1, <3>1, WordsFit, ShiftsFit
  <2>3. ShiftLeft(q.input, IndexRange) = q.input * IndexRange
    <3>1. IndexRange * IndexRange <= Word
      BY WordsFit DEF Double
    <3>. QED BY <2>1, <3>1, WordsFit, ShiftsFit
  <2>4. q.output * Double = (q.output * IndexRange) * IndexRange
    BY <2>1, WordsFit DEF Double
  <2>. DEFINE m == q.output * IndexRange
  <2>5. m \in Nat /\ m * IndexRange + q.input * IndexRange = (m + q.input) * IndexRange
    BY <2>1, WordsFit
  <2>6. GetBitMaskPosition(q) = m * IndexRange + q.input * IndexRange + q.epoch
    BY <2>2, <2>3, <2>4 DEF GetBitMaskPosition
  <2>7. q.epoch \in 0 .. IndexRange - 1 /\ q.input \in 0 .. IndexRange - 1
    BY <2>1, WordsFit
  <2>. QED BY <2>1, <2>5, <2>6, <2>7
<1>. DEFINE m == o.output * IndexRange + o.input
            n == p.output * IndexRange + p.input
<1>2. /\ o.epoch \in 0 .. IndexRange - 1 /\ p.epoch \in 0 .. IndexRange - 1
      /\ o.input \in 0 .. IndexRange - 1 /\ p.input \in 0 .. IndexRange - 1
      /\ o.output \in Nat /\ p.output \in Nat
  BY <1>1
<1>3. m \in Nat /\ n \in Nat
  BY <1>2, WordsFit
<1>4. m * IndexRange + o.epoch = n * IndexRange + p.epoch
  BY <1>1
<1>. HIDE DEF m, n
<1>5. m = n /\ o.epoch = p.epoch
  BY <1>2, <1>3, <1>4, WordsFit, DivisionIsUnique
<1>6. o.output = p.output /\ o.input = p.input
  <2>1. o.output * IndexRange + o.input = p.output * IndexRange + p.input
    BY <1>5 DEF m, n
  <2>2. IndexRange \in Nat \ {0}
    BY WordsFit
  <2>3. ASSUME NEW a \in Nat, NEW b \in 0 .. IndexRange - 1,
               NEW c \in Nat, NEW d \in 0 .. IndexRange - 1,
               a * IndexRange + b = c * IndexRange + d
        PROVE  a = c /\ b = d
    BY <2>2, <2>3, DivisionIsUnique
  <2>. QED BY <1>2, <2>1, <2>3
<1>. QED BY <1>5, <1>6, OutputIndicesFit

-----------------------------------------------------------------------------
(* Lock, bits and calls.                                                   *)

\* The lock lets one call be open, whose output's bit is clear, and what that
\* call would restore of bits and executions is what there is.
OneCall ==
    frames # <<>> =>
        /\ frames = <<Top>>
        /\ Top.output \in Outputs /\ GetBitMaskPosition(Top.output) \notin outputBitmask
        /\ Top.saved.outputBitmask = outputBitmask /\ Top.saved.executed = executed

\* What lock, bits and executions have to do with each other.
ExecutionInv ==
    /\ executed \in [Outputs -> Nat]
    /\ BitsAreExecutions
    /\ LockIsReleased
    /\ OneCall

\* What a step of the composition is to the output contract.
LEMMA StepsOfExecution ==
    ASSUME [PortalNext]_systemVars
    PROVE  \/ UNCHANGED <<outputBitmask, lock, frames, executed>>
           \/ \E o \in Outputs : ExecuteOutput(o)
           \/ CallSucceeds
           \/ CallFails
<1>1. ASSUME NEW n, NEW v, EtherDeposit(n, v)
      PROVE  UNCHANGED <<outputBitmask, lock, frames, executed>>
  BY <1>1 DEF EtherDeposit, Take
<1>2. ASSUME NEW t, NEW n, Erc20Deposit(t, n)
      PROVE  UNCHANGED <<outputBitmask, lock, frames, executed>>
  BY <1>2 DEF Erc20Deposit, Take
<1>3. CASE AddRequest \/ Seal
  BY <1>3 DEF AddRequest, Seal
<1>4. ASSUME NEW drive, Finalize(drive)
      PROVE  UNCHANGED <<outputBitmask, lock, frames, executed>>
  BY <1>4 DEF Finalize, OnNewEpoch
<1>5. ASSUME NEW o \in Outputs, StartCall(o) PROVE ExecuteOutput(o)
  BY <1>5 DEF StartCall
<1>6. CASE OtherCallReturns \/ Withdraw \/ WithdrawSilently
  BY <1>6 DEF OtherCallReturns, Withdraw, WithdrawSilently, EndCall
<1>7. CASE Revert
  BY <1>7 DEF Revert
<1>8. CASE UNCHANGED systemVars
  BY <1>8 DEF systemVars, vars
<1>. QED BY <1>1, <1>2, <1>3, <1>4, <1>5, <1>6, <1>7, <1>8 DEF PortalNext

\* No output is executed, and no call open, at the start.
LEMMA InitExecution == PortalInit => ExecutionInv
<1>. SUFFICES ASSUME PortalInit PROVE ExecutionInv
  OBVIOUS
<1>1. outputBitmask = {} /\ lock = FALSE /\ frames = <<>> /\ executed = [o \in Outputs |-> 0]
  BY DEF PortalInit, Init
<1>2. \A o \in Outputs : executed[o] = 0 /\ \A p \in SameBit(o) : executed[p] = 0
  BY <1>1 DEF SameBit
<1>3. BitsAreExecutions
  BY <1>1, <1>2 DEF BitsAreExecutions
<1>. QED BY <1>1, <1>3 DEF ExecutionInv, LockIsReleased, OneCall

\* Every step keeps lock, bits and executions together.
LEMMA StepExecution == ExecutionInv /\ [PortalNext]_systemVars => ExecutionInv'
<1>. SUFFICES ASSUME ExecutionInv, [PortalNext]_systemVars PROVE ExecutionInv'
  OBVIOUS
<1>1. CASE UNCHANGED <<outputBitmask, lock, frames, executed>>
  BY <1>1 DEF ExecutionInv, BitsAreExecutions, SameBit, LockIsReleased, OneCall, Top
<1>2. ASSUME NEW o \in Outputs, ExecuteOutput(o) PROVE ExecutionInv'
  <2>1. frames = <<>>
    BY <1>2 DEF ExecuteOutput, ExecutionInv, LockIsReleased
  <2>2. /\ frames' = <<[output |-> o, saved |-> Storage]>> /\ lock' = TRUE
        /\ outputBitmask' = outputBitmask /\ executed' = executed
        /\ GetBitMaskPosition(o) \notin outputBitmask
    BY <1>2, <2>1 DEF ExecuteOutput
  <2>3. Top' = [output |-> o, saved |-> Storage] /\ frames' = <<Top'>>
    BY <2>2 DEF Top
  <2>4. OneCall'
    BY <2>2, <2>3 DEF OneCall, Storage
  <2>. QED BY <2>2, <2>4 DEF ExecutionInv, BitsAreExecutions, SameBit, LockIsReleased
<1>3. CASE CallSucceeds \/ CallFails
  <2>1. /\ frames # <<>> /\ frames' = Callers /\ lock' = FALSE
        /\ frames = <<Top>> /\ Top.output \in Outputs
        /\ GetBitMaskPosition(Top.output) \notin outputBitmask
        /\ Top.saved.outputBitmask = outputBitmask /\ Top.saved.executed = executed
    BY <1>3 DEF CallSucceeds, CallFails, ExecutionInv, OneCall
  <2>2. frames' = <<>>
    BY <2>1 DEF Callers
  <2>. DEFINE o == Top.output
  <2>3. CASE CallSucceeds
    <3>1. /\ outputBitmask' = outputBitmask \cup {GetBitMaskPosition(o)}
          /\ executed' = [executed EXCEPT ![o] = @ + 1]
      BY <2>3 DEF CallSucceeds
    <3>2. \A p \in SameBit(o) : executed[p] = 0
      <4>1. ASSUME NEW p \in SameBit(o), executed[p] > 0 PROVE FALSE
        <5>1. p \in Outputs /\ GetBitMaskPosition(p) = GetBitMaskPosition(o)
          BY DEF SameBit
        <5>2. InRange(o) /\ InRange(p) => p = o
          BY <2>1, <5>1, BitsDiffer
        <5>. QED BY <2>1, <4>1, <5>2 DEF ExecutionInv, BitsAreExecutions
      <4>2. \A p \in SameBit(o) : executed[p] \in Nat
        BY DEF ExecutionInv, SameBit
      <4>. QED BY <4>1, <4>2
    <3>3. executed[o] = 0 /\ executed' \in [Outputs -> Nat] /\ executed'[o] = 1
      BY <2>1, <3>1, <3>2 DEF ExecutionInv, SameBit
    <3>4. \A p \in Outputs \ {o} : executed'[p] = executed[p]
      BY <3>1 DEF ExecutionInv
    <3>5. BitsAreExecutions'
      <4>. SUFFICES ASSUME NEW q \in Outputs
                    PROVE  /\ executed'[q] <= 1
                           /\ \A p \in SameBit(q) : executed'[q] > 0 /\ executed'[p] > 0 => p = q
                           /\ GetBitMaskPosition(q) \in outputBitmask' <=>
                                 \E p \in SameBit(q) :
                                    executed'[p] > 0 /\ (InRange(q) /\ InRange(p) => p = q)
        BY DEF BitsAreExecutions, SameBit
      <4>1. CASE q \in SameBit(o)
        <5>1. SameBit(q) = SameBit(o) /\ o \in SameBit(q)
          BY <2>1, <4>1 DEF SameBit
        <5>2. \A p \in SameBit(o) : p # o => executed'[p] = 0
          BY <3>2, <3>4 DEF SameBit
        <5>3. InRange(q) /\ InRange(o) => o = q
          BY <2>1, <4>1, BitsDiffer DEF SameBit
        <5>4. GetBitMaskPosition(q) \in outputBitmask'
          BY <3>1, <4>1 DEF SameBit
        <5>5. executed'[q] <= 1
          BY <3>3, <4>1, <5>2
        <5>6. \A p \in SameBit(q) : executed'[q] > 0 /\ executed'[p] > 0 => p = q
          BY <4>1, <5>1, <5>2
        <5>. QED BY <3>3, <5>1, <5>3, <5>4, <5>5, <5>6
      <4>2. CASE q \notin SameBit(o)
        <5>1. /\ q # o /\ o \notin SameBit(q)
              /\ GetBitMaskPosition(q) \in outputBitmask' <=> GetBitMaskPosition(q) \in outputBitmask
          BY <2>1, <3>1, <4>2 DEF SameBit
        <5>2. executed'[q] = executed[q] /\ \A p \in SameBit(q) : executed'[p] = executed[p]
          BY <3>4, <5>1 DEF SameBit
        <5>. QED BY <5>1, <5>2 DEF ExecutionInv, BitsAreExecutions
      <4>. QED BY <4>1, <4>2
    <3>. QED
      BY <2>1, <2>2, <3>3, <3>5 DEF ExecutionInv, LockIsReleased, OneCall
  <2>4. CASE CallFails
    <3>1. outputBitmask' = outputBitmask /\ executed' = executed
      BY <2>1, <2>4 DEF CallFails
    <3>. QED
      BY <2>1, <2>2, <3>1
      DEF ExecutionInv, BitsAreExecutions, SameBit, LockIsReleased, OneCall
  <2>. QED BY <1>3, <2>3, <2>4
<1>. QED BY <1>1, <1>2, <1>3, StepsOfExecution

\* The lock is held exactly while a call is open, however calls end.
THEOREM LockIsAlwaysReleased == PortalSpec => []LockIsReleased
<1>1. ExecutionInv => LockIsReleased
  BY DEF ExecutionInv
<1>. QED BY <1>1, InitExecution, StepExecution, PTL DEF PortalSpec

\* For any indices, a bit stands for one execution of one of the outputs that
\* share it, and outputs whose indices fit in their fields share none.
THEOREM BitsAreAlwaysExecutions == PortalSpec => []BitsAreExecutions
<1>1. ExecutionInv => BitsAreExecutions
  BY DEF ExecutionInv
<1>. QED BY <1>1, InitExecution, StepExecution, PTL DEF PortalSpec

-----------------------------------------------------------------------------
(* Sums over inputs, drives and outputs.                                   *)

\* Everything the inputs announce, of whatever epoch.
AllAnnounced(op, ins) == SumOf([q \in Pairs(ins) |-> AnnouncedBy(op, ins[q[1]][q[2]])])

\* Named, so that lemmas about the inputs can be cited of any function.
InputsTyped(ins) == ins \in [Chain!Epochs -> Seq(PortalInputs)]

\* There are finitely many epochs.
LEMMA EpochsAreFinite == IsFiniteSet(Chain!Epochs)
<1>1. 0 \in Int /\ MaxEpochs + 1 \in Int
  BY IndexAssumption
<1>. QED BY <1>1, FS_Interval DEF Chain!Epochs

\* An input announces a natural number of units.
LEMMA AnnouncedByIsNat ==
    ASSUME NEW x \in PortalInputs, NEW op PROVE AnnouncedBy(op, x) \in Nat
  BY PortalAssumption DEF PortalInputs, Request, AnnouncedBy

\* The inputs of some epochs, as the function that is summed.
LEMMA AnnouncedIsSum ==
    ASSUME NEW S, IsFiniteSet(S), NEW ins \in [S -> Seq(PortalInputs)], NEW op
    PROVE  /\ IsFiniteSet(Pairs(ins))
           /\ \A q \in Pairs(ins) : q[1] \in S /\ q[2] \in DOMAIN ins[q[1]]
           /\ [q \in Pairs(ins) |-> AnnouncedBy(op, ins[q[1]][q[2]])] \in [Pairs(ins) -> Nat]
           /\ AllAnnounced(op, ins) \in Nat
<1>1. \A e \in S : ins[e] \in Seq(PortalInputs) /\ DOMAIN ins[e] = 1 .. Len(ins[e])
  OBVIOUS
<1>2. ASSUME NEW e \in S PROVE IsFiniteSet(DOMAIN ins[e])
  <2>1. Len(ins[e]) \in Int /\ 1 \in Int
    BY <1>1
  <2>. QED BY <1>1, <2>1, FS_Interval
<1>3. IsFiniteSet(Pairs(ins))
  BY <1>2, PairsAreFinite
<1>4. ASSUME NEW q \in Pairs(ins)
      PROVE  q[1] \in S /\ q[2] \in DOMAIN ins[q[1]] /\ AnnouncedBy(op, ins[q[1]][q[2]]) \in Nat
  <2>1. PICK e, i : e \in S /\ i \in DOMAIN ins[e] /\ q = <<e, i>>
    BY InPairs
  <2>2. ins[e][i] \in PortalInputs
    BY <1>1, <2>1
  <2>. QED BY <2>1, <2>2, AnnouncedByIsNat
<1>. QED BY <1>3, <1>4, SumIsNat DEF AllAnnounced

\* The inputs of two tables that differ in one input.
LEMMA AnnouncedOfOneMore ==
    ASSUME NEW op, NEW ins, InputsTyped(ins), NEW new, InputsTyped(new),
           NEW e, NEW n, OneMore(ins, new, e, n)
    PROVE  AllAnnounced(op, new) = AllAnnounced(op, ins) + AnnouncedBy(op, new[e][n])
<1>. DEFINE f == [q \in Pairs(ins) |-> AnnouncedBy(op, ins[q[1]][q[2]])]
            g == [q \in Pairs(new) |-> AnnouncedBy(op, new[q[1]][q[2]])]
            here == <<e, n>>
<1>1. IsFiniteSet(Pairs(ins)) /\ f \in [Pairs(ins) -> Nat]
  BY EpochsAreFinite, AnnouncedIsSum DEF InputsTyped
<1>2. IsFiniteSet(Pairs(new)) /\ g \in [Pairs(new) -> Nat]
  BY EpochsAreFinite, AnnouncedIsSum DEF InputsTyped
<1>3. /\ Pairs(new) = Pairs(ins) \cup {here} /\ here \notin Pairs(ins)
      /\ \A q \in Pairs(ins) : new[q[1]][q[2]] = ins[q[1]][q[2]]
  BY OnePairMore
<1>4. ASSUME NEW q \in Pairs(ins) PROVE g[q] = f[q]
  <2>2. new[q[1]][q[2]] = ins[q[1]][q[2]]
    BY <1>3
  <2>3. q \in Pairs(new)
    BY <1>3
  <2>4. g[q] = AnnouncedBy(op, new[q[1]][q[2]]) /\ f[q] = AnnouncedBy(op, ins[q[1]][q[2]])
    BY <2>3, Zenon
  <2>. QED BY <2>2, <2>4, Zenon
<1>5. g[here] = AnnouncedBy(op, new[e][n])
  BY <1>3
<1>6. f = [q \in Pairs(ins) |-> g[q]]
  BY <1>4
<1>7. AllAnnounced(op, ins) = SumOf(f) /\ AllAnnounced(op, new) = SumOf(g)
  BY DEF AllAnnounced
<1>. HIDE DEF f, g, here
<1>8. g \in [Pairs(ins) \cup {here} -> Nat]
  BY <1>2, <1>3
<1>9. SumOf(g) = SumOf([q \in Pairs(ins) |-> g[q]]) + g[here]
  BY <1>1, <1>3, <1>8, SumGrows
<1>. QED BY <1>5, <1>6, <1>7, <1>9

\* One more input, as EpochLifecycle adds it.
Added(ins, new, e, x) == new = [ins EXCEPT ![e] = Append(@, x)]

\* Another input adds what it announces, if it is put in a box at all.
LEMMA AnnouncedGrows ==
    ASSUME NEW ins, InputsTyped(ins), NEW x \in PortalInputs, NEW e, NEW op,
           NEW new, Added(ins, new, e, x)
    PROVE  /\ InputsTyped(new)
           /\ AllAnnounced(op, ins) <= AllAnnounced(op, new)
           /\ AllAnnounced(op, new) <= AllAnnounced(op, ins) + AnnouncedBy(op, x)
<1>. DEFINE S == Chain!Epochs
            longer == Append(ins[e], x)
<1>1. ins \in [S -> Seq(PortalInputs)] /\ IsFiniteSet(S)
  BY EpochsAreFinite DEF InputsTyped
<1>. HIDE DEF S
<1>2. new \in [S -> Seq(PortalInputs)]
  <2>1. e \in S => longer \in Seq(PortalInputs)
    <3>1. e \in S => ins[e] \in Seq(PortalInputs)
      BY <1>1
    <3>. QED BY <3>1
  <2>2. new = [ins EXCEPT ![e] = longer]
    BY DEF Added
  <2>. HIDE DEF longer
  <2>. QED BY <1>1, <2>1, <2>2, Zenon
<1>3. AllAnnounced(op, ins) \in Nat
  BY <1>1, AnnouncedIsSum
<1>4. AllAnnounced(op, new) \in Nat /\ AnnouncedBy(op, x) \in Nat
  <2>1. AllAnnounced(op, new) \in Nat
    BY <1>1, <1>2, AnnouncedIsSum
  <2>. QED BY <2>1, AnnouncedByIsNat
<1>5. InputsTyped(new)
  BY <1>2 DEF InputsTyped, S
<1>6. CASE e \notin S
  <2>1. new = ins
    BY <1>1, <1>6 DEF Added
  <2>2. AllAnnounced(op, new) = AllAnnounced(op, ins)
    BY <2>1
  <2>. QED BY <1>3, <1>4, <1>5, <2>2
<1>7. CASE e \in S
  <2>. DEFINE n == Len(ins[e]) + 1
  <2>1. ins[e] \in Seq(PortalInputs) /\ new[e] = Append(ins[e], x)
    BY <1>1, <1>7 DEF Added
  <2>2. /\ n \notin DOMAIN ins[e] /\ DOMAIN new[e] = DOMAIN ins[e] \cup {n}
        /\ new[e][n] = x /\ \A i \in DOMAIN ins[e] : new[e][i] = ins[e][i]
    BY <2>1
  <2>3. \A d \in S \ {e} : new[d] = ins[d]
    BY <1>1 DEF Added
  <2>. HIDE DEF n
  <2>4. AllAnnounced(op, new) = AllAnnounced(op, ins) + AnnouncedBy(op, new[e][n])
    <3>1. OneMore(ins, new, e, n)
      BY <1>1, <1>2, <1>7, <2>2, <2>3 DEF OneMore
    <3>. QED BY <1>5, <3>1, AnnouncedOfOneMore
  <2>. QED BY <1>3, <1>4, <1>5, <2>2, <2>4
<1>. QED BY <1>6, <1>7

-----------------------------------------------------------------------------
(* What drives order and what executed outputs were paid.                  *)

\* There are finitely many places for outputs.
LEMMA OutputsAreFinite == IsFiniteSet(Outputs) /\ IsFiniteSet(Places)
<1>. DEFINE place == [o \in Outputs |-> Place(o)]
<1>1. place \in Surjection(Outputs, Places)
  BY DEF Surjection, Places
<1>. QED BY <1>1, PortalAssumption, FS_Surjection

\* A drive has finitely many places, each with a call.
LEMMA DriveHolds ==
    ASSUME NEW drive \in OutputDrives
    PROVE  /\ IsFiniteSet(DOMAIN drive)
           /\ \A p \in DOMAIN drive : drive[p] \in Calls
<1>1. PICK places \in SUBSET Places : drive \in [places -> Calls]
  BY DEF OutputDrives
<1>2. IsFiniteSet(places)
  BY OutputsAreFinite, FS_Subset
<1>. QED BY <1>1, <1>2

\* What an output orders of an asset, or of a kind of assets, is a natural number.
LEMMA AmountIsOrdered ==
    ASSUME NEW call \in Calls, NEW asset, NEW op
    PROVE  Amount(call, asset) \in Nat /\ OrderedBy(op, call) \in Nat
<1>1. call # Elsewhere => call.amount \in Nat
  BY PortalAssumption DEF Withdrawals
<1>2. 0 \in Nat
  OBVIOUS
<1>. QED BY <1>1, <1>2 DEF Amount, OrderedBy

\* Named for the same reason.
DrivesTyped(ds) == ds \in Seq(OutputDrives)

\* What drives order is a sum over finitely many calls.
LEMMA OrderedIsSum ==
    ASSUME NEW ds, DrivesTyped(ds), NEW op
    PROVE  /\ IsFiniteSet(Pairs(ds))
           /\ \A q \in Pairs(ds) : ds[q[1]][q[2]] \in Calls
           /\ [q \in Pairs(ds) |-> OrderedBy(op, ds[q[1]][q[2]])] \in [Pairs(ds) -> Nat]
           /\ Ordered(op, ds) \in Nat
<1>1. DOMAIN ds = 1 .. Len(ds) /\ Len(ds) \in Int /\ \A i \in DOMAIN ds : ds[i] \in OutputDrives
  BY DEF DrivesTyped
<1>2. IsFiniteSet(Pairs(ds))
  <2>1. IsFiniteSet(DOMAIN ds)
    <3>1. 1 \in Int
      OBVIOUS
    <3>. QED BY <1>1, <3>1, FS_Interval
  <2>2. \A i \in DOMAIN ds : IsFiniteSet(DOMAIN ds[i])
    BY <1>1, DriveHolds
  <2>. QED BY <2>1, <2>2, PairsAreFinite
<1>3. ASSUME NEW q \in Pairs(ds) PROVE ds[q[1]][q[2]] \in Calls
  <2>1. PICK i, p : i \in DOMAIN ds /\ p \in DOMAIN ds[i] /\ q = <<i, p>>
    BY InPairs
  <2>2. ds[i][p] \in Calls
    BY <1>1, <2>1, DriveHolds
  <2>. QED BY <2>1, <2>2
<1>4. \A q \in Pairs(ds) : OrderedBy(op, ds[q[1]][q[2]]) \in Nat
  BY <1>3, AmountIsOrdered
<1>. QED BY <1>2, <1>3, <1>4, SumIsNat DEF Ordered

\* The machine put an output in the drives ds at the place that o leads to.
Found(o, ds) == o.epoch < Len(ds) /\ Place(o) \in DOMAIN ds[o.epoch + 1]

\* What o orders in the drives ds, if it is one of the outputs that are done;
\* n says how much a call counts.
Share(o, n, ds, done) ==
    IF Found(o, ds) /\ o \in done THEN n[ds[o.epoch + 1][Place(o)]] ELSE 0

PaidFor(n, ds, done) == SumOf([o \in Outputs |-> Share(o, n, ds, done)])

\* What calls order of an asset, and of a kind of assets.
OfAsset(asset) == [call \in Calls |-> Amount(call, asset)]
OfOp(op) == [call \in Calls |-> OrderedBy(op, call)]

\* Both count in natural numbers.
LEMMA CallsAreCounted ==
    \A x : OfAsset(x) \in [Calls -> Nat] /\ OfOp(x) \in [Calls -> Nat]
<1>. TAKE x
<1>1. \A call \in Calls : Amount(call, x) \in Nat /\ OrderedBy(x, call) \in Nat
  BY AmountIsOrdered
<1>. QED BY <1>1 DEF OfAsset, OfOp

\* What is found at the place of an output is a call.
LEMMA FoundIsCall ==
    ASSUME NEW ds, DrivesTyped(ds), NEW o \in Outputs, Found(o, ds)
    PROVE  o.epoch + 1 \in DOMAIN ds /\ ds[o.epoch + 1][Place(o)] \in Calls
<1>1. o.epoch + 1 \in DOMAIN ds /\ ds[o.epoch + 1] \in OutputDrives
  BY OutputIndicesFit DEF Found, DrivesTyped
<1>. QED BY <1>1, DriveHolds DEF Found

\* What executed outputs order is a sum of natural numbers.
LEMMA PaidForIsSum ==
    ASSUME NEW ds, DrivesTyped(ds), NEW n \in [Calls -> Nat], NEW done
    PROVE  /\ \A o \in Outputs : Share(o, n, ds, done) \in Nat
           /\ [o \in Outputs |-> Share(o, n, ds, done)] \in [Outputs -> Nat]
           /\ PaidFor(n, ds, done) \in Nat
<1>1. ASSUME NEW o \in Outputs PROVE Share(o, n, ds, done) \in Nat
  BY FoundIsCall DEF Share
<1>. QED BY <1>1, OutputsAreFinite, SumIsNat DEF PaidFor

\* What is done was found in the drive of a final epoch.
DoneAreFound(ds, done) == \A o \in done : o \in Outputs /\ Found(o, ds)

\* Another final epoch pays nothing.
LEMMA PaidForSame ==
    ASSUME NEW ds, DrivesTyped(ds), NEW drive \in OutputDrives, NEW n, NEW done,
           DoneAreFound(ds, done)
    PROVE  PaidFor(n, Append(ds, drive), done) = PaidFor(n, ds, done)
<1>. DEFINE longer == Append(ds, drive)
<1>1. /\ Len(ds) \in Nat /\ Len(longer) = Len(ds) + 1
      /\ \A i \in 1 .. Len(ds) : longer[i] = ds[i]
  BY DEF DrivesTyped
<1>. HIDE DEF longer
<1>2. ASSUME NEW o \in Outputs
      PROVE  Share(o, n, longer, done) = Share(o, n, ds, done)
  <2>1. CASE o \in done
    <3>1. o.epoch \in Nat /\ o.epoch < Len(ds)
      BY <2>1, OutputIndicesFit DEF DoneAreFound, Found
    <3>2. longer[o.epoch + 1] = ds[o.epoch + 1] /\ o.epoch < Len(longer)
      BY <1>1, <3>1
    <3>. QED BY <3>1, <3>2 DEF Share, Found
  <2>2. CASE o \notin done
    BY <2>2 DEF Share
  <2>. QED BY <2>1, <2>2
<1>3. [o \in Outputs |-> Share(o, n, longer, done)] = [o \in Outputs |-> Share(o, n, ds, done)]
  BY <1>2
<1>4. PaidFor(n, longer, done) = PaidFor(n, ds, done)
  BY <1>3 DEF PaidFor
<1>. QED BY <1>4 DEF longer

\* Executing an output pays what it orders.
LEMMA PaidForMore ==
    ASSUME NEW ds, DrivesTyped(ds), NEW o \in Outputs, Found(o, ds),
           NEW n \in [Calls -> Nat], NEW done, o \notin done
    PROVE  PaidFor(n, ds, done \cup {o}) = PaidFor(n, ds, done) + n[ds[o.epoch + 1][Place(o)]]
<1>. DEFINE k == n[ds[o.epoch + 1][Place(o)]]
            f == [p \in Outputs |-> Share(p, n, ds, done)]
            h == [p \in Outputs |-> Share(p, n, ds, done \cup {o})]
<1>1. k \in Nat
  BY FoundIsCall
<1>2. f \in [Outputs -> Nat] /\ h \in [Outputs -> Nat] /\ IsFiniteSet(Outputs)
  BY PaidForIsSum, OutputsAreFinite
<1>3. h[o] = f[o] + k
  <2>1. f[o] = 0 /\ h[o] = k
    BY DEF Share
  <2>. HIDE DEF k
  <2>. QED BY <1>1, <2>1
<1>4. ASSUME NEW p \in Outputs \ {o} PROVE h[p] = f[p]
  BY DEF Share
<1>. HIDE DEF f, h, k
<1>5. SumOf(h) = SumOf(f) + k
  BY <1>1, <1>2, <1>3, <1>4, SumWithMore
<1>. QED BY <1>5 DEF PaidFor, f, h, k

\* The outputs that took effect, of what is found in the drives.
LEMMA ExecutedIsPaidFor ==
    ASSUME DrivesTyped(drives), DoneAreFound(drives, ExecutedOutputs)
    PROVE  /\ \A a : ExecutedOf(a) = PaidFor(OfAsset(a), drives, ExecutedOutputs)
           /\ \A op : ExecutedBy(op) = PaidFor(OfOp(op), drives, ExecutedOutputs)
<1>. DEFINE E == ExecutedOutputs
<1>1. ASSUME NEW n \in [Calls -> Nat]
      PROVE  PaidFor(n, drives, E) = SumOf([o \in E |-> n[OrderAt(o)]])
  <2>. DEFINE f == [o \in Outputs |-> Share(o, n, drives, E)]
              g == [o \in E |-> f[o]]
  <2>1. f \in [Outputs -> Nat] /\ IsFiniteSet(Outputs) /\ E \subseteq Outputs
    BY PaidForIsSum, OutputsAreFinite DEF ExecutedOutputs
  <2>2. \A o \in Outputs \ E : f[o] = 0
    BY DEF Share
  <2>3. g = [o \in E |-> n[OrderAt(o)]]
    <3>1. ASSUME NEW o \in E PROVE f[o] = n[OrderAt(o)]
      BY <2>1 DEF Share, OrderAt, DoneAreFound
    <3>. QED BY <3>1
  <2>4. PaidFor(n, drives, E) = SumOf(f)
    BY DEF PaidFor
  <2>. HIDE DEF f, E
  <2>5. SumOf(f) = SumOf(g)
    BY <2>1, <2>2, SumOfRest
  <2>. QED BY <2>3, <2>4, <2>5
<1>2. ASSUME NEW o \in E PROVE OrderAt(o) \in Calls
  BY FoundIsCall DEF OrderAt, DoneAreFound
<1>3. ASSUME NEW a PROVE ExecutedOf(a) = PaidFor(OfAsset(a), drives, E)
  <2>1. [o \in E |-> OfAsset(a)[OrderAt(o)]] = [o \in E |-> Amount(OrderAt(o), a)]
    BY <1>2 DEF OfAsset
  <2>2. PaidFor(OfAsset(a), drives, E) = SumOf([o \in E |-> OfAsset(a)[OrderAt(o)]])
    BY <1>1, CallsAreCounted
  <2>. QED BY <2>1, <2>2 DEF ExecutedOf
<1>4. ASSUME NEW op PROVE ExecutedBy(op) = PaidFor(OfOp(op), drives, E)
  <2>1. [o \in E |-> OfOp(op)[OrderAt(o)]] = [o \in E |-> OrderedBy(op, OrderAt(o))]
    BY <1>2 DEF OfOp
  <2>2. PaidFor(OfOp(op), drives, E) = SumOf([o \in E |-> OfOp(op)[OrderAt(o)]])
    BY <1>1, CallsAreCounted
  <2>. QED BY <2>1, <2>2 DEF ExecutedBy
<1>. QED BY <1>3, <1>4

-----------------------------------------------------------------------------
(* Assets of a kind.                                                       *)

Kind(op) == {a \in Assets : Operation(a) = op}

\* Named, to be cited of any of them.
AmountsTyped(h) == h \in [Assets -> Nat]

\* There are finitely many assets, and a sum of what is there of some.
LEMMA KindIsSum ==
    ASSUME NEW h, AmountsTyped(h), NEW op
    PROVE  /\ IsFiniteSet(Kind(op)) /\ [a \in Kind(op) |-> h[a]] \in [Kind(op) -> Nat]
           /\ OfKind(op, h) = SumOf([a \in Kind(op) |-> h[a]]) /\ OfKind(op, h) \in Nat
<1>1. IsFiniteSet(Assets)
  <2>1. IsFiniteSet({Ether})
    BY FS_Singleton
  <2>. QED BY <2>1, PortalAssumption, FS_Union DEF Assets
<1>2. IsFiniteSet(Kind(op)) /\ Kind(op) \subseteq Assets
  BY <1>1, FS_Subset DEF Kind
<1>3. [a \in Kind(op) |-> h[a]] \in [Kind(op) -> Nat]
  BY <1>2 DEF AmountsTyped
<1>4. OfKind(op, h) = SumOf([a \in Kind(op) |-> h[a]])
  BY DEF OfKind, Kind
<1>. QED BY <1>2, <1>3, <1>4, SumIsNat

\* More of an asset is more of its kind.
LEMMA KindGrows ==
    ASSUME NEW h, AmountsTyped(h), NEW g, AmountsTyped(g), NEW asset \in Assets, NEW n \in Nat,
           g[asset] = h[asset] + n, \A a \in Assets \ {asset} : g[a] = h[a], NEW op
    PROVE  OfKind(op, g) = OfKind(op, h) + (IF Operation(asset) = op THEN n ELSE 0)
<1>. DEFINE x == [a \in Kind(op) |-> h[a]]
            y == [a \in Kind(op) |-> g[a]]
<1>1. /\ IsFiniteSet(Kind(op)) /\ x \in [Kind(op) -> Nat] /\ y \in [Kind(op) -> Nat]
      /\ OfKind(op, h) = SumOf(x) /\ OfKind(op, g) = SumOf(y) /\ SumOf(x) \in Nat
  BY KindIsSum
<1>2. CASE Operation(asset) = op
  <2>1. asset \in Kind(op) /\ Kind(op) \subseteq Assets
    BY <1>2 DEF Kind
  <2>2. y[asset] = x[asset] + n /\ \A a \in Kind(op) \ {asset} : y[a] = x[a]
    BY <2>1
  <2>. HIDE DEF x, y
  <2>3. SumOf(y) = SumOf(x) + n
    BY <1>1, <2>1, <2>2, SumWithMore
  <2>. QED BY <1>1, <1>2, <2>3
<1>3. CASE Operation(asset) # op
  <2>1. \A a \in Kind(op) : a \in Assets \ {asset}
    BY <1>3 DEF Kind
  <2>2. y = x
    BY <2>1
  <2>. QED BY <1>1, <1>3, <2>2
<1>. QED BY <1>2, <1>3

-----------------------------------------------------------------------------
(* The books of the portal.                                                *)

\* What inputs, drives, executions and assets have to do with each other, now or
\* in what a call would restore: the machine ordered no more than was announced,
\* what left the portal is what the outputs that are done order, and deposits
\* are either still held or paid.  The last two are kept for each kind of
\* assets, since the machine cannot tell tokens apart.
Sound(ins, ds, done, h, p) ==
    /\ InputsTyped(ins) /\ DrivesTyped(ds) /\ AmountsTyped(h) /\ AmountsTyped(p)
    /\ DoneAreFound(ds, done)
    /\ \A a \in Assets :
          /\ p[a] <= PaidFor(OfAsset(a), ds, done)
          /\ a \notin SilentTokens => p[a] = PaidFor(OfAsset(a), ds, done)
    /\ \A op \in Operations :
          /\ Ordered(op, ds) <= AllAnnounced(op, ins)
          /\ AllAnnounced(op, ins) <= OfKind(op, h) + OfKind(op, p)
          /\ OfKind(op, p) <= PaidFor(OfOp(op), ds, done)

HashesOf(ds) == [i \in DOMAIN ds |-> ClaimHash(ds[i], <<>>, <<>>)]

\* The call that is open would restore sound books.
CallInv ==
    frames # <<>> =>
        /\ undo = <<undo[1]>>
        /\ IsOrdered(Top.output)
        /\ Top.saved.epochHashes = HashesOf(undo[1].drives)
        /\ Sound(undo[1].inputs, undo[1].drives, ExecutedOutputs, undo[1].held, undo[1].paid)

BooksInv ==
    /\ Sound(inputs, drives, ExecutedOutputs, held, paid)
    /\ epochHashes = HashesOf(drives)
    /\ frames = <<>> => undo = <<>>
    /\ CallInv

\* Every amount the books compare is a natural number.
LEMMA BooksAreTyped ==
    ASSUME NEW ins, NEW ds, NEW done, NEW h, NEW p, Sound(ins, ds, done, h, p)
    PROVE  /\ \A a \in Assets :
                 /\ h[a] \in Nat /\ p[a] \in Nat /\ PaidFor(OfAsset(a), ds, done) \in Nat
                 /\ Operation(a) \in Operations
           /\ \A op \in Operations :
                 /\ Ordered(op, ds) \in Nat /\ AllAnnounced(op, ins) \in Nat
                 /\ OfKind(op, h) \in Nat /\ OfKind(op, p) \in Nat
                 /\ PaidFor(OfOp(op), ds, done) \in Nat
<1>1. InputsTyped(ins) /\ DrivesTyped(ds) /\ AmountsTyped(h) /\ AmountsTyped(p)
  BY DEF Sound
<1>2. \A op : AllAnnounced(op, ins) \in Nat
  BY <1>1, EpochsAreFinite, AnnouncedIsSum DEF InputsTyped
<1>3. \A a : Operation(a) \in Operations
  BY DEF Operation, Operations
<1>4. \A op : OfKind(op, h) \in Nat /\ OfKind(op, p) \in Nat /\ Ordered(op, ds) \in Nat
  BY <1>1, KindIsSum, OrderedIsSum
<1>5. \A x : PaidFor(OfAsset(x), ds, done) \in Nat /\ PaidFor(OfOp(x), ds, done) \in Nat
  BY <1>1, CallsAreCounted, PaidForIsSum
<1>6. \A a \in Assets : h[a] \in Nat /\ p[a] \in Nat
  BY <1>1 DEF AmountsTyped
<1>. QED BY <1>2, <1>3, <1>4, <1>5, <1>6

\* Before the first deposit.
LEMMA BooksStartSound ==
    ASSUME NEW ins, ins = [e \in Chain!Epochs |-> <<>>],
           NEW h, h = [a \in Assets |-> 0]
    PROVE  Sound(ins, <<>>, {}, h, h)
<1>1. InputsTyped(ins)
  <2>1. <<>> \in Seq(PortalInputs)
    OBVIOUS
  <2>. QED BY <2>1, Zenon DEF InputsTyped
<1>2. DrivesTyped(<<>>) /\ DoneAreFound(<<>>, {}) /\ AmountsTyped(h)
  BY DEF DrivesTyped, DoneAreFound, AmountsTyped
<1>3. ASSUME NEW op PROVE AllAnnounced(op, ins) = 0
  <2>. DEFINE f == [q \in Pairs(ins) |-> AnnouncedBy(op, ins[q[1]][q[2]])]
  <2>1. Pairs(ins) = {}
    BY InPairs
  <2>2. f \in [Pairs(ins) -> Nat] /\ \A q \in Pairs(ins) : f[q] = 0
    BY <2>1
  <2>3. SumOf(f) = 0
    BY <2>2, SumOfZeros
  <2>. QED BY <2>3 DEF AllAnnounced
<1>4. ASSUME NEW op PROVE Ordered(op, <<>>) = 0
  <2>. DEFINE none == <<>>
              f == [q \in Pairs(none) |-> OrderedBy(op, none[q[1]][q[2]])]
  <2>1. Pairs(none) = {}
    BY InPairs
  <2>2. f \in [Pairs(none) -> Nat] /\ \A q \in Pairs(none) : f[q] = 0
    BY <2>1
  <2>3. SumOf(f) = 0
    BY <2>2, SumOfZeros
  <2>. QED BY <2>3 DEF Ordered
<1>5. ASSUME NEW n PROVE PaidFor(n, <<>>, {}) = 0
  <2>. DEFINE f == [o \in Outputs |-> Share(o, n, <<>>, {})]
  <2>1. f \in [Outputs -> Nat] /\ \A o \in Outputs : f[o] = 0
    BY DEF Share
  <2>2. SumOf(f) = 0
    BY <2>1, SumOfZeros
  <2>. QED BY <2>2 DEF PaidFor
<1>6. ASSUME NEW op PROVE OfKind(op, h) = 0
  <2>. DEFINE f == [a \in Kind(op) |-> h[a]]
  <2>1. f \in [Kind(op) -> Nat] /\ \A a \in Kind(op) : f[a] = 0
    BY DEF Kind
  <2>2. SumOf(f) = 0
    BY <2>1, SumOfZeros
  <2>. QED BY <1>2, <2>2, KindIsSum
<1>7. \A a \in Assets : h[a] = 0
  OBVIOUS
<1>. QED BY <1>1, <1>2, <1>3, <1>4, <1>5, <1>6, <1>7 DEF Sound

\* An input that brings what it announces, or announces nothing.
LEMMA DepositKeepsSound ==
    ASSUME NEW ins, NEW ds, NEW done, NEW h, NEW p, Sound(ins, ds, done, h, p),
           NEW e, NEW x \in PortalInputs, NEW new, Added(ins, new, e, x),
           NEW more, AmountsTyped(more),
           \A op \in Operations : OfKind(op, h) + AnnouncedBy(op, x) <= OfKind(op, more)
    PROVE  Sound(new, ds, done, more, p)
<1>1. InputsTyped(ins)
  BY DEF Sound
<1>2. InputsTyped(new)
  BY <1>1, AnnouncedGrows
<1>3. ASSUME NEW op
      PROVE  /\ AllAnnounced(op, ins) <= AllAnnounced(op, new)
             /\ AllAnnounced(op, new) <= AllAnnounced(op, ins) + AnnouncedBy(op, x)
             /\ AllAnnounced(op, ins) \in Nat /\ AllAnnounced(op, new) \in Nat
             /\ AnnouncedBy(op, x) \in Nat /\ OfKind(op, more) \in Nat
  <2>1. AllAnnounced(op, ins) \in Nat /\ AllAnnounced(op, new) \in Nat
    BY <1>1, <1>2, EpochsAreFinite, AnnouncedIsSum DEF InputsTyped
  <2>. QED BY <1>1, <2>1, AnnouncedGrows, AnnouncedByIsNat, KindIsSum
<1>4. ASSUME NEW op \in Operations
      PROVE  /\ Ordered(op, ds) <= AllAnnounced(op, new)
             /\ AllAnnounced(op, new) <= OfKind(op, more) + OfKind(op, p)
  <2>1. /\ Ordered(op, ds) <= AllAnnounced(op, ins) /\ Ordered(op, ds) \in Nat
        /\ AllAnnounced(op, ins) <= OfKind(op, h) + OfKind(op, p)
        /\ OfKind(op, h) \in Nat /\ OfKind(op, p) \in Nat
    BY BooksAreTyped DEF Sound
  <2>2. OfKind(op, h) + AnnouncedBy(op, x) <= OfKind(op, more)
    OBVIOUS
  <2>. QED BY <1>3, <2>1, <2>2
<1>. QED BY <1>2, <1>4 DEF Sound

\* An epoch that becomes final with withdrawals that are covered.
LEMMA FinalizeKeepsSound ==
    ASSUME NEW ins, NEW ds, NEW done, NEW h, NEW p, Sound(ins, ds, done, h, p),
           NEW drive \in OutputDrives,
           \A op \in Operations : Ordered(op, Append(ds, drive)) <= AllAnnounced(op, ins)
    PROVE  Sound(ins, Append(ds, drive), done, h, p)
<1>1. DrivesTyped(ds) /\ DoneAreFound(ds, done)
  BY DEF Sound
<1>2. /\ DrivesTyped(Append(ds, drive)) /\ Len(Append(ds, drive)) = Len(ds) + 1
      /\ Len(ds) \in Nat /\ \A i \in 1 .. Len(ds) : Append(ds, drive)[i] = ds[i]
  BY <1>1 DEF DrivesTyped
<1>3. ASSUME NEW o \in done
      PROVE  o \in Outputs /\ Found(o, Append(ds, drive))
  <2>1. o \in Outputs /\ o.epoch < Len(ds) /\ Found(o, ds)
    BY <1>1 DEF DoneAreFound, Found
  <2>2. o.epoch \in Nat /\ o.epoch + 1 \in 1 .. Len(ds)
    BY <1>2, <2>1, OutputIndicesFit
  <2>. QED BY <1>2, <2>1, <2>2 DEF Found
<1>4. \A n : PaidFor(n, Append(ds, drive), done) = PaidFor(n, ds, done)
  BY <1>1, PaidForSame
<1>. QED BY <1>2, <1>3, <1>4 DEF Sound, DoneAreFound

\* An output is executed, and paid unless its token is silent.
LEMMA MarkKeepsSound ==
    ASSUME NEW ins, NEW ds, NEW done, NEW h, NEW p, Sound(ins, ds, done, h, p),
           NEW o \in Outputs, Found(o, ds), o \notin done,
           NEW less, AmountsTyped(less), NEW more, AmountsTyped(more),
           NEW call, call = ds[o.epoch + 1][Place(o)],
           \A a \in Assets :
              /\ more[a] <= p[a] + Amount(call, a)
              /\ a \notin SilentTokens => more[a] = p[a] + Amount(call, a),
           \A op \in Operations :
              /\ OfKind(op, less) + OfKind(op, more) = OfKind(op, h) + OfKind(op, p)
              /\ OfKind(op, more) <= OfKind(op, p) + OrderedBy(op, call)
    PROVE  Sound(ins, ds, done \cup {o}, less, more)
<1>. DEFINE marked == done \cup {o}
<1>1. DrivesTyped(ds) /\ call \in Calls
  BY FoundIsCall DEF Sound
<1>2. DoneAreFound(ds, marked)
  BY DEF DoneAreFound, Sound
<1>3. /\ \A a : PaidFor(OfAsset(a), ds, marked) = PaidFor(OfAsset(a), ds, done) + Amount(call, a)
      /\ \A op : PaidFor(OfOp(op), ds, marked) = PaidFor(OfOp(op), ds, done) + OrderedBy(op, call)
  <2>1. \A x : /\ PaidFor(OfAsset(x), ds, marked) = PaidFor(OfAsset(x), ds, done) + OfAsset(x)[call]
              /\ PaidFor(OfOp(x), ds, marked) = PaidFor(OfOp(x), ds, done) + OfOp(x)[call]
    BY <1>1, CallsAreCounted, PaidForMore
  <2>. QED BY <1>1, <2>1 DEF OfAsset, OfOp
<1>. HIDE DEF marked
<1>4. ASSUME NEW a \in Assets
      PROVE  /\ more[a] <= PaidFor(OfAsset(a), ds, marked)
             /\ a \notin SilentTokens => more[a] = PaidFor(OfAsset(a), ds, marked)
  <2>. DEFINE was == PaidFor(OfAsset(a), ds, done)
              n == Amount(call, a)
  <2>1. p[a] <= was /\ (a \notin SilentTokens => p[a] = was)
    BY DEF Sound
  <2>2. p[a] \in Nat /\ was \in Nat /\ more[a] \in Nat /\ n \in Nat
    BY <1>1, BooksAreTyped, AmountIsOrdered DEF AmountsTyped
  <2>3. more[a] <= p[a] + n /\ (a \notin SilentTokens => more[a] = p[a] + n)
    OBVIOUS
  <2>4. PaidFor(OfAsset(a), ds, marked) = was + n
    BY <1>3
  <2>. HIDE DEF n, was
  <2>. QED BY <2>1, <2>2, <2>3, <2>4
<1>5. ASSUME NEW op \in Operations
      PROVE  /\ AllAnnounced(op, ins) <= OfKind(op, less) + OfKind(op, more)
             /\ OfKind(op, more) <= PaidFor(OfOp(op), ds, marked)
  <2>. DEFINE was == PaidFor(OfOp(op), ds, done)
              n == OrderedBy(op, call)
  <2>1. /\ AllAnnounced(op, ins) <= OfKind(op, h) + OfKind(op, p)
        /\ OfKind(op, p) <= was
    BY DEF Sound
  <2>2. /\ OfKind(op, h) \in Nat /\ OfKind(op, p) \in Nat /\ was \in Nat /\ n \in Nat
        /\ OfKind(op, less) \in Nat /\ OfKind(op, more) \in Nat /\ AllAnnounced(op, ins) \in Nat
    BY <1>1, BooksAreTyped, AmountIsOrdered, KindIsSum
  <2>3. /\ OfKind(op, less) + OfKind(op, more) = OfKind(op, h) + OfKind(op, p)
        /\ OfKind(op, more) <= OfKind(op, p) + n
    OBVIOUS
  <2>4. PaidFor(OfOp(op), ds, marked) = was + n
    BY <1>3
  <2>. HIDE DEF n, was
  <2>. QED BY <2>1, <2>2, <2>3, <2>4
<1>6. Sound(ins, ds, marked, less, more)
  BY <1>2, <1>4, <1>5 DEF Sound
<1>. QED BY <1>6 DEF marked

\* The hashes kept on the chain are those of the drives, one by one.
LEMMA HashesFit ==
    ASSUME NEW ds, DrivesTyped(ds)
    PROVE  /\ Len(HashesOf(ds)) = Len(ds) /\ Len(ds) \in Nat
           /\ \A i \in 1 .. Len(ds) : HashesOf(ds)[i][1] = ds[i]
           /\ \A drive \in OutputDrives :
                 HashesOf(Append(ds, drive)) = Append(HashesOf(ds), ClaimHash(drive, <<>>, <<>>))
<1>1. Len(ds) \in Nat /\ DOMAIN ds = 1 .. Len(ds)
  BY DEF DrivesTyped
<1>2. HashesOf(ds) = [i \in 1 .. Len(ds) |-> ClaimHash(ds[i], <<>>, <<>>)]
  BY <1>1 DEF HashesOf
<1>3. Len(HashesOf(ds)) = Len(ds)
  BY <1>1, <1>2
<1>4. \A i \in 1 .. Len(ds) : HashesOf(ds)[i][1] = ds[i]
  BY <1>2 DEF ClaimHash
<1>5. ASSUME NEW drive \in OutputDrives
      PROVE  HashesOf(Append(ds, drive)) = Append(HashesOf(ds), ClaimHash(drive, <<>>, <<>>))
  <2>. DEFINE longer == Append(ds, drive)
              n == Len(ds) + 1
              last == ClaimHash(drive, <<>>, <<>>)
  <2>1. /\ DOMAIN longer = 1 .. n /\ longer[n] = drive
        /\ \A i \in 1 .. Len(ds) : longer[i] = ds[i]
    BY DEF DrivesTyped
  <2>. HIDE DEF longer
  <2>2. HashesOf(longer) = [i \in 1 .. n |-> ClaimHash(longer[i], <<>>, <<>>)]
    BY <2>1 DEF HashesOf
  <2>3. \A i \in 1 .. n : HashesOf(longer)[i] = IF i = n THEN last ELSE HashesOf(ds)[i]
    <3>1. ASSUME NEW i \in 1 .. n, i # n PROVE i \in 1 .. Len(ds)
      BY <1>1, <3>1
    <3>. QED BY <1>2, <2>1, <2>2, <3>1
  <2>4. Append(HashesOf(ds), last) = [i \in 1 .. n |-> IF i = n THEN last ELSE HashesOf(ds)[i]]
    <3>. HIDE DEF last
    <3>. QED BY <1>2, <1>3
  <2>5. HashesOf(longer) = [i \in 1 .. n |-> IF i = n THEN last ELSE HashesOf(ds)[i]]
    <3>. HIDE DEF last, n
    <3>. QED BY <2>2, <2>3
  <2>6. HashesOf(longer) = Append(HashesOf(ds), last)
    BY <2>4, <2>5
  <2>. QED BY <2>6 DEF longer
<1>. QED BY <1>1, <1>3, <1>4, <1>5

\* What has been announced to the machine is part of all there is.
LEMMA AnnouncedIsPart ==
    ASSUME InputsTyped(inputs), NEW n \in 0 .. MaxEpochs, NEW op
    PROVE  Announced(op, n) \in Nat /\ Announced(op, n) <= AllAnnounced(op, inputs)
<1>. DEFINE before == 0 .. n - 1
            boxes == [e \in before |-> inputs[e]]
            f == [q \in Pairs(boxes) |-> AnnouncedBy(op, boxes[q[1]][q[2]])]
            g == [q \in Pairs(inputs) |-> AnnouncedBy(op, inputs[q[1]][q[2]])]
<1>1. before \subseteq Chain!Epochs /\ IsFiniteSet(before)
  <2>1. MaxEpochs \in Nat /\ n \in Nat /\ n <= MaxEpochs
    BY IndexAssumption
  <2>2. before \subseteq Chain!Epochs
    BY <2>1 DEF Chain!Epochs
  <2>. HIDE DEF before
  <2>. QED BY <2>2, EpochsAreFinite, FS_Subset
<1>. HIDE DEF before
<1>2. boxes \in [before -> Seq(PortalInputs)] /\ \A e \in before : boxes[e] = inputs[e]
  BY <1>1 DEF InputsTyped
<1>. HIDE DEF boxes
<1>3. f \in [Pairs(boxes) -> Nat]
  BY <1>1, <1>2, AnnouncedIsSum
<1>4. g \in [Pairs(inputs) -> Nat] /\ IsFiniteSet(Pairs(inputs))
  BY EpochsAreFinite, AnnouncedIsSum DEF InputsTyped
<1>5. DOMAIN inputs = Chain!Epochs /\ DOMAIN boxes = before
  BY <1>2 DEF InputsTyped
<1>6. ASSUME NEW q \in Pairs(boxes)
      PROVE  q \in Pairs(inputs) /\ boxes[q[1]][q[2]] = inputs[q[1]][q[2]]
  <2>1. PICK e, i : e \in before /\ i \in DOMAIN boxes[e] /\ q = <<e, i>>
    BY <1>5, InPairs
  <2>2. boxes[e] = inputs[e] /\ e \in DOMAIN inputs
    BY <1>1, <1>2, <1>5, <2>1
  <2>. QED BY <2>1, <2>2, InPairs
<1>7. \A q \in Pairs(boxes) : f[q] <= g[q]
  <2>1. ASSUME NEW q \in Pairs(boxes) PROVE f[q] = g[q] /\ g[q] \in Nat
    BY <1>4, <1>6
  <2>. QED BY <2>1
<1>8. Announced(op, n) = SumOf(f) /\ AllAnnounced(op, inputs) = SumOf(g)
  BY DEF Announced, AllAnnounced, boxes, before
<1>9. SumOf(f) \in Nat
  BY <1>1, <1>2, <1>8, AnnouncedIsSum DEF AllAnnounced
<1>. HIDE DEF f, g
<1>10. SumOf(f) <= SumOf(g)
  BY <1>3, <1>4, <1>6, <1>7, SumIsMonotone
<1>. QED BY <1>8, <1>9, <1>10

\* The books are empty at the start.
LEMMA InitBooks == PortalInit => BooksInv
<1>. SUFFICES ASSUME PortalInit PROVE BooksInv
  OBVIOUS
<1>1. /\ inputs = [e \in Chain!Epochs |-> <<>>] /\ drives = <<>> /\ outputBitmask = {}
      /\ held = [a \in Assets |-> 0] /\ paid = [a \in Assets |-> 0]
      /\ epochHashes = <<>> /\ frames = <<>> /\ undo = <<>>
  BY DEF PortalInit, Init, Chain!Init
<1>2. Sound(inputs, drives, ExecutedOutputs, held, paid)
  <2>1. ExecutedOutputs = {}
    BY DEF PortalInit, Init, ExecutedOutputs
  <2>. QED BY <1>1, <2>1, BooksStartSound
<1>3. epochHashes = HashesOf(drives)
  BY <1>1 DEF HashesOf
<1>. QED BY <1>1, <1>2, <1>3 DEF BooksInv, CallInv

\* What happens while a call is open, or between two, leaves what the call
\* would restore alone.
LEMMA CallIsKept ==
    ASSUME ExecutionInv, BooksInv, UNCHANGED <<executed, frames, undo>>,
           \/ drives' = drives
           \/ \E drive \in OutputDrives : drives' = Append(drives, drive)
    PROVE  CallInv' /\ (frames = <<>> => undo = <<>>)'
<1>1. ASSUME NEW o \in Outputs, IsOrdered(o) PROVE IsOrdered(o)'
  <2>1. Len(drives) \in Nat /\ drives \in Seq(OutputDrives)
    BY DEF BooksInv, Sound, DrivesTyped
  <2>2. o.epoch < Len(drives) /\ Place(o) \in DOMAIN drives[o.epoch + 1]
    BY <1>1 DEF IsOrdered
  <2>3. CASE drives' = drives
    BY <2>2, <2>3 DEF IsOrdered
  <2>4. ASSUME NEW drive \in OutputDrives, drives' = Append(drives, drive)
        PROVE  IsOrdered(o)'
    <3>1. Len(drives') = Len(drives) + 1 /\ \A i \in 1 .. Len(drives) : drives'[i] = drives[i]
      BY <2>1, <2>4
    <3>2. o.epoch + 1 \in 1 .. Len(drives) /\ o.epoch < Len(drives')
      BY <2>1, <2>2, <3>1, OutputIndicesFit
    <3>. QED BY <2>2, <3>1, <3>2 DEF IsOrdered
  <2>. QED BY <2>3, <2>4
<1>2. frames # <<>> => Top.output \in Outputs
  BY DEF ExecutionInv, OneCall
<1>. QED BY <1>1, <1>2 DEF BooksInv, CallInv, Top, ExecutedOutputs

\* The steps outside of executeOutput.
LEMMA OutsideKeepsBooks ==
    ASSUME ExecutionInv, BooksInv,
           \/ \E n \in DepositAmounts, v \in Values : EtherDeposit(n, v)
           \/ \E t \in Tokens, n \in DepositAmounts : Erc20Deposit(t, n)
           \/ AddRequest
           \/ Seal
           \/ \E drive \in OutputDrives : Finalize(drive)
    PROVE  BooksInv'
<1>1. /\ Sound(inputs, drives, ExecutedOutputs, held, paid)
      /\ epochHashes = HashesOf(drives) /\ DrivesTyped(drives) /\ InputsTyped(inputs)
      /\ AmountsTyped(held)
  BY DEF BooksInv, Sound
<1>2. ASSUME NEW asset \in Assets, NEW n \in DepositAmounts, NEW v \in Nat, n <= v,
             Take(asset, n, v)
      PROVE  BooksInv'
  <2>. DEFINE x == [op |-> Operation(asset), amount |-> n]
              e == open'
  <2>1. /\ Added(inputs, inputs', e, x) /\ held' = [held EXCEPT ![asset] = @ + v]
        /\ UNCHANGED <<epochHashes, outputBitmask, executed, frames, drives, paid, undo>>
    BY <1>2 DEF Take, AddInput, Chain!Add, Added
  <2>2. x \in PortalInputs /\ n \in Nat
    BY PortalAssumption DEF PortalInputs, Operation, Operations
  <2>3. AmountsTyped(held')
    <3>1. held[asset] + v \in Nat
      BY <1>1 DEF AmountsTyped
    <3>. QED BY <1>1, <2>1, <3>1 DEF AmountsTyped
  <2>4. ASSUME NEW op \in Operations
        PROVE  OfKind(op, held) + AnnouncedBy(op, x) <= OfKind(op, held')
    <3>1. held'[asset] = held[asset] + v /\ \A a \in Assets \ {asset} : held'[a] = held[a]
      BY <1>1, <2>1 DEF AmountsTyped
    <3>2. OfKind(op, held') = OfKind(op, held) + (IF Operation(asset) = op THEN v ELSE 0)
      BY <1>1, <1>2, <2>3, <3>1, KindGrows
    <3>3. OfKind(op, held) \in Nat
      BY <1>1, KindIsSum
    <3>4. AnnouncedBy(op, x) = IF Operation(asset) = op THEN n ELSE 0
      BY DEF AnnouncedBy
    <3>. QED BY <1>2, <2>2, <3>2, <3>3, <3>4
  <2>5. ExecutedOutputs' = ExecutedOutputs
    BY <2>1 DEF ExecutedOutputs
  <2>. HIDE DEF x, e
  <2>6. Sound(inputs', drives, ExecutedOutputs, held', paid)
    BY <1>1, <2>1, <2>2, <2>3, <2>4, DepositKeepsSound
  <2>7. Sound(inputs, drives, ExecutedOutputs, held, paid)'
    BY <2>1, <2>5, <2>6
  <2>8. CallInv' /\ (frames = <<>> => undo = <<>>)' /\ (epochHashes = HashesOf(drives))'
    BY <1>1, <2>1, CallIsKept
  <2>. QED BY <2>7, <2>8 DEF BooksInv
<1>3. ASSUME NEW n \in DepositAmounts, NEW v \in Values, EtherDeposit(n, v) PROVE BooksInv'
  <2>1. v \in Nat /\ n \in Nat /\ n <= v /\ Take(Ether, n, v) /\ Ether \in Assets
    BY <1>3, PortalAssumption DEF EtherDeposit, Assets
  <2>. QED BY <1>2, <2>1
<1>4. ASSUME NEW t \in Tokens, NEW n \in DepositAmounts, Erc20Deposit(t, n) PROVE BooksInv'
  <2>1. n \in Nat /\ n <= n /\ Take(t, n, n) /\ t \in Assets
    BY <1>4, PortalAssumption DEF Erc20Deposit, Assets
  <2>. QED BY <1>2, <2>1
<1>5. CASE AddRequest
  <2>. DEFINE e == open'
  <2>1. /\ Added(inputs, inputs', e, Request)
        /\ UNCHANGED <<epochHashes, outputBitmask, executed, frames, drives, held, paid, undo>>
    BY <1>5 DEF AddRequest, AddInput, Chain!Add, Added
  <2>2. Request \in PortalInputs
    BY DEF PortalInputs
  <2>3. \A op \in Operations : OfKind(op, held) + AnnouncedBy(op, Request) <= OfKind(op, held)
    <3>1. \A op : OfKind(op, held) \in Nat
      BY <1>1, KindIsSum
    <3>2. \A op \in Operations : AnnouncedBy(op, Request) = 0
      BY DEF AnnouncedBy, Request, Operations
    <3>. QED BY <3>1, <3>2
  <2>4. ExecutedOutputs' = ExecutedOutputs
    BY <2>1 DEF ExecutedOutputs
  <2>. HIDE DEF e
  <2>5. Sound(inputs', drives, ExecutedOutputs, held, paid)
    BY <1>1, <2>1, <2>2, <2>3, DepositKeepsSound
  <2>6. Sound(inputs, drives, ExecutedOutputs, held, paid)'
    BY <2>1, <2>4, <2>5
  <2>7. CallInv' /\ (frames = <<>> => undo = <<>>)' /\ (epochHashes = HashesOf(drives))'
    BY <1>1, <2>1, CallIsKept
  <2>. QED BY <2>6, <2>7 DEF BooksInv
<1>6. CASE Seal
  <2>1. UNCHANGED <<inputs, epochHashes, outputBitmask, executed, frames, drives, held, paid, undo>>
    BY <1>6 DEF Seal, Chain!Seal
  <2>2. Sound(inputs, drives, ExecutedOutputs, held, paid)'
    BY <1>1, <2>1 DEF ExecutedOutputs
  <2>3. CallInv' /\ (frames = <<>> => undo = <<>>)' /\ (epochHashes = HashesOf(drives))'
    BY <1>1, <2>1, CallIsKept
  <2>. QED BY <2>2, <2>3 DEF BooksInv
<1>7. ASSUME NEW drive \in OutputDrives, Finalize(drive) PROVE BooksInv'
  <2>1. /\ epochHashes' = Append(epochHashes, ClaimHash(drive, <<>>, <<>>))
        /\ drives' = Append(drives, drive) /\ Len(epochHashes) < MaxEpochs
        /\ UNCHANGED <<inputs, outputBitmask, executed, frames, held, paid, undo>>
    BY <1>7 DEF Finalize, OnNewEpoch, Chain!Finalize
  <2>2. ASSUME NEW op \in Operations
        PROVE  Ordered(op, Append(drives, drive)) <= AllAnnounced(op, inputs)
    <3>. DEFINE n == Len(epochHashes) + 1
    <3>1. Ordered(op, Append(drives, drive)) <= Announced(op, n)
      BY <1>7 DEF Finalize, MayOrder
    <3>2. n \in 0 .. MaxEpochs
      <4>1. Len(epochHashes) \in Nat /\ MaxEpochs \in Nat
        BY <1>1, HashesFit, IndexAssumption
      <4>. QED BY <2>1, <4>1
    <3>3. Announced(op, n) <= AllAnnounced(op, inputs)
      BY <1>1, <3>2, AnnouncedIsPart
    <3>4. Ordered(op, Append(drives, drive)) \in Nat
      <4>1. DrivesTyped(Append(drives, drive))
        BY <1>1 DEF DrivesTyped
      <4>. QED BY <4>1, OrderedIsSum
    <3>5. Announced(op, n) \in Nat /\ AllAnnounced(op, inputs) \in Nat
      BY <1>1, <3>2, AnnouncedIsPart, BooksAreTyped
    <3>. HIDE DEF n
    <3>. QED BY <3>1, <3>3, <3>4, <3>5
  <2>3. Sound(inputs, Append(drives, drive), ExecutedOutputs, held, paid)
    BY <1>1, <2>2, FinalizeKeepsSound
  <2>4. Sound(inputs, drives, ExecutedOutputs, held, paid)'
    BY <2>1, <2>3 DEF ExecutedOutputs
  <2>5. (epochHashes = HashesOf(drives))'
    BY <1>1, <2>1, HashesFit
  <2>6. CallInv' /\ (frames = <<>> => undo = <<>>)'
    BY <2>1, CallIsKept
  <2>. QED BY <2>4, <2>5, <2>6 DEF BooksInv
<1>. QED BY <1>3, <1>4, <1>5, <1>6, <1>7

\* An output starts: what is sound now is what its call would restore.
LEMMA StartKeepsBooks ==
    ASSUME ExecutionInv, BooksInv, NEW o \in Outputs, StartCall(o)
    PROVE  BooksInv'
<1>1. /\ Sound(inputs, drives, ExecutedOutputs, held, paid)
      /\ epochHashes = HashesOf(drives) /\ DrivesTyped(drives)
  BY DEF BooksInv, Sound
<1>2. frames = <<>> /\ undo = <<>>
  BY DEF StartCall, ExecuteOutput, ExecutionInv, LockIsReleased, BooksInv
<1>3. /\ frames' = <<[output |-> o, saved |-> Storage]>> /\ undo' = <<PortalStorage>>
      /\ UNCHANGED <<epochHashes, outputBitmask, executed, inputs, drives, held, paid>>
  BY <1>2 DEF StartCall, ExecuteOutput
<1>4. Top' = [output |-> o, saved |-> Storage]
  BY <1>3 DEF Top
<1>5. IsOrdered(o)
  <2>1. o.epoch < Len(epochHashes) /\ Place(o) \in DOMAIN epochHashes[o.epoch + 1][1]
    BY DEF StartCall, ExecuteOutput, IsValidProof, OutputDrive
  <2>2. Len(epochHashes) = Len(drives) /\ Len(drives) \in Nat
    BY <1>1, HashesFit
  <2>3. o.epoch + 1 \in 1 .. Len(drives)
    BY <2>1, <2>2, OutputIndicesFit
  <2>4. epochHashes[o.epoch + 1][1] = drives[o.epoch + 1]
    BY <1>1, <2>3, HashesFit
  <2>. QED BY <2>1, <2>2, <2>4 DEF IsOrdered
<1>6. IsOrdered(Top.output)'
  BY <1>3, <1>4, <1>5 DEF IsOrdered
<1>7. /\ undo' = <<undo[1]>>' /\ undo'[1] = PortalStorage
      /\ Top'.saved.epochHashes = HashesOf(PortalStorage.drives)
  BY <1>1, <1>3, <1>4 DEF Storage, PortalStorage
<1>8. Sound(PortalStorage.inputs, PortalStorage.drives, ExecutedOutputs,
            PortalStorage.held, PortalStorage.paid)
  BY <1>1 DEF PortalStorage
<1>9. CallInv'
  BY <1>3, <1>6, <1>7, <1>8 DEF CallInv, ExecutedOutputs
<1>10. Sound(inputs, drives, ExecutedOutputs, held, paid)'
  BY <1>1, <1>3 DEF ExecutedOutputs
<1>11. (epochHashes = HashesOf(drives))' /\ (frames = <<>> => undo = <<>>)'
  BY <1>1, <1>3
<1>. QED BY <1>9, <1>10, <1>11 DEF BooksInv

\* A call returns and its output is marked, and paid unless its token is silent.
LEMMA EndKeepsBooks ==
    ASSUME ExecutionInv, BooksInv, OtherCallReturns \/ Withdraw \/ WithdrawSilently
    PROVE  BooksInv'
<1>. DEFINE o == Top.output
            call == drives[o.epoch + 1][Place(o)]
<1>1. /\ Sound(inputs, drives, ExecutedOutputs, held, paid)
      /\ epochHashes = HashesOf(drives) /\ DrivesTyped(drives)
      /\ AmountsTyped(held) /\ AmountsTyped(paid)
  BY DEF BooksInv, Sound
<1>2. frames # <<>> /\ EndCall /\ CallSucceeds
  BY DEF OtherCallReturns, Withdraw, WithdrawSilently, EndCall
<1>3. /\ frames = <<Top>> /\ o \in Outputs /\ GetBitMaskPosition(o) \notin outputBitmask
      /\ undo = <<undo[1]>> /\ IsOrdered(o)
  BY <1>2 DEF ExecutionInv, OneCall, BooksInv, CallInv
<1>4. /\ executed' = [executed EXCEPT ![o] = @ + 1] /\ frames' = <<>> /\ undo' = <<>>
      /\ UNCHANGED <<epochHashes, inputs, drives>>
  <2>1. frames' = SubSeq(frames, 1, Len(frames) - 1) /\ undo' = SubSeq(undo, 1, Len(undo) - 1)
    BY <1>2 DEF CallSucceeds, EndCall, Callers
  <2>2. frames' = <<>> /\ undo' = <<>>
    BY <1>3, <2>1
  <2>. QED BY <1>2, <2>2 DEF CallSucceeds, EndCall
<1>11. o \notin ExecutedOutputs /\ ExecutedOutputs' = ExecutedOutputs \cup {o}
  <2>1. executed \in [Outputs -> Nat] /\ ~(executed[o] > 0)
    BY <1>3 DEF ExecutionInv, BitsAreExecutions, SameBit
  <2>2. executed'[o] > 0 /\ \A p \in Outputs \ {o} : executed'[p] = executed[p]
    BY <1>3, <1>4, <2>1
  <2>. QED BY <1>3, <2>1, <2>2 DEF ExecutedOutputs
<1>5. Found(o, drives) /\ call \in Calls
  <2>1. Found(o, drives)
    BY <1>3 DEF IsOrdered, Found
  <2>. QED BY <1>1, <1>3, <2>1, FoundIsCall
<1>6. Withdrawal = call
  <2>1. Len(drives) \in Nat /\ o.epoch \in Nat /\ o.epoch < Len(drives)
    BY <1>1, <1>3, HashesFit, OutputIndicesFit DEF IsOrdered
  <2>2. o.epoch + 1 \in 1 .. Len(drives)
    BY <2>1
  <2>3. epochHashes[o.epoch + 1][1] = drives[o.epoch + 1]
    BY <1>1, <2>2, HashesFit
  <2>. QED BY <2>3 DEF Withdrawal, CallOf, OutputDrive
<1>. HIDE DEF call
<1>7. /\ AmountsTyped(held') /\ AmountsTyped(paid')
      /\ \A a \in Assets :
            /\ paid'[a] <= paid[a] + Amount(call, a)
            /\ a \notin SilentTokens => paid'[a] = paid[a] + Amount(call, a)
      /\ \A op \in Operations :
            /\ OfKind(op, held') + OfKind(op, paid') = OfKind(op, held) + OfKind(op, paid)
            /\ OfKind(op, paid') <= OfKind(op, paid) + OrderedBy(op, call)
  <2>1. /\ \A a \in Assets : held[a] \in Nat /\ paid[a] \in Nat /\ Amount(call, a) \in Nat
        /\ \A op : /\ OfKind(op, held) \in Nat /\ OfKind(op, paid) \in Nat
                  /\ OrderedBy(op, call) \in Nat
    <3>1. \A a \in Assets : held[a] \in Nat /\ paid[a] \in Nat
      BY <1>1 DEF AmountsTyped
    <3>2. \A x : Amount(call, x) \in Nat /\ OrderedBy(x, call) \in Nat
      BY <1>5, AmountIsOrdered
    <3>3. \A op : OfKind(op, held) \in Nat /\ OfKind(op, paid) \in Nat
      BY <1>1, KindIsSum
    <3>. QED BY <3>1, <3>2, <3>3
  <2>2. CASE OtherCallReturns
    <3>1. call = Elsewhere /\ held' = held /\ paid' = paid
      BY <1>6, <2>2 DEF OtherCallReturns, Withdrawal
    <3>2. \A a : Amount(call, a) = 0
      BY <3>1 DEF Amount
    <3>. QED BY <1>1, <2>1, <3>1, <3>2
  <2>3. CASE Withdraw
    <3>. DEFINE asset == call.asset
                n == call.amount
    <3>1. /\ call # Elsewhere /\ held[asset] >= n
          /\ held' = [held EXCEPT ![asset] = @ - n] /\ paid' = [paid EXCEPT ![asset] = @ + n]
      BY <1>6, <2>3 DEF Withdraw
    <3>2. asset \in Assets /\ n \in Nat
      BY <1>5, <3>1, PortalAssumption DEF Withdrawals
    <3>3. /\ Amount(call, asset) = n
          /\ \A a \in Assets \ {asset} : Amount(call, a) = 0
          /\ \A op : OrderedBy(op, call) = IF Operation(asset) = op THEN n ELSE 0
      BY <3>1 DEF Amount, OrderedBy
    <3>. HIDE DEF asset, n
    <3>4. held[asset] - n \in Nat /\ paid[asset] + n \in Nat
      BY <2>1, <3>1, <3>2
    <3>5. AmountsTyped(held') /\ AmountsTyped(paid')
      BY <1>1, <3>1, <3>4 DEF AmountsTyped
    <3>6. /\ held'[asset] = held[asset] - n /\ paid'[asset] = paid[asset] + n
          /\ \A a \in Assets \ {asset} : held'[a] = held[a] /\ paid'[a] = paid[a]
      BY <1>1, <3>1, <3>2 DEF AmountsTyped
    <3>7. ASSUME NEW a \in Assets PROVE paid'[a] = paid[a] + Amount(call, a)
      <4>1. CASE a = asset
        BY <2>1, <3>2, <3>3, <3>6, <4>1
      <4>2. CASE a # asset
        BY <2>1, <3>3, <3>6, <4>2
      <4>. QED BY <4>1, <4>2
    <3>8. ASSUME NEW op
          PROVE  /\ OfKind(op, held) = OfKind(op, held') + OrderedBy(op, call)
                 /\ OfKind(op, paid') = OfKind(op, paid) + OrderedBy(op, call)
                 /\ OfKind(op, held') \in Nat
      <4>1. held[asset] = held'[asset] + n /\ \A a \in Assets \ {asset} : held[a] = held'[a]
        BY <2>1, <3>2, <3>6
      <4>2. OfKind(op, held) = OfKind(op, held') + (IF Operation(asset) = op THEN n ELSE 0)
        BY <1>1, <3>2, <3>5, <4>1, KindGrows
      <4>3. OfKind(op, paid') = OfKind(op, paid) + (IF Operation(asset) = op THEN n ELSE 0)
        BY <1>1, <3>2, <3>5, <3>6, KindGrows
      <4>4. OfKind(op, held') \in Nat
        BY <3>5, KindIsSum
      <4>. QED BY <3>3, <4>2, <4>3, <4>4
    <3>9. \A a \in Assets : paid'[a] <= paid[a] + Amount(call, a)
      BY <2>1, <3>7
    <3>10. ASSUME NEW op \in Operations
           PROVE  /\ OfKind(op, held') + OfKind(op, paid') = OfKind(op, held) + OfKind(op, paid)
                  /\ OfKind(op, paid') <= OfKind(op, paid) + OrderedBy(op, call)
      BY <2>1, <3>8
    <3>. QED BY <3>5, <3>7, <3>9, <3>10
  <2>4. CASE WithdrawSilently
    <3>1. /\ call # Elsewhere /\ call.asset \in SilentTokens
          /\ held' = held /\ paid' = paid
      BY <1>6, <2>4 DEF WithdrawSilently
    <3>2. \A a \in Assets \ SilentTokens : Amount(call, a) = 0
      BY <3>1 DEF Amount
    <3>. QED BY <1>1, <2>1, <3>1, <3>2
  <2>. QED BY <2>2, <2>3, <2>4
<1>8. Sound(inputs, drives, ExecutedOutputs \cup {o}, held', paid')
  <2>1. call = drives[o.epoch + 1][Place(o)]
    BY DEF call
  <2>. HIDE DEF o
  <2>. QED BY <1>1, <1>3, <1>5, <1>7, <1>11, <2>1, MarkKeepsSound
<1>9. Sound(inputs, drives, ExecutedOutputs, held, paid)'
  BY <1>4, <1>8, <1>11
<1>10. (epochHashes = HashesOf(drives))'
  BY <1>1, <1>4
<1>. QED BY <1>4, <1>9, <1>10 DEF BooksInv, CallInv

\* A call fails: what it would restore is sound.
LEMMA RevertKeepsBooks == ASSUME ExecutionInv, BooksInv, Revert PROVE BooksInv'
<1>1. /\ frames # <<>> /\ frames = <<Top>> /\ undo = <<undo[1]>>
      /\ Top.saved.executed = executed
      /\ Top.saved.epochHashes = HashesOf(undo[1].drives)
      /\ Sound(undo[1].inputs, undo[1].drives, ExecutedOutputs, undo[1].held, undo[1].paid)
  BY DEF Revert, CallFails, ExecutionInv, OneCall, BooksInv, CallInv
<1>2. Len(undo) = 1 /\ SubSeq(undo, 1, Len(undo) - 1) = <<>> /\ Callers = <<>>
  <2>1. \A x : Len(<<x>>) = 1 /\ SubSeq(<<x>>, 1, 0) = <<>>
    OBVIOUS
  <2>2. Len(undo) = 1 /\ SubSeq(undo, 1, 0) = <<>>
    BY <1>1, <2>1
  <2>3. Len(frames) = 1 /\ SubSeq(frames, 1, 0) = <<>>
    BY <1>1, <2>1
  <2>. QED BY <2>2, <2>3 DEF Callers
<1>3. /\ epochHashes' = Top.saved.epochHashes /\ executed' = Top.saved.executed
      /\ frames' = <<>> /\ undo' = <<>> /\ inputs' = undo[1].inputs
      /\ drives' = undo[1].drives /\ held' = undo[1].held /\ paid' = undo[1].paid
  BY <1>2 DEF Revert, CallFails
<1>4. Sound(inputs, drives, ExecutedOutputs, held, paid)'
  BY <1>1, <1>3 DEF ExecutedOutputs
<1>5. (epochHashes = HashesOf(drives))'
  BY <1>1, <1>3
<1>. QED BY <1>3, <1>4, <1>5 DEF BooksInv, CallInv

\* Every step keeps the books, of the contracts and of the open call.
LEMMA StepBooks == ExecutionInv /\ BooksInv /\ [PortalNext]_systemVars => BooksInv'
<1>. SUFFICES ASSUME ExecutionInv, BooksInv, [PortalNext]_systemVars PROVE BooksInv'
  OBVIOUS
<1>1. CASE UNCHANGED systemVars
  BY <1>1 DEF systemVars, vars, portalVars, BooksInv, CallInv, Top, IsOrdered, ExecutedOutputs
<1>. QED
  BY <1>1, OutsideKeepsBooks, StartKeepsBooks, EndKeepsBooks, RevertKeepsBooks
  DEF PortalNext

\* Both invariants together.
BookkeepingInv == ExecutionInv /\ BooksInv

\* Locks and books are right in every state.
LEMMA Bookkeeping == PortalSpec => []BookkeepingInv
<1>1. PortalInit => BookkeepingInv
  BY InitExecution, InitBooks DEF BookkeepingInv
<1>2. BookkeepingInv /\ [PortalNext]_systemVars => BookkeepingInv'
  BY StepExecution, StepBooks DEF BookkeepingInv
<1>. QED BY <1>1, <1>2, PTL DEF PortalSpec

\* What left the portal is what the executed outputs order, calls back and
\* failing calls included; only silent tokens fall short of it.
THEOREM WithdrawalsAreAlwaysPaid == PortalSpec => []WithdrawalsArePaid
<1>1. BookkeepingInv => WithdrawalsArePaid
  <2>. SUFFICES ASSUME BookkeepingInv PROVE WithdrawalsArePaid
    OBVIOUS
  <2>1. /\ Sound(inputs, drives, ExecutedOutputs, held, paid) /\ DrivesTyped(drives)
        /\ DoneAreFound(drives, ExecutedOutputs)
    BY DEF BookkeepingInv, BooksInv, Sound
  <2>2. \A a : ExecutedOf(a) = PaidFor(OfAsset(a), drives, ExecutedOutputs)
    BY <2>1, ExecutedIsPaidFor
  <2>. QED BY <2>1, <2>2 DEF WithdrawalsArePaid, Sound
<1>. QED BY <1>1, Bookkeeping, PTL

\* For any number of tokens and any indices, what the machine ordered of a kind
\* of assets is executed or covered by what the portal holds of it.
THEOREM PortalIsAlwaysSolvent == PortalSpec => []PortalIsSolvent
<1>1. BookkeepingInv => PortalIsSolvent
  <2>. SUFFICES ASSUME BookkeepingInv, NEW op \in Operations
                PROVE  Ordered(op, drives) <= OfKind(op, held) + ExecutedBy(op)
    BY DEF PortalIsSolvent
  <2>1. /\ Sound(inputs, drives, ExecutedOutputs, held, paid) /\ DrivesTyped(drives)
        /\ DoneAreFound(drives, ExecutedOutputs)
    BY DEF BookkeepingInv, BooksInv, Sound
  <2>. DEFINE done == PaidFor(OfOp(op), drives, ExecutedOutputs)
  <2>2. /\ Ordered(op, drives) \in Nat /\ AllAnnounced(op, inputs) \in Nat
        /\ OfKind(op, held) \in Nat /\ OfKind(op, paid) \in Nat /\ done \in Nat
    BY <2>1, BooksAreTyped
  <2>3. ExecutedBy(op) = done
    BY <2>1, ExecutedIsPaidFor
  <2>4. /\ Ordered(op, drives) <= AllAnnounced(op, inputs)
        /\ AllAnnounced(op, inputs) <= OfKind(op, held) + OfKind(op, paid)
        /\ OfKind(op, paid) <= done
    BY <2>1 DEF Sound
  <2>. HIDE DEF done
  <2>. QED BY <2>2, <2>3, <2>4
<1>. QED BY <1>1, Bookkeeping, PTL

=============================================================================
