-------------------------- MODULE OutputExecution --------------------------
(***************************************************************************)
(* Executing the outputs of finalized epochs (contracts/OutputImpl.sol).   *)
(*                                                                         *)
(* executeOutput calls the output's destination in its middle, and that    *)
(* contract may call back: it may execute outputs itself, or finalize an   *)
(* epoch through DescartesV2.  A call that fails undoes everything that    *)
(* happened inside it.  So an execution is two actions, the start of the   *)
(* external call and its end, and frames is the stack of the calls that    *)
(* are open in the current transaction.                                    *)
(*                                                                         *)
(* An epoch hash stands for what was hashed: the output drive, the message *)
(* drive and the machine's state.  The output drive maps places, pairs of  *)
(* an input's position and an output's, to the call (destination and       *)
(* payload) found there, so a proof stands for the indices it names, and   *)
(* the hash and Merkle checks are what IsValidProof says.  Of the drives   *)
(* only the output drive is looked into.                                   *)
(*                                                                         *)
(* The indices of a proof are uint256 numbers that whoever executes the    *)
(* output chooses; nothing in the contract compares them with the size of  *)
(* a drive.                                                                *)
(***************************************************************************)
EXTENDS Naturals, Sequences

CONSTANTS
    Calls,                \* what an output may ask for
    Outputs,              \* the epoch, input and output indices that proofs name
    IndexRange,           \* 2^64
    LeafSize,             \* 1 << KECCAK_LOG2_SIZE, the bytes of a hash
    MaxEpochs, MaxDepth   \* bounds on epochs and on nested calls

Double == IndexRange * IndexRange   \* 2^128
Word == Double * Double             \* 2^256
Index == 0 .. Word - 1

ASSUME IndexAssumption ==
    /\ IndexRange \in Nat \ {0} /\ LeafSize \in Nat \ {0}
    /\ Outputs \subseteq [epoch : Index, input : Index, output : Index]
    /\ MaxEpochs \in Nat /\ MaxDepth \in Nat

VARIABLES
    epochHashes,    \* finalized claims
    outputBitmask,  \* positions whose bit is set
    lock,           \* reentrancy lock
    frames,         \* open external calls, the innermost last
    executed        \* history: how often each output took effect

vars == <<epochHashes, outputBitmask, lock, frames, executed>>

\* getIntraDrivePosition: the cast to uint64 wraps.
GetIntraDrivePosition(index) == (index * LeafSize) % IndexRange

Place(o) == <<GetIntraDrivePosition(o.input), GetIntraDrivePosition(o.output)>>

Places == {Place(o) : o \in Outputs}
OutputDrives == UNION {[places -> Calls] : places \in SUBSET Places}

\* A shift drops what does not fit in the word.
ShiftLeft(n, factor) == (n * factor) % Word

WrongBitMaskPosition(o) == ShiftLeft(o.input, Double) + o.output + o.epoch

\* getBitMaskPosition: output << 128 + input << 64 + epoch.
GetBitMaskPosition(o) == ShiftLeft(o.output, Double) + ShiftLeft(o.input, IndexRange) + o.epoch

\* Checked arithmetic reverts: no proof with these indices is ever accepted.
Overflows(o) ==
    \/ o.input * LeafSize >= Word
    \/ o.output * LeafSize >= Word
    \/ GetBitMaskPosition(o) >= Word

\* The output drive the hash of epoch e commits to, first of three.
OutputDrive(e) == epochHashes[e + 1][1]

\* isValidProof against epochHashes[epochIndex], whose access reverts when
\* the epoch is not final, and the positions computed on the way.
IsValidProof(o) ==
    /\ o.epoch < Len(epochHashes)
    /\ ~Overflows(o)
    /\ Place(o) \in DOMAIN OutputDrive(o.epoch)

\* The destination and payload that go with a valid proof.
CallOf(o) == OutputDrive(o.epoch)[Place(o)]

\* The outputs of the same epoch whose proofs lead to the same place.
SamePlace(o) == {p \in Outputs : p.epoch = o.epoch /\ Place(p) = Place(o)}

\* The outputs that share a bit.
SameBit(o) == {p \in Outputs : GetBitMaskPosition(p) = GetBitMaskPosition(o)}

\* The indices fit in the fields of a position.
InRange(o) == o.epoch < IndexRange /\ o.input < IndexRange /\ o.output < Double

Storage == [epochHashes |-> epochHashes, outputBitmask |-> outputBitmask, executed |-> executed]

-----------------------------------------------------------------------------
Init ==
    /\ epochHashes = <<>>
    /\ outputBitmask = {}
    /\ lock = FALSE
    /\ frames = <<>>
    /\ executed = [o \in Outputs |-> 0]

WrongExecuteOutput(o) ==
    /\ Len(frames) < MaxDepth
    /\ IsValidProof(o)
    /\ GetBitMaskPosition(o) \notin outputBitmask
    /\ lock' = TRUE
    /\ frames' = Append(frames, [output |-> o, saved |-> Storage])
    /\ UNCHANGED <<epochHashes, outputBitmask, executed>>

\* executeOutput up to the call, in a transaction of its own or from inside
\* the destination of another output.
ExecuteOutput(o) ==
    /\ Len(frames) < MaxDepth
    /\ ~lock
    /\ IsValidProof(o)
    /\ GetBitMaskPosition(o) \notin outputBitmask
    /\ lock' = TRUE
    /\ frames' = Append(frames, [output |-> o, saved |-> Storage])
    /\ UNCHANGED <<epochHashes, outputBitmask, executed>>

Top == frames[Len(frames)]
Callers == SubSeq(frames, 1, Len(frames) - 1)

\* The call returns: the bit is set and the lock released.
CallSucceeds ==
    /\ frames # <<>>
    /\ outputBitmask' = outputBitmask \cup {GetBitMaskPosition(Top.output)}
    /\ executed' = [executed EXCEPT ![Top.output] = @ + 1]
    /\ lock' = FALSE
    /\ frames' = Callers
    /\ UNCHANGED epochHashes

WrongCallFails ==
    /\ frames # <<>>
    /\ epochHashes' = Top.saved.epochHashes
    /\ outputBitmask' = Top.saved.outputBitmask
    /\ executed' = Top.saved.executed
    /\ frames' = Callers
    /\ UNCHANGED lock

\* The call fails: what it did is undone, the bit stays clear, executeOutput
\* itself succeeds and returns false.
CallFails ==
    /\ frames # <<>>
    /\ epochHashes' = Top.saved.epochHashes
    /\ outputBitmask' = Top.saved.outputBitmask
    /\ executed' = Top.saved.executed
    /\ lock' = FALSE
    /\ frames' = Callers

\* onNewEpoch, in a transaction of its own or inside an open call.
OnNewEpoch(epochHash) ==
    /\ Len(epochHashes) < MaxEpochs
    /\ epochHashes' = Append(epochHashes, epochHash)
    /\ UNCHANGED <<outputBitmask, lock, frames, executed>>

-----------------------------------------------------------------------------
\* "outputs can only be executed once" (OutputImpl.sol:71), whatever the
\* destinations call back, however often a call failed before and whichever
\* of the indices that lead to its place a proof names.
ExecutedOnce ==
    \A o \in Outputs :
        /\ executed[o] <= 1
        /\ executed[o] > 0 => \A p \in SamePlace(o) : executed[p] > 0 => p = o

\* What the bit mask guarantees for any indices: no two outputs that share a
\* bit take effect, nor one of them twice; a bit is set only if one of them
\* did, and then an output is only blocked by itself or because an index is too
\* large for its field.  An output whose call failed can be tried again.
BitsAreExecutions ==
    \A o \in Outputs :
        /\ executed[o] <= 1
        /\ \A p \in SameBit(o) : executed[o] > 0 /\ executed[p] > 0 => p = o
        /\ GetBitMaskPosition(o) \in outputBitmask <=>
              \E p \in SameBit(o) : executed[p] > 0 /\ (InRange(o) /\ InRange(p) => p = o)

\* The lock is held exactly while a call is open: no failure leaves the
\* contract locked.
LockIsReleased == lock <=> frames # <<>>

=============================================================================
