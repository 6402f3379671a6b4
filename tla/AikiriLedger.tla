---------------------------- MODULE AikiriLedger ----------------------------
(***************************************************************************)
(* The witness contract on Base, contracts/AikiriLedger.sol.  It holds one *)
(* hash per block index.  A call that reverts changes nothing, so the      *)
(* actions below are the calls that go through; Reverts says which do not. *)
(* Abstracted: the time and the caller stored beside a hash, and events.   *)
(***************************************************************************)
EXTENDS Naturals

CONSTANTS
    Accounts,      \* addresses that may call the contract
    Hashes,        \* the 32-byte hashes other than zero
    NoHash,        \* bytes32(0): what an index that was never anchored reads as
    GenesisHash,   \* the constructor's argument
    MaxIndex       \* bound on the indices considered (uint256 in the code)

ASSUME ContractAssumption ==
    /\ GenesisHash \in Hashes
    /\ NoHash \notin Hashes
    /\ MaxIndex \in Nat

VARIABLES
    owner,         \* the only account that may anchor
    latestIndex,   \* the index of the last anchored block
    anchors        \* index -> hash

contractVars == <<owner, latestIndex, anchors>>

Index == 0 .. MaxIndex

ContractTypeOK ==
    /\ owner \in Accounts
    /\ latestIndex \in Index
    /\ anchors \in [Index -> Hashes \cup {NoHash}]

(* The constructor, called by some account: it becomes the owner. *)
ContractInit ==
    /\ owner \in Accounts
    /\ latestIndex = 0
    /\ anchors = [i \in Index |-> IF i = 0 THEN GenesisHash ELSE NoHash]

(* Bugs the runs must find: the sequence check dropped, and one that lets an   *)
(* index be anchored again because it only refuses to leave a gap.            *)
RevertsOutOfOrder(sender, i, h) == sender # owner \/ h = NoHash \/ anchors[i] # NoHash
RevertsOnGap(sender, i, h) == sender # owner \/ h = NoHash \/ i > latestIndex + 1

(* The four errors anchor() can revert with. *)
Reverts(sender, i, h) ==
    \/ sender # owner              \* NotOwner
    \/ h = NoHash                  \* ZeroHash
    \/ anchors[i] # NoHash         \* AlreadyAnchored
    \/ i # latestIndex + 1         \* NotSequential

Anchor(sender, i, h) ==
    /\ ~Reverts(sender, i, h)
    /\ anchors' = [anchors EXCEPT ![i] = h]
    /\ latestIndex' = i
    /\ UNCHANGED owner

TransferOwnership(sender, newOwner) ==
    /\ sender = owner
    /\ owner' = newOwner
    /\ UNCHANGED <<latestIndex, anchors>>

(* The view function of the same name. *)
Matches(i, h) == anchors[i] = h /\ h # NoHash

ContractNext ==
    \/ \E a \in Accounts, i \in Index, h \in Hashes \cup {NoHash} : Anchor(a, i, h)
    \/ \E a, b \in Accounts : TransferOwnership(a, b)

ContractSpec == ContractInit /\ [][ContractNext]_contractVars

-----------------------------------------------------------------------------
(* No gaps: the indices that hold a hash are exactly 0 .. latestIndex, so   *)
(* that latestIndex alone tells a verifier which blocks to ask for          *)
(* (verify_all reads latestIndex once and then matches() for each block).   *)
Contiguous == \A i \in Index : anchors[i] # NoHash <=> i <= latestIndex

(* "a block can never be re-anchored" (contracts/AikiriLedger.sol:44): once  *)
(* an index holds a hash, no call of anyone changes it, whoever owns the    *)
(* contract by then.                                                        *)
NeverReanchored ==
    [][\A i \in Index : anchors[i] # NoHash => anchors'[i] = anchors[i]]_contractVars

(* The hashes anchored so far, as a log. *)
AnchoredLog == [n \in 1 .. latestIndex + 1 |-> anchors[n - 1]]

Log == INSTANCE AppendOnlyLog WITH Entries <- Hashes, log <- AnchoredLog

(* The contract implements an append-only log of hashes: every call that   *)
(* goes through appends exactly one hash, or leaves the log as it was.     *)
ImplementsLog == Log!Spec
=============================================================================
