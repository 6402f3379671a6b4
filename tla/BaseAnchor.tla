----------------------------- MODULE BaseAnchor -----------------------------
(***************************************************************************)
(* Anchoring a block on Base: Ledger.anchor_with_marker, write_pending,    *)
(* reconcile (chain.py) and BaseWitness.anchor, write_base_receipt         *)
(* (witness.py), run by one or several processes over one proofs/          *)
(* directory, against the contract of AikiriLedger.  A process is one      *)
(* `aikiri-ledger witness` or `reconcile`; it may be killed between any    *)
(* two steps.  A transaction is mined, dropped or left in the pool whether *)
(* or not the process that sent it is still there.                         *)
(*                                                                         *)
(* Files: `marker` is proofs/NNNNNN.base.pending.json and `receipt` is     *)
(* proofs/NNNNNN.base.json.  A file that was created or truncated and not  *)
(* yet written is "torn": it exists and cannot be parsed.                  *)
(***************************************************************************)
EXTENDS Naturals, FiniteSets

CONSTANTS
    Procs,         \* the processes
    NoProc,        \* none of them
    Account,       \* the wallet of config.json, which owns the contract
    Hashes, NoHash, GenesisHash, MaxIndex,   \* as in AikiriLedger
    BlockHash,     \* the hash of each block in blocks/ of this checkout
    ForeignHashes, \* hashes of blocks another checkout may anchor instead
    MaxTx,         \* bound on the transactions sent
    NoTx,          \* the marker's "tx": null, the receipt's "tx": ""
    MaxCrashes,    \* bound on the processes killed
    Lagging        \* TRUE when an RPC may answer from an older block

ASSUME BaseAssumption ==
    /\ GenesisHash \in Hashes
    /\ NoHash \notin Hashes
    /\ MaxIndex \in Nat
    /\ BlockHash \in [0 .. MaxIndex -> Hashes]
    /\ ForeignHashes \subseteq Hashes
    /\ MaxTx \in Nat
    /\ NoTx \notin 1 .. MaxTx
    /\ NoProc \notin Procs
    /\ MaxCrashes \in Nat
    /\ Lagging \in BOOLEAN

VARIABLES
    owner, latestIndex, anchors,   \* the contract
    txs,        \* the account's transactions: which block, and what became of it
    marker,     \* block -> its pending marker
    receipt,    \* block -> its Base receipt
    run,        \* process -> where it is in its command
    crashes     \* processes killed so far

contractVars == <<owner, latestIndex, anchors>>
files == <<marker, receipt>>
vars == <<owner, latestIndex, anchors, txs, marker, receipt, run, crashes>>

Contract == INSTANCE AikiriLedger WITH Accounts <- {Account}

Blocks == 1 .. MaxIndex          \* genesis is anchored by the constructor
TxIds == 1 .. MaxTx

NoMarker == [st |-> "absent", by |-> NoProc, tx |-> NoTx]
TornMarker(p) == [st |-> "torn", by |-> p, tx |-> NoTx]
FullMarker(t) == [st |-> "full", by |-> NoProc, tx |-> t]

NoReceipt == [st |-> "absent", tx |-> NoTx, cost |-> FALSE]
TornReceipt == [st |-> "torn", tx |-> NoTx, cost |-> FALSE]
FullReceipt(t, c) == [st |-> "full", tx |-> t, cost |-> c]

Idle == [pc |-> "idle", cmd |-> "none", blk |-> 0, tx |-> NoTx,
         cost |-> FALSE, todo |-> {}]

TxType == [st : {"unsent", "pool", "mined", "reverted", "dropped"}, blk : Blocks \cup {0}]
MarkerType == [st : {"absent", "torn", "full"}, by : Procs \cup {NoProc}, tx : TxIds \cup {NoTx}]
ReceiptType == [st : {"absent", "torn", "full"}, tx : TxIds \cup {NoTx}, cost : BOOLEAN]
RunType == [pc : {"idle", "claim", "fill", "send", "wait", "update",
                  "open", "write", "unlink", "scan", "match"},
            cmd : {"none", "anchor", "reconcile"},
            blk : Blocks \cup {0}, tx : TxIds \cup {NoTx}, cost : BOOLEAN, todo : SUBSET Blocks]

TypeOK ==
    /\ Contract!ContractTypeOK
    /\ txs \in [TxIds -> TxType]
    /\ marker \in [Blocks -> MarkerType]
    /\ receipt \in [Blocks -> ReceiptType]
    /\ run \in [Procs -> RunType]
    /\ crashes \in 0 .. MaxCrashes

Init ==
    /\ Contract!ContractInit
    /\ txs = [t \in TxIds |-> [st |-> "unsent", blk |-> 0]]
    /\ marker = [i \in Blocks |-> NoMarker]
    /\ receipt = [i \in Blocks |-> NoReceipt]
    /\ run = [p \in Procs |-> Idle]
    /\ crashes = 0

-----------------------------------------------------------------------------
(* Base, and the RPC that speaks for it *)

(* How far the node that answers a call may have got. *)
Views == IF Lagging THEN 0 .. latestIndex ELSE {latestIndex}

(* anchor(i, hash) does not revert in the state seen at index v. *)
EstimatePasses(i) == \E v \in Views : i = v + 1

(* matches(i, hash), asked of a node that has got to index v. *)
SeenAt(i, v) == i <= v /\ Contract!Matches(i, BlockHash[i])

(* The transaction is included in a Base block: it anchors, or reverts. *)
Mine(t) ==
    /\ txs[t].st = "pool"
    /\ LET i == txs[t].blk
           h == BlockHash[i]
       IN  \/ /\ Contract!Anchor(Account, i, h)
              /\ txs' = [txs EXCEPT ![t].st = "mined"]
           \/ /\ Contract!Reverts(Account, i, h)
              /\ txs' = [txs EXCEPT ![t].st = "reverted"]
              /\ UNCHANGED contractVars
    /\ UNCHANGED <<marker, receipt, run, crashes>>

(* The pool forgets the transaction; it will never be mined. *)
Drop(t) ==
    /\ txs[t].st = "pool"
    /\ txs' = [txs EXCEPT ![t].st = "dropped"]
    /\ UNCHANGED <<contractVars, marker, receipt, run, crashes>>

(* A run in another checkout anchors its own block i, with the same wallet. *)
ForeignAnchor(i) ==
    /\ \E h \in ForeignHashes : Contract!Anchor(Account, i, h)
    /\ UNCHANGED <<txs, marker, receipt, run, crashes>>

-----------------------------------------------------------------------------
(* anchor_with_marker *)

Goto(p, pc) == run' = [run EXCEPT ![p].pc = pc]
Stop(p) == run' = [run EXCEPT ![p] = Idle]    \* it returns or raises

(* base.json must not exist. *)
StartAnchor(p, i) ==
    /\ run[p].pc = "idle"
    /\ receipt[i].st = "absent"
    /\ run' = [run EXCEPT ![p] = [Idle EXCEPT !.pc = "claim", !.cmd = "anchor", !.blk = i]]
    /\ UNCHANGED <<contractVars, txs, files, crashes>>

(* A bug: the marker is created whether or not there is one. *)
ClaimShared(p) ==
    /\ run[p].pc = "claim"
    /\ marker' = [marker EXCEPT ![run[p].blk] = TornMarker(p)]
    /\ Goto(p, "fill")
    /\ UNCHANGED <<contractVars, txs, receipt, crashes>>

(* write_pending(exclusive=True) opens the marker with O_CREAT | O_EXCL ... *)
Claim(p) ==
    /\ run[p].pc = "claim"
    /\ \/ /\ marker[run[p].blk].st = "absent"
          /\ marker' = [marker EXCEPT ![run[p].blk] = TornMarker(p)]
          /\ Goto(p, "fill")
       \/ /\ marker[run[p].blk].st # "absent"    \* FileExistsError
          /\ UNCHANGED marker
          /\ Stop(p)
    /\ UNCHANGED <<contractVars, txs, receipt, crashes>>

(* ... and writes into the file it opened, wherever that file is by now. *)
Fill(p) ==
    /\ run[p].pc = "fill"
    /\ marker' = IF marker[run[p].blk] = TornMarker(p)
                 THEN [marker EXCEPT ![run[p].blk] = FullMarker(NoTx)]
                 ELSE marker
    /\ Goto(p, "send")
    /\ UNCHANGED <<contractVars, txs, receipt, crashes>>

(* transact() raises before anything is broadcast: an error, or the estimate reverts. *)
SendFails(p) ==
    /\ run[p].pc = "send"
    /\ Stop(p)
    /\ UNCHANGED <<contractVars, txs, files, crashes>>

(* transact() broadcasts.  Its answer arrives, or is lost and it raises. *)
Send(p, t) ==
    /\ run[p].pc = "send"
    /\ EstimatePasses(run[p].blk)
    /\ txs[t].st = "unsent"
    /\ \A s \in TxIds : s < t => txs[s].st # "unsent"
    /\ txs' = [txs EXCEPT ![t] = [st |-> "pool", blk |-> run[p].blk]]
    /\ \/ run' = [run EXCEPT ![p].pc = "wait", ![p].tx = t]
       \/ Stop(p)
    /\ UNCHANGED <<contractVars, files, crashes>>

(* A bug: the receipt's status is not looked at. *)
ConfirmedAnyStatus(p) ==
    /\ run[p].pc = "wait"
    /\ txs[run[p].tx].st \in {"mined", "reverted"}
    /\ run' = [run EXCEPT ![p].pc = "update", ![p].cost = TRUE]
    /\ UNCHANGED <<contractVars, txs, files, crashes>>

(* wait_for_transaction_receipt: status 1, or status 0 which raises. *)
Confirmed(p) ==
    /\ run[p].pc = "wait"
    /\ \/ /\ txs[run[p].tx].st = "mined"
          /\ run' = [run EXCEPT ![p].pc = "update", ![p].cost = TRUE]
       \/ /\ txs[run[p].tx].st = "reverted"
          /\ Stop(p)
    /\ UNCHANGED <<contractVars, txs, files, crashes>>

(* A bug: the marker is removed on the way out, as a lock file would be. *)
TimesOutUnlocks(p) ==
    /\ run[p].pc = "wait"
    /\ marker' = [marker EXCEPT ![run[p].blk] = NoMarker]
    /\ Stop(p)
    /\ UNCHANGED <<contractVars, txs, receipt, crashes>>

(* The receipt is not seen within the timeout, whatever became of the transaction. *)
TimesOut(p) ==
    /\ run[p].pc = "wait"
    /\ Stop(p)
    /\ UNCHANGED <<contractVars, txs, files, crashes>>

(* A bug: the transaction is not written into the marker. *)
UpdateMarkerSkipped(p) ==
    /\ run[p].pc = "update"
    /\ Goto(p, "open")
    /\ UNCHANGED <<contractVars, txs, files, crashes>>

(* write_pending again, with the transaction: a temporary file and os.replace. *)
UpdateMarker(p) ==
    /\ run[p].pc = "update"
    /\ marker' = [marker EXCEPT ![run[p].blk] = FullMarker(run[p].tx)]
    /\ Goto(p, "open")
    /\ UNCHANGED <<contractVars, txs, receipt, crashes>>

-----------------------------------------------------------------------------
(* write_base_receipt, of both commands *)

(* A bug: the marker is removed before the receipt is written. *)
OpenReceiptUnmarked(p) ==
    /\ run[p].pc = "open"
    /\ receipt' = [receipt EXCEPT ![run[p].blk] = TornReceipt]
    /\ marker' = [marker EXCEPT ![run[p].blk] = NoMarker]
    /\ Goto(p, "write")
    /\ UNCHANGED <<contractVars, txs, crashes>>

(* Path.write_text truncates the file, or creates it ... *)
OpenReceipt(p) ==
    /\ run[p].pc = "open"
    /\ receipt' = [receipt EXCEPT ![run[p].blk] = TornReceipt]
    /\ Goto(p, "write")
    /\ UNCHANGED <<contractVars, txs, marker, crashes>>

(* ... and then writes it, from its start.  A shorter text (no tx, or no    *)
(* cost) over a longer one leaves the end of the longer one behind it.      *)
Shorter(new, old) ==
    old.st = "full" /\ ((new.tx = NoTx /\ old.tx # NoTx) \/ (~new.cost /\ old.cost))

WriteReceipt(p) ==
    /\ run[p].pc = "write"
    /\ LET new == FullReceipt(run[p].tx, run[p].cost)
           i == run[p].blk
       IN  receipt' = [receipt EXCEPT ![i] = IF Shorter(new, receipt[i]) THEN TornReceipt ELSE new]
    /\ Goto(p, "unlink")
    /\ UNCHANGED <<contractVars, txs, marker, crashes>>

(* A bug: reconcile does not remove the marker it has settled. *)
UnlinkAnchorOnly(p) ==
    /\ run[p].pc = "unlink"
    /\ \/ /\ run[p].cmd = "anchor"
          /\ marker' = [marker EXCEPT ![run[p].blk] = NoMarker]
          /\ Stop(p)
       \/ /\ run[p].cmd = "reconcile"
          /\ run' = [run EXCEPT ![p].pc = "scan", ![p].todo = @ \ {run[p].blk}]
          /\ UNCHANGED marker
    /\ UNCHANGED <<contractVars, txs, receipt, crashes>>

(* anchor_with_marker removes the marker with missing_ok=True; reconcile     *)
(* does not, and raises when the marker is gone.                            *)
Unlink(p) ==
    /\ run[p].pc = "unlink"
    /\ marker' = [marker EXCEPT ![run[p].blk] = NoMarker]
    /\ \/ /\ run[p].cmd = "anchor"
          /\ Stop(p)
       \/ /\ run[p].cmd = "reconcile"
          /\ marker[run[p].blk].st # "absent"
          /\ run' = [run EXCEPT ![p].pc = "scan", ![p].todo = @ \ {run[p].blk}]
       \/ /\ run[p].cmd = "reconcile"
          /\ marker[run[p].blk].st = "absent"
          /\ Stop(p)
    /\ UNCHANGED <<contractVars, txs, receipt, crashes>>

-----------------------------------------------------------------------------
(* reconcile *)

(* A bug: only the markers that name a transaction are looked at. *)
StartReconcileSent(p) ==
    /\ run[p].pc = "idle"
    /\ LET found == {i \in Blocks : marker[i].st = "full" /\ marker[i].tx # NoTx}
       IN  /\ found # {}
           /\ run' = [run EXCEPT ![p] =
                        [Idle EXCEPT !.pc = "scan", !.cmd = "reconcile", !.todo = found]]
    /\ UNCHANGED <<contractVars, txs, files, crashes>>

(* sorted(glob(...)): the markers there when it starts, lowest index first. *)
StartReconcile(p) ==
    /\ run[p].pc = "idle"
    /\ LET found == {i \in Blocks : marker[i].st # "absent"}
       IN  /\ found # {}
           /\ run' = [run EXCEPT ![p] =
                        [Idle EXCEPT !.pc = "scan", !.cmd = "reconcile", !.todo = found]]
    /\ UNCHANGED <<contractVars, txs, files, crashes>>

IsNext(p, i) == i \in run[p].todo /\ \A j \in run[p].todo : i <= j

(* Reads the next marker; one that is unreadable, or gone, ends the command. *)
ReadMarker(p) ==
    /\ run[p].pc = "scan"
    /\ \/ /\ run[p].todo = {}
          /\ Stop(p)
       \/ \E i \in Blocks :
             /\ IsNext(p, i)
             /\ \/ /\ marker[i].st = "full"
                   /\ run' = [run EXCEPT ![p].pc = "match", ![p].blk = i, ![p].tx = marker[i].tx]
                \/ /\ marker[i].st # "full"
                   /\ Stop(p)
    /\ UNCHANGED <<contractVars, txs, files, crashes>>

(* base.matches(block) is false: the marker is left, the next one is read. *)
NotOnChain(p) ==
    /\ run[p].pc = "match"
    /\ \E v \in Views : ~SeenAt(run[p].blk, v)
    /\ run' = [run EXCEPT ![p].pc = "scan", ![p].todo = @ \ {run[p].blk}]
    /\ UNCHANGED <<contractVars, txs, files, crashes>>

(* base.matches(block) is true; the transaction's receipt is found, or not. *)
OnChain(p) ==
    /\ run[p].pc = "match"
    /\ \E v \in Views : SeenAt(run[p].blk, v)
    /\ \E c \in BOOLEAN :
          /\ c => run[p].tx # NoTx
          /\ run' = [run EXCEPT ![p].pc = "open", ![p].cost = c]
    /\ UNCHANGED <<contractVars, txs, files, crashes>>

(* matches(), or the chain_id asked for just before the receipt is written, raises. *)
RpcFails(p) ==
    /\ run[p].pc \in {"match", "open"}
    /\ Stop(p)
    /\ UNCHANGED <<contractVars, txs, files, crashes>>

-----------------------------------------------------------------------------
(* Around the commands *)

Crash(p) ==
    /\ run[p].pc # "idle"
    /\ crashes < MaxCrashes
    /\ crashes' = crashes + 1
    /\ Stop(p)
    /\ UNCHANGED <<contractVars, txs, files>>

(* What reconcile's error asks of a person: with no command running, the      *)
(* account's transactions were checked and none for the block is in flight.   *)
(* Also the only way out of a marker whose transaction was never sent.        *)
RemoveMarker(i) ==
    /\ \A p \in Procs : run[p].pc = "idle"
    /\ \/ marker[i].st = "torn"
       \/ marker[i].st = "full" /\ ~Contract!Matches(i, BlockHash[i])
    /\ \A t \in TxIds : txs[t].blk = i => txs[t].st # "pool"
    /\ marker' = [marker EXCEPT ![i] = NoMarker]
    /\ UNCHANGED <<contractVars, txs, receipt, run, crashes>>

ProcStep(p) ==
    \/ Claim(p)
    \/ Fill(p)
    \/ SendFails(p)
    \/ \E t \in TxIds : Send(p, t)
    \/ Confirmed(p)
    \/ TimesOut(p)
    \/ UpdateMarker(p)
    \/ OpenReceipt(p)
    \/ WriteReceipt(p)
    \/ Unlink(p)
    \/ ReadMarker(p)
    \/ NotOnChain(p)
    \/ OnChain(p)
    \/ RpcFails(p)

Next ==
    \/ \E p \in Procs : ProcStep(p)
    \/ \E p \in Procs, i \in Blocks : StartAnchor(p, i)
    \/ \E p \in Procs : StartReconcile(p)
    \/ \E p \in Procs : Crash(p)
    \/ \E t \in TxIds : Mine(t)
    \/ \E t \in TxIds : Drop(t)
    \/ \E i \in Blocks : ForeignAnchor(i)
    \/ \E i \in Blocks : RemoveMarker(i)

Spec == Init /\ [][Next]_vars

(* A command that runs goes on, each waiting call being bounded by its own  *)
(* timeout.  Whoever is told to run reconcile does, again after it failed,  *)
(* and removes the markers it is told to; Base is not unreachable for ever. *)
Fairness ==
    /\ \A p \in Procs :
          /\ WF_vars(ProcStep(p))
          /\ SF_vars(StartReconcile(p))
          /\ SF_vars(NotOnChain(p))
          /\ SF_vars(OnChain(p))
          /\ SF_vars(OpenReceipt(p))
    /\ \A i \in Blocks : SF_vars(RemoveMarker(i))
    /\ \A t \in TxIds : WF_vars(Mine(t) \/ Drop(t))   \* the pool keeps nothing for ever

FairSpec == Spec /\ Fairness

-----------------------------------------------------------------------------
(* A complete base.json is true: the contract holds this block's hash at    *)
(* its index.  write_base_receipt runs only after a receipt with status 1   *)
(* or after matches(), and what is anchored stays anchored; it must hold    *)
(* through crashes, lagging nodes, foreign anchors and several processes.   *)
ReceiptTrue ==
    \A i \in Blocks : receipt[i].st = "full" => Contract!Matches(i, BlockHash[i])

(* At most one transaction per block is in flight or mined: a second one    *)
(* costs gas and reverts.  "this marker is what stops the next run from      *)
(* sending a second one" (chain.py:327).                                    *)
OneLiveTx ==
    \A t, u \in TxIds :
        /\ txs[t].blk = txs[u].blk
        /\ txs[t].st \in {"pool", "mined"}
        /\ txs[u].st \in {"pool", "mined"}
        => t = u

(* While a transaction may still be mined, its block has a marker that can be *)
(* read, whatever happened to the process that sent it ("A marker is the only *)
(* record that a transaction may be in flight", chain.py:396); an unreadable   *)
(* one was cut short before anything was sent.                                *)
InFlightMarked ==
    \A t \in TxIds : txs[t].st = "pool" => marker[txs[t].blk].st = "full"

(* What was mined is on record for good: in the marker, until a complete       *)
(* base.json has taken its place.  So a base.json that a crash cut short still *)
(* has its marker, and reconcile, not a person, repairs it (anchor_with_marker *)
(* takes any base.json for an anchored block and would never look again); and  *)
(* a person who removes an unreadable marker loses nothing.                    *)
MinedIsRecorded ==
    \A t \in TxIds : txs[t].st = "mined" =>
        \/ marker[txs[t].blk].st = "full"
        \/ receipt[txs[t].blk].st = "full"

(* A marker left beside a complete receipt names the same transaction, so   *)
(* that reconcile, which writes the receipt again from the marker, does not *)
(* lose the transaction the receipt named.                                  *)
MarkerAgrees ==
    \A i \in Blocks : receipt[i].st = "full" /\ marker[i].st = "full" =>
        \/ marker[i].tx = receipt[i].tx
        \/ \E p \in Procs : run[p].pc = "update" /\ run[p].blk = i

(* Whatever is mined gets its receipt in the end: after a timeout, a crash  *)
(* or a lost answer the marker leads reconcile to it.                       *)
AnchoredIsReceipted ==
    \A t \in TxIds, i \in Blocks :
        (txs[t].st = "mined" /\ txs[t].blk = i) ~> (receipt[i].st = "full")

(* No marker stays for ever: reconcile clears it, or asks a person to.       *)
MarkerCleared ==
    \A i \in Blocks : (marker[i].st # "absent") ~> (marker[i].st = "absent")
=============================================================================
