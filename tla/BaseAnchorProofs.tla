-------------------------- MODULE BaseAnchorProofs --------------------------
(***************************************************************************)
(* What holds of anchoring for any number of processes, blocks,            *)
(* transactions and crashes, with up-to-date or lagging nodes, and with     *)
(* foreign anchors: the type invariant, and that a receipt is true.        *)
(*                                                                         *)
(* ReceiptTrue is not inductive: the receipt is written several steps after *)
(* the contract was seen to hold the hash, so the invariant says of every   *)
(* process between the two, and of every mined transaction, that the        *)
(* contract holds the hash (Sure, MinedTrue), and of every process waiting  *)
(* for a transaction that it is a transaction of its own block (Waiting).   *)
(***************************************************************************)
EXTENDS BaseAnchor, TLAPS

Anchored(i) == Contract!Matches(i, BlockHash[i])

(* A process that is past the confirmation knows its block to be anchored. *)
Sure == \A p \in Procs :
            run[p].pc \in {"update", "open", "write", "unlink"} =>
                run[p].blk \in Blocks /\ Anchored(run[p].blk)

(* A transaction that was mined, and did not revert, anchored its block. *)
MinedTrue == \A t \in TxIds : txs[t].st = "mined" => Anchored(txs[t].blk)

(* A process waits for a transaction that it sent for its block. *)
Waiting == \A p \in Procs :
              /\ run[p].pc = "wait" =>
                    /\ run[p].tx \in TxIds
                    /\ txs[run[p].tx].st # "unsent"
                    /\ txs[run[p].tx].blk = run[p].blk
              /\ run[p].pc \in {"claim", "fill", "send", "wait", "match"} =>
                    run[p].blk \in Blocks

IInv == TypeOK /\ ReceiptTrue /\ Sure /\ MinedTrue /\ Waiting

-----------------------------------------------------------------------------
(* What the contract holds for an index, it holds for good. *)
AnchoredStays == \A i \in 0 .. MaxIndex : anchors[i] # NoHash => anchors'[i] = anchors[i]

(* A call of anchor() that goes through: what was anchored still is, and   *)
(* the block it was called for is anchored with the hash it was given.     *)
LEMMA AnchorCall ==
    ASSUME Contract!ContractTypeOK, NEW i \in 0 .. MaxIndex, NEW h \in Hashes,
           Contract!Anchor(Account, i, h)
    PROVE  /\ Contract!ContractTypeOK'
           /\ AnchoredStays
           /\ anchors'[i] = h
<1>1. /\ Contract!Index = 0 .. MaxIndex
      /\ anchors[i] = NoHash /\ anchors' = [anchors EXCEPT ![i] = h]
      /\ latestIndex' = i /\ owner' = owner
  BY DEF Contract!Anchor, Contract!Reverts, Contract!Index
<1>2. Contract!ContractTypeOK'
  BY <1>1 DEF Contract!ContractTypeOK
<1>3. AnchoredStays
  BY <1>1, BaseAssumption DEF AnchoredStays, Contract!ContractTypeOK
<1> QED BY <1>1, <1>2, <1>3 DEF Contract!ContractTypeOK

(* A step that leaves the contract alone leaves what is anchored alone. *)
LEMMA ContractUnchanged ==
    ASSUME Contract!ContractTypeOK, UNCHANGED contractVars
    PROVE  Contract!ContractTypeOK' /\ AnchoredStays
  BY DEF contractVars, Contract!ContractTypeOK, AnchoredStays

(* What the helpers write is well typed. *)
LEMMA FileTypes ==
    /\ NoMarker \in MarkerType
    /\ \A p \in Procs : TornMarker(p) \in MarkerType
    /\ \A t \in TxIds \cup {NoTx} : FullMarker(t) \in MarkerType
    /\ NoReceipt \in ReceiptType
    /\ TornReceipt \in ReceiptType
    /\ \A t \in TxIds \cup {NoTx}, c \in BOOLEAN : FullReceipt(t, c) \in ReceiptType
  BY DEF NoMarker, TornMarker, FullMarker, MarkerType,
         NoReceipt, TornReceipt, FullReceipt, ReceiptType

LEMMA IdleType == Idle \in RunType /\ Idle.pc = "idle"
  BY DEF Idle, RunType

(* A process that stops. *)
LEMMA StopType ==
    ASSUME run \in [Procs -> RunType], NEW p \in Procs, Stop(p)
    PROVE  run' \in [Procs -> RunType]
  BY IdleType DEF Stop

(* A process that goes on, with what it has learnt. *)
LEMMA GotoType ==
    ASSUME run \in [Procs -> RunType], NEW p \in Procs,
           NEW pc \in {"fill", "send", "open", "write", "unlink"}, Goto(p, pc)
    PROVE  run' \in [Procs -> RunType]
  BY DEF Goto, RunType

LEMMA WaitType ==
    ASSUME run \in [Procs -> RunType], NEW p \in Procs, NEW t \in TxIds,
           run' = [run EXCEPT ![p].pc = "wait", ![p].tx = t]
    PROVE  run' \in [Procs -> RunType]
<1> DEFINE r == [run[p] EXCEPT !.pc = "wait", !.tx = t]
<1>1. r \in RunType
  BY DEF RunType
<1>2. run' = [run EXCEPT ![p] = r]
  OBVIOUS
<1> QED BY <1>1, <1>2

LEMMA CostType ==
    ASSUME run \in [Procs -> RunType], NEW p \in Procs, NEW c \in BOOLEAN,
           NEW pc \in {"update", "open"},
           run' = [run EXCEPT ![p].pc = pc, ![p].cost = c]
    PROVE  run' \in [Procs -> RunType]
<1> DEFINE r == [run[p] EXCEPT !.pc = pc, !.cost = c]
<1>1. r \in RunType
  BY DEF RunType
<1>2. run' = [run EXCEPT ![p] = r]
  OBVIOUS
<1> QED BY <1>1, <1>2

LEMMA ScanType ==
    ASSUME run \in [Procs -> RunType], NEW p \in Procs,
           run' = [run EXCEPT ![p].pc = "scan", ![p].todo = @ \ {run[p].blk}]
    PROVE  run' \in [Procs -> RunType]
<1> DEFINE r == [run[p] EXCEPT !.pc = "scan", !.todo = @ \ {run[p].blk}]
<1>1. r \in RunType
  BY DEF RunType
<1>2. run' = [run EXCEPT ![p] = r]
  OBVIOUS
<1> QED BY <1>1, <1>2

LEMMA MatchType ==
    ASSUME run \in [Procs -> RunType], NEW p \in Procs, NEW i \in Blocks,
           NEW t \in TxIds \cup {NoTx},
           run' = [run EXCEPT ![p].pc = "match", ![p].blk = i, ![p].tx = t]
    PROVE  run' \in [Procs -> RunType]
<1> DEFINE r == [run[p] EXCEPT !.pc = "match", !.blk = i, !.tx = t]
<1>1. r \in RunType
  BY DEF RunType
<1>2. run' = [run EXCEPT ![p] = r]
  OBVIOUS
<1> QED BY <1>1, <1>2

-----------------------------------------------------------------------------
LEMMA InitIInv == Init => IInv
<1> SUFFICES ASSUME Init PROVE IInv
  OBVIOUS
<1>1. Contract!ContractTypeOK
  <2>1. 0 \in Contract!Index
    BY BaseAssumption DEF Contract!Index
  <2> QED BY <2>1, BaseAssumption DEF Init, Contract!ContractInit, Contract!ContractTypeOK
<1>2. TypeOK
  BY <1>1, IdleType, FileTypes, BaseAssumption DEF Init, TypeOK, TxType
<1>3. ReceiptTrue /\ MinedTrue
  BY DEF Init, ReceiptTrue, MinedTrue, NoReceipt
<1>4. Sure /\ Waiting
  BY DEF Init, Sure, Waiting, Idle
<1> QED BY <1>2, <1>3, <1>4 DEF IInv

(* Every step keeps the types, and everything anchored stays anchored. *)
LEMMA StepTypeOK == TypeOK /\ [Next]_vars => TypeOK' /\ AnchoredStays
<1> SUFFICES ASSUME TypeOK, [Next]_vars PROVE TypeOK' /\ AnchoredStays
  OBVIOUS
<1>0. Contract!ContractTypeOK
  BY DEF TypeOK
<1>1. CASE UNCHANGED vars
  <2>1. UNCHANGED contractVars
    BY <1>1 DEF vars, contractVars
  <2> QED BY <2>1, <1>0, <1>1, ContractUnchanged DEF TypeOK, vars
<1>2. ASSUME NEW p \in Procs, ProcStep(p)
      PROVE  TypeOK' /\ AnchoredStays
  <2>0. UNCHANGED <<contractVars, crashes>>
    BY <1>2 DEF ProcStep, Claim, Fill, SendFails, Send, Confirmed, TimesOut, UpdateMarker,
                OpenReceipt, WriteReceipt, Unlink, ReadMarker, NotOnChain, OnChain, RpcFails
  <2>1. Contract!ContractTypeOK' /\ AnchoredStays
    BY <2>0, <1>0, ContractUnchanged
  <2> USE DEF TypeOK
  <2>2. CASE Claim(p)
    <3>1. run' \in [Procs -> RunType]
      BY <2>2, StopType, GotoType DEF Claim
    <3>2. marker' \in [Blocks -> MarkerType]
      BY <2>2, FileTypes DEF Claim
    <3> QED BY <2>0, <2>1, <2>2, <3>1, <3>2 DEF Claim
  <2>3. CASE Fill(p)
    <3>1. run' \in [Procs -> RunType]
      BY <2>3, GotoType DEF Fill
    <3>2. marker' \in [Blocks -> MarkerType]
      BY <2>3, FileTypes DEF Fill
    <3> QED BY <2>0, <2>1, <2>3, <3>1, <3>2 DEF Fill
  <2>4. CASE SendFails(p) \/ TimesOut(p) \/ RpcFails(p)
    BY <2>0, <2>1, <2>4, StopType DEF SendFails, TimesOut, RpcFails, files
  <2>5. ASSUME NEW t \in TxIds, Send(p, t) PROVE TypeOK'
    <3>1. run[p].blk \in Blocks \cup {0}
      BY DEF RunType
    <3>2. txs' \in [TxIds -> TxType]
      BY <2>5, <3>1 DEF Send, TxType
    <3>3. CASE Stop(p)
      BY <2>0, <2>1, <2>5, <3>2, <3>3, StopType DEF Send, files
    <3>4. CASE run' = [run EXCEPT ![p].pc = "wait", ![p].tx = t]
      <4>1. run' \in [Procs -> RunType]
        BY <3>4, WaitType
      <4> QED BY <2>0, <2>1, <2>5, <3>2, <4>1 DEF Send, files
    <3> QED BY <2>5, <3>3, <3>4 DEF Send
  <2>6. CASE Confirmed(p)
    <3>1. CASE Stop(p)
      BY <2>0, <2>1, <2>6, <3>1, StopType DEF Confirmed, files
    <3>2. CASE run' = [run EXCEPT ![p].pc = "update", ![p].cost = TRUE]
      <4>1. run' \in [Procs -> RunType]
        BY <3>2, CostType
      <4> QED BY <2>0, <2>1, <2>6, <4>1 DEF Confirmed, files
    <3> QED BY <2>6, <3>1, <3>2 DEF Confirmed
  <2>7. CASE UpdateMarker(p)
    <3>1. run[p].tx \in TxIds \cup {NoTx}
      BY DEF RunType
    <3>2. marker' \in [Blocks -> MarkerType]
      BY <2>7, <3>1, FileTypes DEF UpdateMarker
    <3> QED BY <2>0, <2>1, <2>7, <3>2, GotoType DEF UpdateMarker
  <2>8. CASE OpenReceipt(p)
    BY <2>0, <2>1, <2>8, FileTypes, GotoType DEF OpenReceipt
  <2>9. CASE WriteReceipt(p)
    <3>1. run[p].tx \in TxIds \cup {NoTx} /\ run[p].cost \in BOOLEAN
      BY DEF RunType
    <3>2. receipt' \in [Blocks -> ReceiptType]
      BY <2>9, <3>1, FileTypes DEF WriteReceipt
    <3> QED BY <2>0, <2>1, <2>9, <3>2, GotoType DEF WriteReceipt
  <2>10. CASE Unlink(p)
    <3>1. marker' \in [Blocks -> MarkerType]
      BY <2>10, FileTypes DEF Unlink
    <3>2. run' \in [Procs -> RunType]
      <4>1. CASE Stop(p)
        BY <4>1, StopType
      <4>2. CASE run' = [run EXCEPT ![p].pc = "scan", ![p].todo = @ \ {run[p].blk}]
        BY <4>2, ScanType
      <4> QED BY <2>10, <4>1, <4>2 DEF Unlink
    <3> QED BY <2>0, <2>1, <2>10, <3>1, <3>2 DEF Unlink
  <2>11. CASE ReadMarker(p)
    <3>1. run' \in [Procs -> RunType]
      <4>1. CASE Stop(p)
        BY <4>1, StopType
      <4>2. ASSUME NEW i \in Blocks,
                   run' = [run EXCEPT ![p].pc = "match", ![p].blk = i, ![p].tx = marker[i].tx]
            PROVE  run' \in [Procs -> RunType]
        <5>1. marker[i].tx \in TxIds \cup {NoTx}
          BY DEF MarkerType
        <5> QED BY <4>2, <5>1, MatchType
      <4> QED BY <2>11, <4>1, <4>2 DEF ReadMarker
    <3> QED BY <2>0, <2>1, <2>11, <3>1 DEF ReadMarker, files
  <2>12. CASE NotOnChain(p)
    <3>1. run' \in [Procs -> RunType]
      BY <2>12, ScanType DEF NotOnChain
    <3> QED BY <2>0, <2>1, <2>12, <3>1 DEF NotOnChain, files
  <2>13. CASE OnChain(p)
    <3>1. run' \in [Procs -> RunType]
      BY <2>13, CostType DEF OnChain
    <3> QED BY <2>0, <2>1, <2>13, <3>1 DEF OnChain, files
  <2> QED BY <1>2, <2>1, <2>2, <2>3, <2>4, <2>5, <2>6, <2>7, <2>8, <2>9, <2>10,
             <2>11, <2>12, <2>13 DEF ProcStep
<1>3. ASSUME NEW p \in Procs, NEW i \in Blocks, StartAnchor(p, i)
      PROVE  TypeOK' /\ AnchoredStays
  <2>1. run' \in [Procs -> RunType]
    BY <1>3 DEF StartAnchor, TypeOK, RunType, Idle
  <2> QED BY <1>0, <1>3, <2>1, ContractUnchanged DEF StartAnchor, TypeOK, files
<1>4. ASSUME NEW p \in Procs, StartReconcile(p)
      PROVE  TypeOK' /\ AnchoredStays
  <2>1. run' \in [Procs -> RunType]
    BY <1>4 DEF StartReconcile, TypeOK, RunType, Idle
  <2> QED BY <1>0, <1>4, <2>1, ContractUnchanged DEF StartReconcile, TypeOK, files
<1>5. ASSUME NEW p \in Procs, Crash(p)
      PROVE  TypeOK' /\ AnchoredStays
  BY <1>0, <1>5, StopType, ContractUnchanged, BaseAssumption DEF Crash, TypeOK, files
<1>6. ASSUME NEW t \in TxIds, Mine(t)
      PROVE  TypeOK' /\ AnchoredStays
  <2>1. txs[t].blk \in 0 .. MaxIndex /\ BlockHash[txs[t].blk] \in Hashes
    BY BaseAssumption DEF TypeOK, TxType, Blocks
  <2>2. Contract!ContractTypeOK' /\ AnchoredStays
    BY <1>0, <1>6, <2>1, AnchorCall, ContractUnchanged DEF Mine
  <2>3. txs' \in [TxIds -> TxType]
    BY <1>6 DEF Mine, TypeOK, TxType
  <2> QED BY <1>6, <2>2, <2>3 DEF Mine, TypeOK
<1>7. ASSUME NEW t \in TxIds, Drop(t)
      PROVE  TypeOK' /\ AnchoredStays
  <2>1. txs' \in [TxIds -> TxType]
    BY <1>7 DEF Drop, TypeOK, TxType
  <2> QED BY <1>0, <1>7, <2>1, ContractUnchanged DEF Drop, TypeOK
<1>8. ASSUME NEW i \in Blocks, ForeignAnchor(i)
      PROVE  TypeOK' /\ AnchoredStays
  <2>1. PICK h \in ForeignHashes : Contract!Anchor(Account, i, h)
    BY <1>8 DEF ForeignAnchor
  <2>2. i \in 0 .. MaxIndex /\ h \in Hashes
    BY BaseAssumption DEF Blocks
  <2>3. Contract!ContractTypeOK' /\ AnchoredStays
    BY <1>0, <2>1, <2>2, AnchorCall
  <2> QED BY <1>8, <2>3 DEF ForeignAnchor, TypeOK
<1>9. ASSUME NEW i \in Blocks, RemoveMarker(i)
      PROVE  TypeOK' /\ AnchoredStays
  BY <1>0, <1>9, FileTypes, ContractUnchanged DEF RemoveMarker, TypeOK
<1> QED BY <1>1, <1>2, <1>3, <1>4, <1>5, <1>6, <1>7, <1>8, <1>9 DEF Next

-----------------------------------------------------------------------------
(* What a step of one process leaves of the others. *)
Others(p) == \A q \in Procs : q # p => run'[q] = run[q]

(* A block that is anchored stays anchored. *)
LEMMA StaysAnchored ==
    ASSUME AnchoredStays, NEW i \in Blocks \cup {0}, Anchored(i)
    PROVE  Anchored(i)'
  BY BaseAssumption DEF AnchoredStays, Anchored, Contract!Matches, Blocks

(* Receipts: only WriteReceipt completes one, and its process is sure. *)
LEMMA NextReceiptTrue == IInv /\ [Next]_vars => ReceiptTrue'
<1> SUFFICES ASSUME IInv, [Next]_vars,
                    NEW i \in Blocks, receipt'[i].st = "full"
             PROVE  Anchored(i)'
  BY DEF ReceiptTrue, Anchored
<1>0. TypeOK /\ TypeOK' /\ AnchoredStays
  BY StepTypeOK DEF IInv
<1>1. CASE receipt'[i] = receipt[i]
  BY <1>0, <1>1, StaysAnchored DEF IInv, ReceiptTrue, Anchored
<1>2. CASE receipt'[i] # receipt[i]
  <2>1. PICK p \in Procs : OpenReceipt(p) \/ WriteReceipt(p)
    BY <1>2 DEF Next, vars, files, ProcStep, StartAnchor, Claim, Fill, SendFails, Send,
       Confirmed, TimesOut, UpdateMarker, Unlink, StartReconcile, ReadMarker, NotOnChain,
       OnChain, RpcFails, Crash, Mine, Drop, ForeignAnchor, RemoveMarker
  <2>2. i = run[p].blk
    BY <1>0, <1>2, <2>1 DEF OpenReceipt, WriteReceipt, TypeOK
  <2>3. WriteReceipt(p)
    BY <1>0, <1>2, <2>1, <2>2 DEF OpenReceipt, TornReceipt, TypeOK
  <2>4. Anchored(i)
    BY <2>2, <2>3 DEF WriteReceipt, IInv, Sure
  <2> QED BY <1>0, <2>4, StaysAnchored
<1> QED BY <1>1, <1>2

(* Transactions: only Mine makes one mined, in the step that anchors its block. *)
LEMMA NextMinedTrue == IInv /\ [Next]_vars => MinedTrue'
<1> SUFFICES ASSUME IInv, [Next]_vars,
                    NEW t \in TxIds, txs'[t].st = "mined"
             PROVE  anchors'[txs'[t].blk] = BlockHash[txs'[t].blk]
                    /\ BlockHash[txs'[t].blk] # NoHash
  BY DEF MinedTrue, Anchored, Contract!Matches
<1>0. TypeOK /\ TypeOK' /\ AnchoredStays
  BY StepTypeOK DEF IInv
<1>1. txs[t].blk \in 0 .. MaxIndex
  BY <1>0, BaseAssumption DEF TypeOK, TxType, Blocks
<1>2. CASE txs'[t] = txs[t]
  BY <1>0, <1>1, <1>2 DEF IInv, MinedTrue, Anchored, Contract!Matches, AnchoredStays
<1>3. CASE txs'[t] # txs[t]
  <2>1. \/ \E u \in TxIds : Mine(u) \/ Drop(u)
        \/ \E p \in Procs, u \in TxIds : Send(p, u)
    BY <1>3 DEF Next, vars, files, ProcStep, StartAnchor, Claim, Fill, SendFails,
       Confirmed, TimesOut, UpdateMarker, OpenReceipt, WriteReceipt, Unlink, StartReconcile,
       ReadMarker, NotOnChain, OnChain, RpcFails, Crash, ForeignAnchor, RemoveMarker
  <2>2. \A u \in TxIds : ~Drop(u)
    BY <1>0, <1>3 DEF Drop, TypeOK, TxType
  <2>3. \A p \in Procs, u \in TxIds : ~Send(p, u)
    BY <1>0, <1>3 DEF Send, TypeOK, TxType
  <2>4. PICK u \in TxIds : Mine(u)
    BY <2>1, <2>2, <2>3
  <2>5. u = t /\ txs'[t].blk = txs[t].blk
    BY <1>0, <1>3, <2>4 DEF Mine, TypeOK, TxType
  <2>6. BlockHash[txs[t].blk] \in Hashes /\ BlockHash[txs[t].blk] # NoHash
    BY <1>1, BaseAssumption
  <2>7. Contract!Anchor(Account, txs[t].blk, BlockHash[txs[t].blk])
    <3>1. CASE txs' = [txs EXCEPT ![t].st = "reverted"]
      BY <1>0, <3>1 DEF TypeOK, TxType
    <3> QED BY <2>4, <2>5, <3>1 DEF Mine
  <2>8. anchors'[txs[t].blk] = BlockHash[txs[t].blk]
    BY <1>0, <1>1, <2>6, <2>7, AnchorCall DEF TypeOK
  <2> QED BY <2>5, <2>6, <2>8
<1> QED BY <1>2, <1>3

(* What the invariant says of one process. *)
Knows(p) ==
    /\ run[p].pc \in {"update", "open", "write", "unlink"} =>
          run[p].blk \in Blocks /\ Anchored(run[p].blk)
    /\ run[p].pc = "wait" =>
          /\ run[p].tx \in TxIds
          /\ txs[run[p].tx].st # "unsent"
          /\ txs[run[p].tx].blk = run[p].blk
    /\ run[p].pc \in {"claim", "fill", "send", "wait", "match"} =>
          run[p].blk \in Blocks

(* Processes: what a process knew of its block and its transaction, no step *)
(* of another one, of the pool or of the contract makes untrue.             *)
LEMMA ProcessFacts ==
    ASSUME IInv, NEW p \in Procs, TypeOK', AnchoredStays,
           run'[p] = run[p],
           \A t \in TxIds : txs[t].st # "unsent" =>
                txs'[t].st # "unsent" /\ txs'[t].blk = txs[t].blk
    PROVE  Knows(p)'
<1>1. ASSUME run[p].pc \in {"update", "open", "write", "unlink"}
      PROVE  /\ run[p].blk \in Blocks
             /\ anchors'[run[p].blk] = BlockHash[run[p].blk]
             /\ BlockHash[run[p].blk] # NoHash
  BY <1>1, BaseAssumption DEF IInv, Sure, Anchored, Contract!Matches, AnchoredStays, Blocks
<1> QED BY <1>1 DEF IInv, Waiting, Knows, Anchored, Contract!Matches

(* A transaction that was sent stays sent, for the same block. *)
LEMMA TxsStay ==
    ASSUME TypeOK, [Next]_vars, NEW t \in TxIds, txs[t].st # "unsent"
    PROVE  txs'[t].st # "unsent" /\ txs'[t].blk = txs[t].blk
<1>1. CASE txs' = txs
  BY <1>1
<1>2. ASSUME NEW u \in TxIds, Mine(u) \/ Drop(u)
      PROVE  txs'[t].st # "unsent" /\ txs'[t].blk = txs[t].blk
  BY <1>2 DEF Mine, Drop, TypeOK, TxType
<1>3. ASSUME NEW p \in Procs, NEW u \in TxIds, Send(p, u)
      PROVE  txs'[t].st # "unsent" /\ txs'[t].blk = txs[t].blk
  BY <1>3 DEF Send, TypeOK
<1> QED BY <1>1, <1>2, <1>3 DEF Next, vars, files, ProcStep, StartAnchor, Claim, Fill, SendFails,
       Confirmed, TimesOut, UpdateMarker, OpenReceipt, WriteReceipt, Unlink, StartReconcile,
       ReadMarker, NotOnChain, OnChain, RpcFails, Crash, ForeignAnchor, RemoveMarker

(* A process that stops knows nothing any more, and needs to know nothing. *)
LEMMA StopKnows ==
    ASSUME TypeOK, NEW p \in Procs, Stop(p)
    PROVE  Knows(p)'
  BY DEF Stop, Idle, Knows, TypeOK

(* A step of the process itself. *)
LEMMA OwnStep ==
    ASSUME IInv, NEW p \in Procs, ProcStep(p)
    PROVE  Knows(p)'
<1>0. TypeOK /\ TypeOK' /\ AnchoredStays
  BY StepTypeOK DEF IInv, Next
<1>1. Sure /\ Waiting /\ MinedTrue
  BY DEF IInv
<1> USE <1>0
<1>2. CASE Claim(p)
  <2>1. CASE Stop(p)
    BY <2>1, StopKnows
  <2>2. CASE Goto(p, "fill")
    BY <1>1, <1>2, <2>2 DEF Claim, Goto, Knows, Waiting, TypeOK, RunType
  <2> QED BY <1>2, <2>1, <2>2 DEF Claim
<1>3. CASE Fill(p)
  BY <1>1, <1>3 DEF Fill, Goto, Knows, Waiting, TypeOK
<1>4. CASE SendFails(p) \/ TimesOut(p) \/ RpcFails(p)
  BY <1>4, StopKnows DEF SendFails, TimesOut, RpcFails
<1>5. ASSUME NEW t \in TxIds, Send(p, t) PROVE Knows(p)'
  <2>1. CASE Stop(p)
    BY <2>1, StopKnows
  <2>2. CASE run' = [run EXCEPT ![p].pc = "wait", ![p].tx = t]
    <3>1. /\ run'[p].pc = "wait" /\ run'[p].tx = t
          /\ run'[p].blk = run[p].blk /\ run[p].blk \in Blocks
      BY <1>1, <1>5, <2>2 DEF Send, Waiting, TypeOK, RunType
    <3>2. txs'[t].st = "pool" /\ txs'[t].blk = run[p].blk
      BY <1>5 DEF Send, TypeOK, TxType
    <3> QED BY <3>1, <3>2 DEF Knows
  <2> QED BY <1>5, <2>1, <2>2 DEF Send
<1>6. CASE Confirmed(p)
  <2>1. CASE Stop(p)
    BY <2>1, StopKnows
  <2>2. CASE txs[run[p].tx].st = "mined" /\ run' = [run EXCEPT ![p].pc = "update", ![p].cost = TRUE]
    <3>1. run'[p].pc = "update" /\ run'[p].blk = run[p].blk
      BY <2>2 DEF TypeOK, RunType
    <3>2. run[p].blk \in Blocks /\ Anchored(run[p].blk)
      BY <1>1, <1>6, <2>2 DEF Confirmed, Waiting, MinedTrue
    <3>3. UNCHANGED anchors
      BY <1>6 DEF Confirmed, contractVars
    <3> QED BY <3>1, <3>2, <3>3 DEF Knows, Anchored, Contract!Matches
  <2> QED BY <1>6, <2>1, <2>2 DEF Confirmed
<1>7. CASE UpdateMarker(p) \/ OpenReceipt(p) \/ WriteReceipt(p)
  <2>1. run[p].blk \in Blocks /\ Anchored(run[p].blk)
    BY <1>1, <1>7 DEF Sure, UpdateMarker, OpenReceipt, WriteReceipt
  <2>2. /\ run'[p].pc \in {"open", "write", "unlink"}
        /\ run'[p].blk = run[p].blk
        /\ UNCHANGED anchors
    BY <1>7 DEF UpdateMarker, OpenReceipt, WriteReceipt, Goto, TypeOK, RunType, contractVars
  <2> QED BY <2>1, <2>2 DEF Knows, Anchored, Contract!Matches
<1>8. CASE Unlink(p)
  BY <1>8, StopKnows DEF Unlink, Knows, TypeOK, RunType
<1>9. CASE ReadMarker(p)
  <2>1. CASE Stop(p)
    BY <2>1, StopKnows
  <2>2. ASSUME NEW i \in Blocks,
               run' = [run EXCEPT ![p].pc = "match", ![p].blk = i, ![p].tx = marker[i].tx]
        PROVE  Knows(p)'
    <3>1. run'[p].pc = "match" /\ run'[p].blk = i
      BY <2>2 DEF TypeOK, RunType
    <3> QED BY <3>1 DEF Knows
  <2> QED BY <1>9, <2>1, <2>2 DEF ReadMarker
<1>10. CASE NotOnChain(p)
  BY <1>10 DEF NotOnChain, Knows, TypeOK, RunType
<1>11. CASE OnChain(p)
  <2>1. run[p].blk \in Blocks
    BY <1>1, <1>11 DEF OnChain, Waiting
  <2>2. Anchored(run[p].blk)
    BY <1>11 DEF OnChain, SeenAt, Anchored
  <2>3. run'[p].pc = "open" /\ run'[p].blk = run[p].blk /\ UNCHANGED anchors
    BY <1>11 DEF OnChain, TypeOK, RunType, contractVars
  <2> QED BY <2>1, <2>2, <2>3 DEF Knows, Anchored, Contract!Matches
<1> QED BY <1>2, <1>3, <1>4, <1>5, <1>6, <1>7, <1>8, <1>9, <1>10, <1>11 DEF ProcStep

(* Every step, whoever takes it. *)
LEMMA NextKnows == IInv /\ [Next]_vars => Sure' /\ Waiting'
<1> SUFFICES ASSUME IInv, [Next]_vars, NEW q \in Procs PROVE Knows(q)'
  BY DEF Knows, Sure, Waiting
<1>0. TypeOK /\ TypeOK' /\ AnchoredStays
  BY StepTypeOK DEF IInv
<1>1. CASE run'[q] = run[q]
  BY <1>0, <1>1, ProcessFacts, TxsStay
<1>2. CASE ProcStep(q)
  BY <1>2, OwnStep
<1>3. CASE Crash(q)
  BY <1>0, <1>3, StopKnows DEF Crash
<1>4. CASE StartReconcile(q)
  BY <1>0, <1>4 DEF StartReconcile, Idle, Knows, TypeOK
<1>5. ASSUME NEW i \in Blocks, StartAnchor(q, i) PROVE Knows(q)'
  BY <1>0, <1>5 DEF StartAnchor, Idle, Knows, TypeOK
<1>6. ASSUME NEW p \in Procs, p # q,
             \/ ProcStep(p) \/ StartReconcile(p) \/ Crash(p)
             \/ \E i \in Blocks : StartAnchor(p, i)
      PROVE  run'[q] = run[q]
  BY <1>0, <1>6 DEF TypeOK, ProcStep, StartAnchor, Claim, Fill, SendFails, Send, Goto, Stop,
       Confirmed, TimesOut, UpdateMarker, OpenReceipt, WriteReceipt, Unlink, StartReconcile,
       ReadMarker, NotOnChain, OnChain, RpcFails, Crash
<1>7. \/ UNCHANGED run
      \/ \E p \in Procs : \/ ProcStep(p) \/ StartReconcile(p) \/ Crash(p)
                          \/ \E i \in Blocks : StartAnchor(p, i)
  BY DEF Next, vars, Mine, Drop, ForeignAnchor, RemoveMarker
<1> QED BY <1>1, <1>2, <1>3, <1>4, <1>5, <1>6, <1>7

(* The invariant is inductive. *)
LEMMA NextIInv == IInv /\ [Next]_vars => IInv'
  BY StepTypeOK, NextReceiptTrue, NextMinedTrue, NextKnows DEF IInv

(* Every variable keeps its type, for any number of processes and crashes. *)
THEOREM BaseAnchorTypeOK == Spec => []TypeOK
<1>1. IInv => TypeOK
  BY DEF IInv
<1> QED BY <1>1, InitIInv, NextIInv, PTL DEF Spec

(* A complete base.json is never false, whatever was killed, timed out or    *)
(* raced: the contract holds the hash of the block beside which it lies.     *)
THEOREM BaseAnchorReceiptTrue == Spec => []ReceiptTrue
<1>1. IInv => ReceiptTrue
  BY DEF IInv
<1> QED BY <1>1, InitIInv, NextIInv, PTL DEF Spec

-----------------------------------------------------------------------------
(***************************************************************************)
(* The marker's O_EXCL creation, for any number of commands at once over    *)
(* one proofs/ directory: as long as nodes do not lag and no other checkout *)
(* anchors these very blocks, a block has one transaction in flight or      *)
(* mined at most, and its marker can be read while it is in flight.         *)
(*                                                                         *)
(* Why: of all processes about to send for a block that nobody has anchored *)
(* yet, one holds the marker (Claims).  A marker is removed by a process    *)
(* that knows the block to be anchored, and then the gas estimate, which    *)
(* asks for the index after the last, stops whoever is left (Contiguous);   *)
(* and what is anchored is a mined transaction of this account, so that     *)
(* none for the block is in the pool (AnchoredByUs).                        *)
(***************************************************************************)

(* No other checkout anchors these very blocks: a block holds the time of its *)
(* sealing, and one that is sealed elsewhere has another hash.               *)
Own == \A i \in Blocks : BlockHash[i] \notin ForeignHashes
Fresh == Lagging = FALSE /\ Own

Sending(p) == run[p].pc \in {"fill", "send"}

(* A transaction that was sent was sent for a block. *)
SentForBlock == \A t \in TxIds : txs[t].st # "unsent" => txs[t].blk \in Blocks

AnchoredByUs ==
    \A i \in Blocks : Anchored(i) => \E t \in TxIds : txs[t].st = "mined" /\ txs[t].blk = i

(* p holds the marker of its block, nothing is in flight for it, and no other *)
(* process is about to send.                                                 *)
Holds(p) ==
    /\ run[p].pc = "fill" => marker[run[p].blk] = TornMarker(p)
    /\ run[p].pc = "send" => marker[run[p].blk].st = "full"
    /\ \A t \in TxIds : txs[t].blk = run[p].blk => txs[t].st # "pool"
    /\ \A q \in Procs : Sending(q) /\ run[q].blk = run[p].blk => q = p

Claims == \A p \in Procs : Sending(p) /\ run[p].blk > latestIndex => Holds(p)

SInv ==
    /\ IInv /\ Contract!Contiguous /\ SentForBlock
    /\ Own => AnchoredByUs
    /\ Fresh => OneLiveTx /\ InFlightMarked /\ Claims

-----------------------------------------------------------------------------
LEMMA InitSInv == Init => SInv
<1> SUFFICES ASSUME Init PROVE SInv
  OBVIOUS
<1>1. IInv
  BY InitIInv
<1>2. /\ \A i \in 0 .. MaxIndex : anchors[i] = IF i = 0 THEN GenesisHash ELSE NoHash
      /\ latestIndex = 0
  BY DEF Init, Contract!ContractInit, Contract!Index
<1>3. Contract!Contiguous
  BY <1>2, BaseAssumption DEF Contract!Contiguous, Contract!Index
<1>4. SentForBlock
  BY DEF Init, SentForBlock
<1>5. AnchoredByUs
  BY <1>2, BaseAssumption DEF AnchoredByUs, Anchored, Contract!Matches, Blocks
<1>6. OneLiveTx /\ InFlightMarked /\ Claims
  BY DEF Init, OneLiveTx, InFlightMarked, Claims, Sending, Idle
<1> QED BY <1>1, <1>3, <1>4, <1>5, <1>6 DEF SInv

-----------------------------------------------------------------------------
(* The contract *)

(* Who changes the contract. *)
LEMMA WhoAnchors ==
    ASSUME [Next]_vars
    PROVE  \/ UNCHANGED contractVars
           \/ \E t \in TxIds : /\ txs[t].st = "pool"
                               /\ Contract!Anchor(Account, txs[t].blk, BlockHash[txs[t].blk])
                               /\ txs' = [txs EXCEPT ![t].st = "mined"]
           \/ \E i \in Blocks, h \in ForeignHashes :
                 Contract!Anchor(Account, i, h) /\ txs' = txs
<1>1. CASE UNCHANGED vars
  BY <1>1 DEF vars, contractVars
<1>2. ASSUME NEW p \in Procs, ProcStep(p) PROVE UNCHANGED contractVars
  BY <1>2 DEF ProcStep, Claim, Fill, SendFails, Send, Confirmed, TimesOut, UpdateMarker,
              OpenReceipt, WriteReceipt, Unlink, ReadMarker, NotOnChain, OnChain, RpcFails
<1>3. ASSUME NEW p \in Procs,
             \/ StartReconcile(p) \/ Crash(p) \/ \E i \in Blocks : StartAnchor(p, i)
      PROVE  UNCHANGED contractVars
  BY <1>3 DEF StartReconcile, Crash, StartAnchor
<1>4. ASSUME NEW t \in TxIds, Drop(t) PROVE UNCHANGED contractVars
  BY <1>4 DEF Drop
<1>5. ASSUME NEW i \in Blocks, RemoveMarker(i) PROVE UNCHANGED contractVars
  BY <1>5 DEF RemoveMarker
<1> QED BY <1>1, <1>2, <1>3, <1>4, <1>5 DEF Next, Mine, ForeignAnchor

(* A call that goes through anchors the next index, and no other. *)
LEMMA AnchorNextIndex ==
    ASSUME Contract!ContractTypeOK, Contract!Contiguous,
           NEW i \in 0 .. MaxIndex, NEW h \in Hashes, Contract!Anchor(Account, i, h)
    PROVE  /\ i = latestIndex + 1 /\ latestIndex' = i
           /\ \A j \in 0 .. MaxIndex : anchors'[j] = IF j = i THEN h ELSE anchors[j]
           /\ Contract!Contiguous'
<1>1. /\ i = latestIndex + 1 /\ latestIndex' = i
      /\ anchors' = [anchors EXCEPT ![i] = h]
  BY DEF Contract!Anchor, Contract!Reverts
<1>2. \A j \in 0 .. MaxIndex : anchors'[j] = IF j = i THEN h ELSE anchors[j]
  BY <1>1 DEF Contract!ContractTypeOK, Contract!Index
<1>3. ASSUME NEW j \in 0 .. MaxIndex PROVE anchors'[j] # NoHash <=> j <= latestIndex'
  <2>1. latestIndex \in 0 .. MaxIndex /\ h # NoHash
    BY BaseAssumption DEF Contract!ContractTypeOK, Contract!Index
  <2>2. anchors[j] # NoHash <=> j <= latestIndex
    BY DEF Contract!Contiguous, Contract!Index
  <2> QED BY <1>1, <1>2, <2>1, <2>2
<1> QED BY <1>1, <1>2, <1>3 DEF Contract!Contiguous, Contract!Index

LEMMA NextContiguous ==
    ASSUME SInv, [Next]_vars
    PROVE  Contract!Contiguous' /\ latestIndex' >= latestIndex
<1>0. Contract!ContractTypeOK /\ Contract!Contiguous /\ TypeOK /\ latestIndex \in Nat
  BY DEF SInv, IInv, TypeOK, Contract!ContractTypeOK, Contract!Index
<1>1. CASE UNCHANGED contractVars
  BY <1>0, <1>1 DEF contractVars, Contract!Contiguous, Contract!Index
<1>2. ASSUME NEW i \in 0 .. MaxIndex, NEW h \in Hashes, Contract!Anchor(Account, i, h)
      PROVE  Contract!Contiguous' /\ latestIndex' >= latestIndex
  BY <1>0, <1>2, AnchorNextIndex
<1>3. \A t \in TxIds : txs[t].blk \in 0 .. MaxIndex /\ BlockHash[txs[t].blk] \in Hashes
  BY <1>0, BaseAssumption DEF TypeOK, TxType, Blocks
<1>4. \A i \in Blocks, h \in ForeignHashes : i \in 0 .. MaxIndex /\ h \in Hashes
  BY BaseAssumption DEF Blocks
<1> QED BY <1>1, <1>2, <1>3, <1>4, WhoAnchors

(* What is anchored is not beyond the last index. *)
LEMMA AnchoredBelow ==
    ASSUME SInv, NEW i \in Blocks, Anchored(i)
    PROVE  i <= latestIndex
  BY DEF SInv, Anchored, Contract!Matches, Contract!Contiguous, Contract!Index, Blocks

-----------------------------------------------------------------------------
(* Transactions *)

LEMMA WhoSends ==
    ASSUME TypeOK, [Next]_vars, NEW t \in TxIds, txs'[t] # txs[t]
    PROVE  \/ txs[t].st = "pool" /\ txs'[t].blk = txs[t].blk
                /\ txs'[t].st \in {"mined", "reverted", "dropped"} /\ UNCHANGED <<marker, run>>
           \/ \E p \in Procs : Send(p, t)
<1>1. ASSUME NEW u \in TxIds, Mine(u) \/ Drop(u)
      PROVE  /\ txs[t].st = "pool" /\ txs'[t].blk = txs[t].blk
             /\ txs'[t].st \in {"mined", "reverted", "dropped"} /\ UNCHANGED <<marker, run>>
  BY <1>1 DEF Mine, Drop, TypeOK, TxType, files
<1>2. ASSUME NEW p \in Procs, NEW u \in TxIds, Send(p, u) PROVE u = t
  BY <1>2 DEF Send, TypeOK
<1> QED BY <1>1, <1>2 DEF Next, vars, files, ProcStep, StartAnchor, Claim, Fill, SendFails,
       Confirmed, TimesOut, UpdateMarker, OpenReceipt, WriteReceipt, Unlink, StartReconcile,
       ReadMarker, NotOnChain, OnChain, RpcFails, Crash, ForeignAnchor, RemoveMarker

LEMMA NextSentForBlock == ASSUME SInv, [Next]_vars PROVE SentForBlock'
<1> SUFFICES ASSUME NEW t \in TxIds, txs'[t].st # "unsent" PROVE txs'[t].blk \in Blocks
  BY DEF SentForBlock
<1>0. TypeOK /\ Waiting /\ SentForBlock
  BY DEF SInv, IInv
<1>1. CASE txs'[t] = txs[t]
  BY <1>0, <1>1 DEF SentForBlock
<1>2. ASSUME NEW p \in Procs, Send(p, t) PROVE txs'[t].blk \in Blocks
  BY <1>0, <1>2 DEF Send, Waiting, TypeOK, TxType
<1> QED BY <1>0, <1>1, <1>2, WhoSends DEF SentForBlock

(* The block of a mined transaction is anchored, and not beyond the last index. *)
LEMMA MinedBelow ==
    ASSUME SInv, NEW t \in TxIds, txs[t].st = "mined"
    PROVE  txs[t].blk \in Blocks /\ Anchored(txs[t].blk) /\ txs[t].blk <= latestIndex
<1>1. txs[t].blk \in Blocks /\ Anchored(txs[t].blk)
  BY DEF SInv, IInv, MinedTrue, SentForBlock
<1> QED BY <1>1, AnchoredBelow

(* Who sends holds the marker, for the index after the last. *)
LEMMA SenderHolds ==
    ASSUME SInv, Fresh, NEW p \in Procs, NEW t \in TxIds, Send(p, t)
    PROVE  /\ run[p].blk \in Blocks /\ run[p].blk > latestIndex
           /\ Holds(p) /\ marker[run[p].blk].st = "full"
           /\ \A u \in TxIds : txs[u].blk = run[p].blk => txs[u].st \notin {"pool", "mined"}
<1>1. run[p].blk \in Blocks /\ run[p].pc = "send"
  BY DEF Send, SInv, IInv, Waiting
<1>2. run[p].blk = latestIndex + 1
  BY DEF Send, EstimatePasses, Views, Fresh
<1>3. latestIndex \in Nat
  BY DEF SInv, IInv, TypeOK, Contract!ContractTypeOK, Contract!Index
<1>4. run[p].blk > latestIndex
  BY <1>2, <1>3
<1>5. Holds(p)
  BY <1>1, <1>4 DEF SInv, Claims, Sending
<1>6. ASSUME NEW u \in TxIds, txs[u].blk = run[p].blk, txs[u].st = "mined" PROVE FALSE
  <2>1. run[p].blk <= latestIndex
    BY <1>6, MinedBelow
  <2> QED BY <2>1, <1>2, <1>3
<1> QED BY <1>1, <1>4, <1>5, <1>6 DEF Holds

-----------------------------------------------------------------------------
LEMMA NextAnchoredByUs == ASSUME SInv, Own, [Next]_vars PROVE AnchoredByUs'
<1> SUFFICES ASSUME NEW i \in Blocks, Anchored(i)'
             PROVE  \E t \in TxIds : txs'[t].st = "mined" /\ txs'[t].blk = i
  BY DEF AnchoredByUs
<1>0. /\ TypeOK /\ Contract!ContractTypeOK /\ Contract!Contiguous /\ AnchoredByUs
      /\ i \in 0 .. MaxIndex
  BY DEF SInv, IInv, TypeOK, Blocks
<1>1. CASE Anchored(i)
  <2>1. PICK t \in TxIds : txs[t].st = "mined" /\ txs[t].blk = i
    BY <1>0, <1>1 DEF AnchoredByUs
  <2>2. \A p \in Procs : ~Send(p, t)
    BY <2>1 DEF Send
  <2>3. txs'[t] = txs[t]
    BY <1>0, <2>1, <2>2, WhoSends
  <2> QED BY <2>1, <2>3
<1>2. CASE ~Anchored(i)
  <2>1. ~UNCHANGED contractVars
    BY <1>2 DEF contractVars, Anchored, Contract!Matches
  <2>2. ASSUME NEW t \in TxIds, txs[t].st = "pool",
               Contract!Anchor(Account, txs[t].blk, BlockHash[txs[t].blk]),
               txs' = [txs EXCEPT ![t].st = "mined"]
        PROVE  txs'[t].st = "mined" /\ txs'[t].blk = i
    <3>1. txs[t].blk \in 0 .. MaxIndex /\ BlockHash[txs[t].blk] \in Hashes
      BY <1>0, BaseAssumption DEF TypeOK, TxType, Blocks
    <3>2. txs[t].blk = i
      BY <1>0, <1>2, <2>2, <3>1, AnchorNextIndex DEF Anchored, Contract!Matches
    <3> QED BY <1>0, <2>2, <3>2 DEF TypeOK, TxType
  <2>3. ASSUME NEW j \in Blocks, NEW h \in ForeignHashes, Contract!Anchor(Account, j, h)
        PROVE  FALSE
    <3>1. j \in 0 .. MaxIndex /\ h \in Hashes
      BY BaseAssumption DEF Blocks
    <3>2. anchors'[i] = IF i = j THEN h ELSE anchors[i]
      BY <1>0, <2>3, <3>1, AnchorNextIndex
    <3> QED BY <1>2, <3>2 DEF Anchored, Contract!Matches, Own
  <2> QED BY <2>1, <2>2, <2>3, WhoAnchors
<1> QED BY <1>1, <1>2

LEMMA NextOneLiveTx == ASSUME SInv, Fresh, [Next]_vars PROVE OneLiveTx'
<1> SUFFICES ASSUME NEW t \in TxIds, NEW u \in TxIds, t # u,
                    txs'[t].blk = txs'[u].blk,
                    txs'[t].st \in {"pool", "mined"},
                    txs'[u].st \in {"pool", "mined"}
             PROVE  FALSE
  BY DEF OneLiveTx
<1>0. TypeOK /\ OneLiveTx
  BY DEF SInv, IInv
<1> DEFINE Was(x) == txs[x].st \in {"pool", "mined"} /\ txs[x].blk = txs'[x].blk
<1>1. \A x \in {t, u} : Was(x) \/ \E p \in Procs : Send(p, x)
  BY <1>0, WhoSends
<1>2. ASSUME NEW x \in TxIds, NEW y \in TxIds, x # y, txs'[x].blk = txs'[y].blk,
             txs'[y].st \in {"pool", "mined"},
             NEW p \in Procs, Send(p, x)
      PROVE  FALSE
  <2>1. txs'[y] = txs[y] /\ txs'[x].blk = run[p].blk
    BY <1>0, <1>2 DEF Send, TypeOK
  <2> QED BY <1>2, <2>1, SenderHolds
<1>3. Was(t) /\ Was(u)
  BY <1>1, <1>2
<1> QED BY <1>0, <1>3 DEF OneLiveTx

(* A marker that can be read stays so, until someone who knows its block to *)
(* be anchored, or that nothing is in flight for it, removes it.            *)
LEMMA WhoUnmarks ==
    ASSUME TypeOK, [Next]_vars, NEW i \in Blocks, marker[i].st = "full", marker'[i].st # "full"
    PROVE  \/ \E p \in Procs : Unlink(p) /\ run[p].blk = i
           \/ RemoveMarker(i)
<1>1. ASSUME NEW p \in Procs, Claim(p) \/ Fill(p) \/ UpdateMarker(p) PROVE FALSE
  BY <1>1 DEF Claim, Fill, UpdateMarker, TypeOK, TornMarker, FullMarker
<1>2. ASSUME NEW p \in Procs, Unlink(p) PROVE run[p].blk = i
  BY <1>2 DEF Unlink, TypeOK
<1>3. ASSUME NEW j \in Blocks, RemoveMarker(j) PROVE j = i
  BY <1>3 DEF RemoveMarker, TypeOK
<1> QED BY <1>1, <1>2, <1>3 DEF Next, vars, files, ProcStep, StartAnchor, SendFails, Send,
       Confirmed, TimesOut, OpenReceipt, WriteReceipt, StartReconcile, ReadMarker, NotOnChain,
       OnChain, RpcFails, Crash, Mine, Drop, ForeignAnchor

LEMMA NextInFlightMarked == ASSUME SInv, Fresh, [Next]_vars PROVE InFlightMarked'
<1> SUFFICES ASSUME NEW t \in TxIds, txs'[t].st = "pool" PROVE marker'[txs'[t].blk].st = "full"
  BY DEF InFlightMarked
<1>0. TypeOK /\ OneLiveTx /\ InFlightMarked /\ AnchoredByUs /\ Sure /\ SentForBlock
  BY DEF SInv, IInv, Fresh
<1>1. ASSUME NEW p \in Procs, Send(p, t) PROVE marker'[txs'[t].blk].st = "full"
  <2>1. txs'[t].blk = run[p].blk /\ marker' = marker
    BY <1>0, <1>1 DEF Send, TypeOK, TxType, files
  <2> QED BY <1>1, <2>1, SenderHolds
<1>2. CASE txs'[t] = txs[t]
  <2>1. txs[t].blk \in Blocks /\ marker[txs[t].blk].st = "full"
    BY <1>0, <1>2 DEF InFlightMarked, SentForBlock
  <2>2. ASSUME NEW p \in Procs, Unlink(p), run[p].blk = txs[t].blk PROVE FALSE
    <3>1. Anchored(txs[t].blk)
      BY <1>0, <2>2 DEF Sure, Unlink
    <3>2. PICK u \in TxIds : txs[u].st = "mined" /\ txs[u].blk = txs[t].blk
      BY <1>0, <2>1, <3>1 DEF AnchoredByUs
    <3> QED BY <1>0, <1>2, <3>2 DEF OneLiveTx
  <2>3. ~RemoveMarker(txs[t].blk)
    BY <1>2 DEF RemoveMarker
  <2> QED BY <1>0, <1>2, <2>1, <2>2, <2>3, WhoUnmarks
<1> QED BY <1>0, <1>1, <1>2, WhoSends

-----------------------------------------------------------------------------
(* Who is about to send after a step, was so before it or has just claimed. *)
LEMMA WhoIsSending ==
    ASSUME TypeOK, [Next]_vars, NEW p \in Procs, Sending(p)'
    PROVE  \/ run'[p] = run[p]
           \/ Claim(p) /\ run'[p] = [run[p] EXCEPT !.pc = "fill"] /\ marker[run[p].blk].st = "absent"
           \/ Fill(p) /\ run'[p] = [run[p] EXCEPT !.pc = "send"]
<1>1. ASSUME NEW q \in Procs, q # p,
             \/ ProcStep(q) \/ StartReconcile(q) \/ Crash(q)
             \/ \E i \in Blocks : StartAnchor(q, i)
      PROVE  run'[p] = run[p]
  BY <1>1 DEF TypeOK, ProcStep, StartAnchor, Claim, Fill, SendFails, Send, Goto, Stop,
       Confirmed, TimesOut, UpdateMarker, OpenReceipt, WriteReceipt, Unlink, StartReconcile,
       ReadMarker, NotOnChain, OnChain, RpcFails, Crash
<1>2. CASE \/ StartReconcile(p) \/ Crash(p) \/ \E i \in Blocks : StartAnchor(p, i)
  <2>1. run'[p].pc \in {"idle", "scan", "claim"}
    <3>1. CASE Crash(p)
      BY <3>1 DEF TypeOK, Crash, Stop, Idle
    <3>2. CASE StartReconcile(p)
      BY <3>2 DEF TypeOK, StartReconcile, Idle
    <3>3. ASSUME NEW j \in Blocks, StartAnchor(p, j) PROVE run'[p].pc = "claim"
      BY <3>3 DEF TypeOK, StartAnchor, Idle
    <3> QED BY <1>2, <3>1, <3>2, <3>3
  <2> QED BY <2>1 DEF Sending
<1>3. CASE Claim(p)
  BY <1>3 DEF TypeOK, Sending, Claim, Goto, Stop, Idle
<1>4. CASE Fill(p)
  BY <1>4 DEF TypeOK, Fill, Goto
<1>5. CASE \/ SendFails(p) \/ Confirmed(p) \/ TimesOut(p) \/ UpdateMarker(p) \/ OpenReceipt(p)
           \/ WriteReceipt(p) \/ Unlink(p) \/ RpcFails(p) \/ NotOnChain(p) \/ OnChain(p)
  BY <1>5 DEF TypeOK, RunType, Sending, SendFails, Confirmed, TimesOut, UpdateMarker, OpenReceipt,
              WriteReceipt, Unlink, RpcFails, NotOnChain, OnChain, Goto, Stop, Idle
<1>6. CASE ReadMarker(p)
  <2>1. run'[p].pc \in {"idle", "match"}
    <3>1. CASE Stop(p)
      BY <3>1 DEF TypeOK, Stop, Idle
    <3>2. ASSUME NEW j \in Blocks, NEW t,
                 run' = [run EXCEPT ![p].pc = "match", ![p].blk = j, ![p].tx = t]
          PROVE  run'[p].pc = "match"
      BY <3>2 DEF TypeOK, RunType
    <3> QED BY <1>6, <3>1, <3>2 DEF ReadMarker
  <2> QED BY <2>1 DEF Sending
<1>7. ASSUME NEW t \in TxIds, Send(p, t) PROVE FALSE
  <2>1. run'[p].pc \in {"idle", "wait"}
    BY <1>7 DEF TypeOK, RunType, Send, Stop, Idle
  <2> QED BY <2>1 DEF Sending
<1>8. \/ UNCHANGED run
      \/ \E q \in Procs : \/ ProcStep(q) \/ StartReconcile(q) \/ Crash(q)
                          \/ \E i \in Blocks : StartAnchor(q, i)
  BY DEF Next, vars, Mine, Drop, ForeignAnchor, RemoveMarker
<1> QED BY <1>1, <1>2, <1>3, <1>4, <1>5, <1>6, <1>7, <1>8 DEF ProcStep

(* The marker of a block that nobody has anchored is touched by the process  *)
(* that holds it alone.                                                     *)
LEMMA MarkerKept ==
    ASSUME SInv, Fresh, [Next]_vars, NEW p \in Procs, Sending(p), run[p].blk > latestIndex,
           run'[p] = run[p]
    PROVE  marker'[run[p].blk] = marker[run[p].blk]
<1> DEFINE i == run[p].blk
<1>0. /\ TypeOK /\ Sure /\ Waiting /\ Holds(p) /\ latestIndex \in Nat
      /\ i \in Blocks /\ marker[i].st # "absent"
      /\ marker[i].st = "torn" => marker[i] = TornMarker(p)
  BY DEF SInv, IInv, Claims, Sending, Waiting, Holds, TornMarker, TypeOK,
         Contract!ContractTypeOK, Contract!Index
<1>1. ASSUME NEW q \in Procs, Claim(q) PROVE marker'[i] = marker[i]
  BY <1>0, <1>1 DEF Claim, TypeOK
<1>2. ASSUME NEW q \in Procs, Fill(q) PROVE marker'[i] = marker[i]
  <2>1. q # p
    BY <1>0, <1>2 DEF Fill, Goto, TypeOK, RunType
  <2>2. marker[i] # TornMarker(q)
    BY <1>0, <2>1 DEF TornMarker
  <2> QED BY <1>0, <1>2, <2>2 DEF Fill, TypeOK
<1>3. ASSUME NEW q \in Procs, UpdateMarker(q) \/ Unlink(q) PROVE marker'[i] = marker[i]
  <2>1. run[q].blk \in Blocks /\ Anchored(run[q].blk)
    BY <1>0, <1>3 DEF Sure, UpdateMarker, Unlink
  <2>2. run[q].blk <= latestIndex
    BY <2>1, AnchoredBelow
  <2>3. run[q].blk # i
    BY <1>0, <2>1, <2>2 DEF Blocks
  <2> QED BY <1>0, <1>3, <2>3 DEF UpdateMarker, Unlink, TypeOK
<1>4. ASSUME NEW j \in Blocks, RemoveMarker(j) PROVE FALSE
  BY <1>4 DEF RemoveMarker, Sending
<1> QED BY <1>1, <1>2, <1>3, <1>4 DEF Next, vars, files, ProcStep, StartAnchor, SendFails, Send,
       Confirmed, TimesOut, OpenReceipt, WriteReceipt, StartReconcile, ReadMarker, NotOnChain,
       OnChain, RpcFails, Crash, Mine, Drop, ForeignAnchor

LEMMA NextClaims == ASSUME SInv, Fresh, [Next]_vars PROVE Claims'
<1> SUFFICES ASSUME NEW p \in Procs, Sending(p)', run'[p].blk > latestIndex' PROVE Holds(p)'
  BY DEF Claims
<1> DEFINE i == run[p].blk
<1>0. TypeOK /\ TypeOK' /\ Claims /\ InFlightMarked /\ Waiting
  BY StepTypeOK DEF SInv, IInv
<1>1. run'[p].blk = i
  BY <1>0, WhoIsSending DEF TypeOK, RunType
<1>2. i > latestIndex
  <2>1. latestIndex \in Nat /\ latestIndex' \in Nat /\ i \in Nat
    BY <1>0 DEF TypeOK, Contract!ContractTypeOK, Contract!Index, RunType, Blocks
  <2> QED BY <1>1, <2>1, NextContiguous
<1>3. ASSUME NEW q \in Procs, Sending(q), run[q].blk = i PROVE Holds(q)
  BY <1>0, <1>2, <1>3 DEF Claims
<1>4. CASE run'[p] = run[p]
  <2>1. Sending(p) /\ Holds(p)
    BY <1>3, <1>4 DEF Sending
  <2>2. marker'[i] = marker[i]
    BY <1>2, <1>4, <2>1, MarkerKept
  <2>3. ASSUME NEW t \in TxIds, txs'[t].blk = i, txs'[t].st = "pool" PROVE FALSE
    <3>1. PICK q \in Procs : Send(q, t)
      BY <1>0, <2>1, <2>3, WhoSends DEF Holds
    <3>2. run[q].blk = i /\ run[q].pc = "send" /\ run'[q].pc # "send"
      BY <1>0, <2>3, <3>1 DEF Send, Stop, Idle, TypeOK, TxType, RunType
    <3> QED BY <1>4, <2>1, <3>2 DEF Holds, Sending
  <2>4. ASSUME NEW q \in Procs, Sending(q)', run'[q].blk = i PROVE q = p
    <3>1. CASE run'[q] = run[q]
      BY <2>1, <2>4, <3>1 DEF Holds, Sending
    <3>2. CASE marker[run[q].blk].st = "absent" /\ run'[q] = [run[q] EXCEPT !.pc = "fill"]
      BY <1>0, <2>1, <2>4, <3>2 DEF Holds, Sending, TornMarker, TypeOK, RunType
    <3>3. CASE Fill(q)
      BY <1>0, <2>1, <2>4, <3>3 DEF Holds, Sending, Fill, Goto, TypeOK, RunType
    <3> QED BY <1>0, <2>4, <3>1, <3>2, <3>3, WhoIsSending
  <2> QED BY <1>1, <1>4, <2>1, <2>2, <2>3, <2>4 DEF Holds, TornMarker
<1>5. CASE Claim(p) /\ run'[p] = [run[p] EXCEPT !.pc = "fill"] /\ marker[i].st = "absent"
  <2>1. run'[p].pc = "fill" /\ marker'[i] = TornMarker(p) /\ txs' = txs /\ i \in Blocks
    BY <1>0, <1>5 DEF Claim, Waiting, TypeOK, RunType, Goto, Stop
  <2>2. \A t \in TxIds : txs[t].blk = i => txs[t].st # "pool"
    BY <1>0, <1>5 DEF InFlightMarked
  <2>3. ASSUME NEW q \in Procs, Sending(q)', run'[q].blk = i, q # p PROVE FALSE
    <3>1. run'[q] = run[q]
      BY <1>0, <1>5, <2>3 DEF Claim, Goto, Stop, TypeOK
    <3>2. Holds(q) /\ Sending(q) /\ run[q].blk = i
      BY <1>3, <2>3, <3>1 DEF Sending
    <3> QED BY <1>5, <3>2 DEF Holds, Sending, TornMarker
  <2> QED BY <1>1, <2>1, <2>2, <2>3 DEF Holds, TornMarker
<1>6. CASE Fill(p) /\ run'[p] = [run[p] EXCEPT !.pc = "send"]
  <2>1. run[p].pc = "fill" /\ run'[p].pc = "send" /\ txs' = txs /\ i \in Blocks /\ Holds(p)
    BY <1>0, <1>3, <1>6 DEF Fill, Waiting, Sending, TypeOK, RunType
  <2>2. marker'[i].st = "full"
    BY <1>0, <1>6, <2>1 DEF Fill, Holds, TypeOK, FullMarker
  <2>3. ASSUME NEW q \in Procs, Sending(q)', run'[q].blk = i, q # p PROVE FALSE
    <3>1. run'[q] = run[q]
      BY <1>0, <1>6, <2>3 DEF Fill, Goto, TypeOK
    <3> QED BY <2>1, <2>3, <3>1 DEF Holds, Sending
  <2> QED BY <1>1, <2>1, <2>2, <2>3 DEF Holds, TornMarker
<1> QED BY <1>0, <1>4, <1>5, <1>6, WhoIsSending

-----------------------------------------------------------------------------
LEMMA NextSInv == SInv /\ [Next]_vars => SInv'
<1> SUFFICES ASSUME SInv, [Next]_vars PROVE SInv'
  OBVIOUS
<1>1. IInv'
  BY NextIInv DEF SInv
<1>2. Contract!Contiguous' /\ SentForBlock'
  BY NextContiguous, NextSentForBlock
<1>3. Own => AnchoredByUs'
  BY NextAnchoredByUs
<1>4. Fresh => OneLiveTx' /\ InFlightMarked' /\ Claims'
  BY NextOneLiveTx, NextInFlightMarked, NextClaims
<1> QED BY <1>1, <1>2, <1>3, <1>4 DEF SInv, Fresh, Own

(* "this marker is what stops the next run from sending a second one"         *)
(* (chain.py:327): however many commands run at once over a proofs directory,  *)
(* are killed or time out, if nodes do not lag and these blocks are anchored   *)
(* from here alone, no block ever has two transactions in flight or mined, and *)
(* one that is in flight has a marker that can be read.                       *)
THEOREM BaseAnchorOneSender == Spec => [](Fresh => OneLiveTx /\ InFlightMarked)
<1>1. SInv => (Fresh => OneLiveTx /\ InFlightMarked)
  BY DEF SInv
<1> QED BY <1>1, InitSInv, NextSInv, PTL DEF Spec

-----------------------------------------------------------------------------
(***************************************************************************)
(* One command at a time over a proofs/ directory, which is what the        *)
(* workflows' concurrency group sees to, with nodes that lag, other         *)
(* checkouts and kills: what is in flight is under a marker that can be     *)
(* read, what was mined is on record, and a marker left beside a receipt    *)
(* agrees with it.                                                         *)
(*                                                                         *)
(* Why: what the command read of its block's two files still holds (Alone). *)
(* It claims for a block with neither marker nor receipt, so for one that   *)
(* nothing was sent for; it opens the receipt only under a marker, which it *)
(* removes only beside a complete receipt.                                 *)
(***************************************************************************)
Serial == \A p, q \in Procs : p = q

Alone(p) ==
    /\ run[p].pc \in {"claim", "fill", "send", "wait", "update"} => receipt[run[p].blk].st = "absent"
    /\ run[p].pc = "fill" => marker[run[p].blk] = TornMarker(p)
    /\ run[p].pc \in {"fill", "send"} =>
          \A t \in TxIds : txs[t].blk = run[p].blk => txs[t].st \notin {"pool", "mined"}
    /\ run[p].pc \in {"send", "wait", "update"} => marker[run[p].blk].st = "full"
    /\ run[p].pc \in {"match", "open", "write", "unlink"} =>
          marker[run[p].blk].st = "full" /\ marker[run[p].blk].tx = run[p].tx
    /\ run[p].pc = "write" => receipt[run[p].blk].st = "torn"
    /\ run[p].pc = "unlink" => receipt[run[p].blk].st = "full"

(* MarkerAgrees without its exception: no receipt lies there during the update. *)
SameTx ==
    \A i \in Blocks : receipt[i].st = "full" /\ marker[i].st = "full" => marker[i].tx = receipt[i].tx

Recorded ==
    /\ OneLiveTx /\ InFlightMarked /\ MinedIsRecorded /\ SameTx
    /\ \A p \in Procs : Alone(p)

RInv == SInv /\ (Serial /\ Own => Recorded)

LEMMA InitRInv == Init => RInv
<1> SUFFICES ASSUME Init PROVE Recorded
  BY InitSInv DEF RInv
<1>1. OneLiveTx /\ InFlightMarked /\ MinedIsRecorded /\ SameTx
  BY DEF Init, OneLiveTx, InFlightMarked, MinedIsRecorded, SameTx, NoMarker
<1>2. \A p \in Procs : Alone(p)
  BY DEF Init, Alone, Idle
<1> QED BY <1>1, <1>2 DEF Recorded

(* The command that runs stops: it needs nothing of its files any more. *)
LEMMA ScanAlone == ASSUME NEW p \in Procs, run'[p].pc \in {"idle", "scan"} PROVE Alone(p)'
  BY DEF Alone
LEMMA StopAlone == ASSUME TypeOK, NEW p \in Procs, Stop(p) PROVE Alone(p)'
  BY ScanAlone DEF Stop, Idle, TypeOK

(* A step that leaves the transactions and the files alone. *)
LEMMA FilesStay ==
    ASSUME Recorded, UNCHANGED <<txs, marker, receipt>>
    PROVE  OneLiveTx' /\ InFlightMarked' /\ MinedIsRecorded' /\ SameTx'
  BY DEF Recorded, OneLiveTx, InFlightMarked, MinedIsRecorded, SameTx

LEMMA RunOnlyStep ==
    ASSUME SInv, Own, Recorded, NEW p \in Procs,
           \/ SendFails(p) \/ Confirmed(p) \/ TimesOut(p) \/ ReadMarker(p) \/ NotOnChain(p)
           \/ OnChain(p) \/ RpcFails(p) \/ Crash(p) \/ StartReconcile(p)
           \/ \E i \in Blocks : StartAnchor(p, i)
    PROVE  Alone(p)' /\ UNCHANGED <<txs, marker, receipt>>
<1>0. TypeOK /\ Waiting /\ Alone(p)
  BY DEF SInv, IInv, Recorded
<1> USE <1>0
<1>1. UNCHANGED <<txs, marker, receipt>>
  BY DEF SendFails, Confirmed, TimesOut, ReadMarker, NotOnChain, OnChain, RpcFails, Crash,
         StartReconcile, StartAnchor, files
<1>2. CASE Stop(p)
  BY <1>1, <1>2, StopAlone
<1>3. CASE Confirmed(p) /\ run' = [run EXCEPT ![p].pc = "update", ![p].cost = TRUE]
  <2>1. run'[p].pc = "update" /\ run'[p].blk = run[p].blk /\ run[p].pc = "wait"
    BY <1>3 DEF Confirmed, TypeOK, RunType
  <2> QED BY <1>1, <2>1 DEF Alone
<1>4. ASSUME NEW i \in Blocks, marker[i].st = "full",
             run' = [run EXCEPT ![p].pc = "match", ![p].blk = i, ![p].tx = marker[i].tx]
      PROVE  Alone(p)'
  <2>1. run'[p].pc = "match" /\ run'[p].blk = i /\ run'[p].tx = marker[i].tx
    BY <1>4 DEF TypeOK, RunType
  <2> QED BY <1>1, <1>4, <2>1 DEF Alone
<1>5. CASE NotOnChain(p)
  <2>1. run'[p].pc = "scan"
    BY <1>5 DEF NotOnChain, TypeOK, RunType
  <2> QED BY <1>1, <2>1, ScanAlone
<1>6. CASE OnChain(p)
  <2>1. run'[p].pc = "open" /\ run'[p].blk = run[p].blk /\ run'[p].tx = run[p].tx /\ run[p].pc = "match"
    <3>1. PICK c \in BOOLEAN : run' = [run EXCEPT ![p].pc = "open", ![p].cost = c]
      BY <1>6 DEF OnChain
    <3>2. run[p].pc = "match"
      BY <1>6 DEF OnChain
    <3> QED BY <3>1, <3>2 DEF TypeOK, RunType
  <2> QED BY <1>1, <2>1 DEF Alone
<1>7. CASE StartReconcile(p)
  <2>1. run'[p].pc = "scan"
    BY <1>7 DEF StartReconcile, TypeOK, Idle
  <2> QED BY <1>1, <2>1, ScanAlone
<1>8. ASSUME NEW i \in Blocks, StartAnchor(p, i) PROVE Alone(p)'
  <2>1. run'[p].pc = "claim" /\ run'[p].blk = i /\ receipt[i].st = "absent"
    BY <1>8 DEF StartAnchor, TypeOK, Idle
  <2> QED BY <1>1, <2>1 DEF Alone
<1> QED BY <1>1, <1>2, <1>3, <1>4, <1>5, <1>6, <1>7, <1>8
        DEF SendFails, Confirmed, TimesOut, ReadMarker, RpcFails, Crash

-----------------------------------------------------------------------------
(* Claim and fill the marker, and send under it. *)
LEMMA ClaimAlone ==
    ASSUME SInv, Own, Recorded, NEW p \in Procs, Claim(p)
    PROVE  OneLiveTx' /\ InFlightMarked' /\ MinedIsRecorded' /\ SameTx' /\ Alone(p)'
<1>0. TypeOK /\ Waiting /\ Alone(p) /\ SentForBlock /\ run[p].blk \in Blocks
  BY DEF SInv, IInv, Recorded, Waiting, Claim
<1> USE <1>0
<1>1. CASE UNCHANGED marker /\ Stop(p)
  BY <1>1, StopAlone, FilesStay DEF Claim
<1>2. CASE /\ marker[run[p].blk].st = "absent"
           /\ marker' = [marker EXCEPT ![run[p].blk] = TornMarker(p)]
           /\ Goto(p, "fill")
  <2> DEFINE i == run[p].blk
  <2> HIDE DEF i
  <2>1. run'[p].pc = "fill" /\ run'[p].blk = i /\ txs' = txs /\ receipt' = receipt /\ receipt[i].st = "absent"
    BY <1>2 DEF Claim, Goto, Alone, TypeOK, RunType, i
  <2>2. marker'[i] = TornMarker(p) /\ \A j \in Blocks : j # i => marker'[j] = marker[j]
    BY <1>2 DEF TypeOK, i
  <2>3. marker[i].st = "absent" /\ i \in Blocks /\ TornMarker(p).st = "torn"
    BY <1>2 DEF i, TornMarker
  <2>4. \A t \in TxIds : txs[t].blk = i => txs[t].st \notin {"pool", "mined"}
    BY <2>1, <2>3 DEF Recorded, InFlightMarked, MinedIsRecorded
  <2>5. \A t \in TxIds : txs[t].st \in {"pool", "mined"} => marker'[txs[t].blk] = marker[txs[t].blk]
    BY <2>2, <2>4 DEF SentForBlock
  <2>6. OneLiveTx' /\ InFlightMarked' /\ MinedIsRecorded'
    BY <2>1, <2>5 DEF Recorded, OneLiveTx, InFlightMarked, MinedIsRecorded
  <2>7. SameTx'
    BY <2>1, <2>2, <2>3 DEF Recorded, SameTx
  <2>8. Alone(p)'
    BY <2>1, <2>2, <2>4 DEF Alone, TornMarker
  <2> QED BY <2>6, <2>7, <2>8
<1> QED BY <1>1, <1>2 DEF Claim

LEMMA FillAlone ==
    ASSUME SInv, Own, Recorded, NEW p \in Procs, Fill(p)
    PROVE  OneLiveTx' /\ InFlightMarked' /\ MinedIsRecorded' /\ SameTx' /\ Alone(p)'
<1> DEFINE i == run[p].blk
<1> HIDE DEF i
<1>0. TypeOK /\ Alone(p) /\ SentForBlock /\ i \in Blocks
  BY DEF SInv, IInv, Recorded, Waiting, Fill, i
<1>1. /\ run'[p].pc = "send" /\ run'[p].blk = i /\ txs' = txs /\ receipt' = receipt
      /\ run[p].pc = "fill" /\ receipt[i].st = "absent"
  BY <1>0 DEF Fill, Goto, Alone, TypeOK, RunType, i
<1>2. marker'[i] = FullMarker(NoTx) /\ \A j \in Blocks : j # i => marker'[j] = marker[j]
  BY <1>0 DEF Fill, Alone, TypeOK, i
<1>3. \A t \in TxIds : txs[t].blk = i => txs[t].st \notin {"pool", "mined"}
  BY <1>0, <1>1 DEF Alone, i
<1>4. \A t \in TxIds : txs[t].st \in {"pool", "mined"} => marker'[txs[t].blk] = marker[txs[t].blk]
  BY <1>0, <1>2, <1>3 DEF SentForBlock
<1>5. OneLiveTx' /\ InFlightMarked' /\ MinedIsRecorded'
  BY <1>1, <1>4 DEF Recorded, OneLiveTx, InFlightMarked, MinedIsRecorded
<1>6. SameTx'
  BY <1>1, <1>2 DEF Recorded, SameTx
<1>7. Alone(p)'
  BY <1>1, <1>2, <1>3 DEF Alone, FullMarker
<1> QED BY <1>5, <1>6, <1>7

LEMMA SendAlone ==
    ASSUME SInv, Own, Recorded, NEW p \in Procs, NEW t \in TxIds, Send(p, t)
    PROVE  OneLiveTx' /\ InFlightMarked' /\ MinedIsRecorded' /\ SameTx' /\ Alone(p)'
<1> DEFINE i == run[p].blk
<1> HIDE DEF i
<1>0. TypeOK /\ Alone(p) /\ i \in Blocks /\ run[p].pc = "send"
  BY DEF SInv, IInv, Recorded, Waiting, Send, i
<1>1. /\ txs'[t].st = "pool" /\ txs'[t].blk = i
      /\ \A u \in TxIds : u # t => txs'[u] = txs[u]
      /\ marker' = marker /\ receipt' = receipt
  BY <1>0 DEF Send, TypeOK, files, i
<1>2. /\ \A u \in TxIds : txs[u].blk = i => txs[u].st \notin {"pool", "mined"}
      /\ marker[i].st = "full" /\ receipt[i].st = "absent"
  BY <1>0 DEF Alone, i
<1>3. OneLiveTx'
  BY <1>1, <1>2 DEF Recorded, OneLiveTx
<1>4. InFlightMarked' /\ MinedIsRecorded' /\ SameTx'
  BY <1>1, <1>2 DEF Recorded, InFlightMarked, MinedIsRecorded, SameTx
<1>5. Alone(p)'
  <2>1. CASE Stop(p)
    BY <1>0, <2>1, StopAlone
  <2>2. CASE run' = [run EXCEPT ![p].pc = "wait", ![p].tx = t]
    <3>1. run'[p].pc = "wait" /\ run'[p].blk = i
      BY <1>0, <2>2 DEF TypeOK, RunType, i
    <3> QED BY <1>1, <1>2, <3>1 DEF Alone
  <2> QED BY <2>1, <2>2 DEF Send
<1> QED BY <1>3, <1>4, <1>5

(* Confirmed: the transaction into the marker, the receipt, the marker removed. *)
LEMMA UpdateAlone ==
    ASSUME SInv, Own, Recorded, NEW p \in Procs, UpdateMarker(p)
    PROVE  OneLiveTx' /\ InFlightMarked' /\ MinedIsRecorded' /\ SameTx' /\ Alone(p)'
<1> DEFINE i == run[p].blk
<1> HIDE DEF i
<1>0. TypeOK /\ Alone(p) /\ i \in Blocks
  BY DEF SInv, IInv, Recorded, Sure, UpdateMarker, i
<1>1. /\ run'[p].pc = "open" /\ run'[p].blk = i /\ run'[p].tx = run[p].tx /\ run[p].pc = "update"
      /\ txs' = txs /\ receipt' = receipt
  BY <1>0 DEF UpdateMarker, Goto, TypeOK, RunType, i
<1>2. /\ marker'[i].st = "full" /\ marker'[i].tx = run[p].tx
      /\ \A j \in Blocks : j # i => marker'[j] = marker[j]
  BY <1>0 DEF UpdateMarker, FullMarker, TypeOK, i
<1>3. receipt[i].st = "absent" /\ marker[i].st = "full"
  BY <1>0, <1>1 DEF Alone, i
<1>4. \A j \in Blocks : marker[j].st = "full" => marker'[j].st = "full"
  BY <1>2
<1>5. \A t \in TxIds : txs[t].st \in {"pool", "mined"} => txs[t].blk \in Blocks
  BY DEF SInv, SentForBlock
<1>6. OneLiveTx' /\ InFlightMarked' /\ MinedIsRecorded'
  BY <1>1, <1>4, <1>5 DEF Recorded, OneLiveTx, InFlightMarked, MinedIsRecorded
<1>7. SameTx'
  BY <1>1, <1>2, <1>3 DEF Recorded, SameTx
<1>8. Alone(p)'
  BY <1>1, <1>2 DEF Alone
<1> QED BY <1>6, <1>7, <1>8

LEMMA ReceiptAlone ==
    ASSUME SInv, Own, Recorded, NEW p \in Procs, OpenReceipt(p) \/ WriteReceipt(p)
    PROVE  OneLiveTx' /\ InFlightMarked' /\ MinedIsRecorded' /\ SameTx' /\ Alone(p)'
<1> DEFINE i == run[p].blk
<1> HIDE DEF i
<1>0. TypeOK /\ Alone(p) /\ i \in Blocks
  BY DEF SInv, IInv, Recorded, Sure, OpenReceipt, WriteReceipt, i
<1>1. /\ run'[p].blk = i /\ run'[p].tx = run[p].tx /\ txs' = txs /\ marker' = marker
      /\ run[p].pc = "open" => run'[p].pc = "write"
      /\ run[p].pc = "write" => run'[p].pc = "unlink"
      /\ run[p].pc \in {"open", "write"}
  BY <1>0 DEF OpenReceipt, WriteReceipt, Goto, TypeOK, RunType, i
<1>2. marker[i].st = "full" /\ marker[i].tx = run[p].tx
  BY <1>0, <1>1 DEF Alone, i
<1>3. \A j \in Blocks : j # i => receipt'[j] = receipt[j]
  BY <1>0 DEF OpenReceipt, WriteReceipt, TypeOK, i
<1>4. run[p].pc = "open" => receipt'[i].st = "torn"
  BY <1>0 DEF OpenReceipt, WriteReceipt, TornReceipt, TypeOK, i
<1>5. run[p].pc = "write" => receipt'[i].st = "full" /\ receipt'[i].tx = run[p].tx
  <2> SUFFICES ASSUME run[p].pc = "write" PROVE receipt'[i].st = "full" /\ receipt'[i].tx = run[p].tx
    OBVIOUS
  <2>1. receipt[i].st = "torn" /\ WriteReceipt(p)
    BY <1>0 DEF Alone, OpenReceipt, i
  <2>2. ~Shorter(FullReceipt(run[p].tx, run[p].cost), receipt[i])
    BY <2>1 DEF Shorter
  <2>3. receipt'[i] = FullReceipt(run[p].tx, run[p].cost)
    BY <1>0, <2>1, <2>2 DEF WriteReceipt, TypeOK, i
  <2> QED BY <2>3 DEF FullReceipt
<1>6. OneLiveTx' /\ InFlightMarked'
  BY <1>1 DEF Recorded, OneLiveTx, InFlightMarked
<1>7. MinedIsRecorded'
  <2> SUFFICES ASSUME NEW t \in TxIds, txs[t].st = "mined", marker[txs[t].blk].st # "full"
               PROVE  receipt'[txs[t].blk].st = "full"
    BY <1>1 DEF MinedIsRecorded
  <2>1. txs[t].blk \in Blocks /\ txs[t].blk # i /\ receipt[txs[t].blk].st = "full"
    BY <1>2 DEF SInv, SentForBlock, Recorded, MinedIsRecorded
  <2> QED BY <1>3, <2>1
<1>8. SameTx'
  <2> SUFFICES ASSUME NEW j \in Blocks, receipt'[j].st = "full", marker[j].st = "full"
               PROVE  marker[j].tx = receipt'[j].tx
    BY <1>1 DEF SameTx
  <2>1. CASE j = i
    BY <1>1, <1>2, <1>4, <1>5, <2>1
  <2>2. CASE j # i
    BY <1>3, <2>2 DEF Recorded, SameTx
  <2> QED BY <2>1, <2>2
<1>9. Alone(p)'
  BY <1>1, <1>2, <1>4, <1>5 DEF Alone
<1> QED BY <1>6, <1>7, <1>8, <1>9

LEMMA UnlinkAlone ==
    ASSUME SInv, Own, Recorded, NEW p \in Procs, Unlink(p)
    PROVE  OneLiveTx' /\ InFlightMarked' /\ MinedIsRecorded' /\ SameTx' /\ Alone(p)'
<1> DEFINE i == run[p].blk
<1> HIDE DEF i
<1>0. TypeOK /\ Alone(p) /\ i \in Blocks /\ Anchored(i) /\ run[p].pc = "unlink"
  BY DEF SInv, IInv, Recorded, Sure, Unlink, i
<1>1. txs' = txs /\ receipt' = receipt /\ receipt[i].st = "full"
  BY <1>0 DEF Unlink, Alone, i
<1>2. marker'[i].st = "absent" /\ \A j \in Blocks : j # i => marker'[j] = marker[j]
  BY <1>0 DEF Unlink, NoMarker, TypeOK, i
<1>3. \A t \in TxIds : txs[t].blk = i => txs[t].st # "pool"
  <2>1. PICK u \in TxIds : txs[u].st = "mined" /\ txs[u].blk = i
    BY <1>0 DEF SInv, AnchoredByUs
  <2> QED BY <2>1 DEF Recorded, OneLiveTx
<1>4. OneLiveTx'
  BY <1>1 DEF Recorded, OneLiveTx
<1>5. \A t \in TxIds : txs[t].st \in {"pool", "mined"} => txs[t].blk \in Blocks
  BY DEF SInv, SentForBlock
<1>6. InFlightMarked' /\ MinedIsRecorded'
  BY <1>1, <1>2, <1>3, <1>5 DEF Recorded, InFlightMarked, MinedIsRecorded
<1>7. SameTx'
  BY <1>1, <1>2 DEF Recorded, SameTx
<1>8. Alone(p)'
  <2>1. run'[p].pc \in {"idle", "scan"}
    BY <1>0 DEF Unlink, Stop, Idle, TypeOK, RunType
  <2> QED BY <2>1, ScanAlone
<1> QED BY <1>4, <1>6, <1>7, <1>8

-----------------------------------------------------------------------------
(* Base, other checkouts and the person: the command stands still. *)
LEMMA AroundAlone ==
    ASSUME SInv, Own, Recorded,
           \/ \E t \in TxIds : Mine(t) \/ Drop(t)
           \/ \E i \in Blocks : ForeignAnchor(i) \/ RemoveMarker(i)
    PROVE  OneLiveTx' /\ InFlightMarked' /\ MinedIsRecorded' /\ SameTx' /\ \A p \in Procs : Alone(p)'
<1>0. /\ TypeOK /\ \A p \in Procs : Alone(p)
      /\ \A t \in TxIds : txs[t].st \in {"pool", "mined"} => txs[t].blk \in Blocks
  BY DEF SInv, IInv, SentForBlock, Recorded
<1>1. ASSUME NEW t \in TxIds, Mine(t) \/ Drop(t)
      PROVE  OneLiveTx' /\ InFlightMarked' /\ MinedIsRecorded' /\ SameTx' /\ \A p \in Procs : Alone(p)'
  <2>1. UNCHANGED <<marker, receipt, run>> /\ txs[t].st = "pool"
    BY <1>1 DEF Mine, Drop, files
  <2>2. \A u \in TxIds : /\ txs'[u].blk = txs[u].blk
                         /\ txs'[u].st = "pool" => txs[u].st = "pool"
                         /\ txs'[u].st = "mined" => txs[u].st \in {"pool", "mined"}
    BY <1>0, <1>1 DEF Mine, Drop, TypeOK, TxType
  <2>3. OneLiveTx'
    BY <2>2 DEF Recorded, OneLiveTx
  <2>4. InFlightMarked' /\ MinedIsRecorded' /\ SameTx'
    BY <2>1, <2>2 DEF Recorded, InFlightMarked, MinedIsRecorded, SameTx
  <2>5. \A p \in Procs : Alone(p)'
    BY <1>0, <2>1, <2>2 DEF Alone, TornMarker
  <2> QED BY <2>3, <2>4, <2>5
<1>2. ASSUME NEW i \in Blocks, ForeignAnchor(i)
      PROVE  OneLiveTx' /\ InFlightMarked' /\ MinedIsRecorded' /\ SameTx' /\ \A p \in Procs : Alone(p)'
  <2>1. UNCHANGED <<txs, marker, receipt, run>>
    BY <1>2 DEF ForeignAnchor
  <2> QED BY <1>0, <2>1, FilesStay DEF Alone, TornMarker
<1>3. ASSUME NEW i \in Blocks, RemoveMarker(i)
      PROVE  OneLiveTx' /\ InFlightMarked' /\ MinedIsRecorded' /\ SameTx' /\ \A p \in Procs : Alone(p)'
  <2>1. UNCHANGED <<txs, receipt, run>> /\ \A p \in Procs : run[p].pc = "idle"
    BY <1>3 DEF RemoveMarker
  <2>2. marker'[i].st = "absent" /\ \A j \in Blocks : j # i => marker'[j] = marker[j]
    BY <1>0, <1>3 DEF RemoveMarker, NoMarker, TypeOK
  <2>3. \A t \in TxIds : txs[t].blk = i => txs[t].st # "pool"
    BY <1>3 DEF RemoveMarker
  <2>4. ASSUME NEW t \in TxIds, txs[t].st = "mined", txs[t].blk = i PROVE receipt[i].st = "full"
    <3>1. Anchored(i)
      BY <2>4 DEF SInv, IInv, MinedTrue
    <3>2. marker[i].st = "torn"
      BY <1>3, <3>1 DEF RemoveMarker, Anchored
    <3> QED BY <2>4, <3>2 DEF Recorded, MinedIsRecorded
  <2>5. OneLiveTx' /\ SameTx'
    BY <2>1, <2>2 DEF Recorded, OneLiveTx, SameTx
  <2>6. InFlightMarked' /\ MinedIsRecorded'
    BY <1>0, <2>1, <2>2, <2>3, <2>4 DEF Recorded, InFlightMarked, MinedIsRecorded
  <2> QED BY <2>1, <2>5, <2>6, ScanAlone
<1> QED BY <1>1, <1>2, <1>3

LEMMA NextRecorded == ASSUME SInv, Own, Serial, Recorded, [Next]_vars PROVE Recorded'
<1> DEFINE Files == OneLiveTx' /\ InFlightMarked' /\ MinedIsRecorded' /\ SameTx'
<1>1. ASSUME NEW p \in Procs, Alone(p)' PROVE \A q \in Procs : Alone(q)'
  BY <1>1, Zenon DEF Serial
<1>2. ASSUME NEW p \in Procs,
             \/ ProcStep(p) \/ Crash(p) \/ StartReconcile(p) \/ \E i \in Blocks : StartAnchor(p, i)
      PROVE  Files /\ Alone(p)'
  BY <1>2, RunOnlyStep, FilesStay, ClaimAlone, FillAlone, SendAlone, UpdateAlone, ReceiptAlone,
     UnlinkAlone
     DEF ProcStep
<1>3. ASSUME \/ \E t \in TxIds : Mine(t) \/ Drop(t)
             \/ \E i \in Blocks : ForeignAnchor(i) \/ RemoveMarker(i)
      PROVE  Files /\ \A p \in Procs : Alone(p)'
  BY <1>3, AroundAlone
<1>4. CASE UNCHANGED vars
  BY <1>4, FilesStay DEF vars, Recorded, Alone, TornMarker
<1> QED BY <1>1, <1>2, <1>3, <1>4 DEF Next, Recorded

LEMMA NextRInv == RInv /\ [Next]_vars => RInv'
<1>1. SInv /\ [Next]_vars => SInv'
  BY NextSInv
<1> QED BY <1>1, NextRecorded DEF RInv, Serial, Own

(* What is in flight can be found: with one command at a time over a proofs/ *)
(* directory, whatever nodes lag, calls time out, commands are killed or      *)
(* other checkouts anchor, a transaction that may still be mined is under a   *)
(* marker that can be read ...                                              *)
THEOREM BaseAnchorInFlightMarked == Spec => [](Serial /\ Own => InFlightMarked)
<1>1. RInv => (Serial /\ Own => InFlightMarked)
  BY DEF RInv, Recorded
<1> QED BY <1>1, InitRInv, NextRInv, PTL DEF Spec

(* ... it is the only one of its block, in flight or mined ...                *)
THEOREM BaseAnchorSerialOneLiveTx == Spec => [](Serial /\ Own => OneLiveTx)
<1>1. RInv => (Serial /\ Own => OneLiveTx)
  BY DEF RInv, Recorded
<1> QED BY <1>1, InitRInv, NextRInv, PTL DEF Spec

(* ... once mined, it is on record, in the marker until a complete base.json  *)
(* has taken its place, however often that was cut short ...                 *)
THEOREM BaseAnchorMinedIsRecorded == Spec => [](Serial /\ Own => MinedIsRecorded)
<1>1. RInv => (Serial /\ Own => MinedIsRecorded)
  BY DEF RInv, Recorded
<1> QED BY <1>1, InitRInv, NextRInv, PTL DEF Spec

(* ... and a marker left beside a complete base.json names the transaction    *)
(* that it names, so that reconcile, which writes it again, changes nothing.  *)
THEOREM BaseAnchorMarkerAgrees == Spec => [](Serial /\ Own => MarkerAgrees)
<1>1. RInv => (Serial /\ Own => MarkerAgrees)
  BY DEF RInv, Recorded, SameTx, MarkerAgrees
<1> QED BY <1>1, InitRInv, NextRInv, PTL DEF Spec
=============================================================================
