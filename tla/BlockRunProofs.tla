--------------------------- MODULE BlockRunProofs ---------------------------
(***************************************************************************)
(* How a block comes to be, for any number of blocks, commits, runs started *)
(* by hand, deaths and losses: every block of main is the one Base holds,   *)
(* main only grows, Base is one block ahead of it at most, and an anchored  *)
(* block comes to main unless its own run died or its push was refused.     *)
(*                                                                         *)
(* None of these is inductive.  A run commits what it saw mined several     *)
(* steps before, from a checkout that may be old, so the invariant follows  *)
(* the run's hash through its transaction to the contract (RunKnows,        *)
(* TxsTrue), says of every commit of main, not only of the last, that its   *)
(* blocks are anchored (CommitsAnchored, CommitsInOrder), bounds what is in *)
(* the pool by the head of main (PoolNear), and says where the block of     *)
(* every transaction is that Base has mined or still may (Accounted).       *)
(***************************************************************************)
EXTENDS BlockRun, SequenceTheorems, TLAPS

Contiguous == Contract!Contiguous

CommitsAnchored ==
    \A k \in 1 .. Len(main) :
        /\ Height(main[k]) <= latestIndex
        /\ \A i \in 0 .. Height(main[k]) : Contract!Matches(i, main[k].chain[i + 1])

CommitsInOrder == \A k \in 1 .. Len(main) : Height(main[k]) <= Height(Tip)

RunKnows ==
    /\ queue <= Len(main)
    /\ run.pc # "none" => run.rev \in 1 .. Len(main)
    /\ run.pc \in {"send", "wait", "commit"} =>
          run.hash \in 1 .. built /\ Height(Tree) + 1 <= MaxIndex
    /\ run.pc = "send" => txs[run.hash].st = "unsent"
    /\ run.pc \in {"wait", "commit"} => txs[run.hash].index = Height(Tree) + 1
    /\ run.pc = "commit" => txs[run.hash].st = "mined"

(* A mined transaction is what anchored its block, and nothing else anchors. *)
TxsTrue ==
    /\ \A h \in Built : h > built => txs[h].st = "unsent"
    /\ \A h \in Built : txs[h].st = "mined" => anchors[txs[h].index] = h
    /\ \A i \in 1 .. MaxIndex :
          anchors[i] # NoHash =>
              anchors[i] \in Built /\ txs[anchors[i]].st = "mined" /\ txs[anchors[i]].index = i

PoolNear == \A h \in Built : txs[h].st = "pool" => txs[h].index <= Height(Tip) + 1

Accounted ==
    \A h \in Built : txs[h].st \in {"pool", "mined"} =>
        \/ txs[h].st = "mined" /\ txs[h].index <= Height(Tip)
        \/ run.hash = h /\ run.pc \in {"wait", "commit"}
        \/ ended[h] # "no"

RunInv ==
    /\ TypeOK /\ Contiguous /\ CommitsAnchored /\ CommitsInOrder
    /\ RunKnows /\ TxsTrue /\ PoolNear /\ Accounted
    /\ BaseOneAhead

-----------------------------------------------------------------------------
(* Trees and commits. *)
LEMMA TreeFacts ==
    ASSUME NEW t \in Trees
    PROVE  /\ t.chain \in Seq(Hashes) /\ t.chain # <<>>
           /\ t.request \in Requests \cup {NoRequest}
           /\ Height(t) \in Nat /\ Len(t.chain) = Height(t) + 1
           /\ Last(t.chain) \in Hashes
<1>1. t.chain \in Seq(Hashes) /\ t.chain # <<>> /\ t.request \in Requests \cup {NoRequest}
  BY DEF Trees
<1>2. Len(t.chain) \in Nat \ {0}
  BY <1>1, EmptySeq
<1> QED BY <1>1, <1>2 DEF Height, Last

LEMMA MainFacts ==
    ASSUME TypeOK
    PROVE  /\ Len(main) \in 1 .. MaxRev /\ Len(main) \in Nat /\ main \in Seq(Trees)
           /\ \A k \in 1 .. Len(main) : main[k] \in Trees
           /\ Tip = main[Len(main)] /\ Tip \in Trees
  BY RunAssumption DEF TypeOK, Tip

LEMMA CommitFacts ==
    ASSUME TypeOK, NEW tree \in Trees, CommitOn(tree), Len(main) < MaxRev
    PROVE  /\ main' \in Seq(Trees) /\ Len(main') = Len(main) + 1 /\ Len(main') \in 1 .. MaxRev
           /\ main'[Len(main) + 1] = tree /\ Tip' = tree
           /\ \A k \in 1 .. Len(main) : main'[k] = main[k]
<1>1. main' = Append(main, tree)
  BY DEF CommitOn
<1>2. /\ main' \in Seq(Trees) /\ Len(main') = Len(main) + 1
      /\ main'[Len(main) + 1] = tree
      /\ \A k \in 1 .. Len(main) : main'[k] = main[k]
  BY <1>1, MainFacts, AppendProperties
<1>3. Len(main') \in 1 .. MaxRev
  BY <1>2, MainFacts, RunAssumption
<1>4. Tip' = tree
  BY <1>2 DEF Tip
<1> QED BY <1>2, <1>3, <1>4

LEMMA HeadTree ==
    ASSUME TypeOK, NEW request \in Requests \cup {NoRequest}
    PROVE  /\ [Tip EXCEPT !.request = request] \in Trees
           /\ [Tip EXCEPT !.request = request].chain = Tip.chain
  BY MainFacts DEF Trees

(* The contract: the index of a transaction that goes through is the next, *)
(* and the calls before it stand.                                         *)
LEMMA AnchorCall ==
    ASSUME TypeOK, Contiguous, NEW i, NEW h \in Hashes, Contract!Anchor(Account, i, h), i <= MaxIndex
    PROVE  /\ Contract!ContractTypeOK' /\ Contiguous'
           /\ i = latestIndex + 1 /\ latestIndex' = i /\ i \in 1 .. MaxIndex
           /\ anchors'[i] = h /\ anchors[i] = NoHash
           /\ \A j \in 0 .. MaxIndex : j # i => anchors'[j] = anchors[j]
<1>1. /\ Contract!Index = 0 .. MaxIndex
      /\ anchors[i] = NoHash /\ anchors' = [anchors EXCEPT ![i] = h]
      /\ i = latestIndex + 1 /\ latestIndex' = i /\ owner' = owner /\ h # NoHash
  BY DEF Contract!Anchor, Contract!Reverts, Contract!Index
<1>2. i \in 1 .. MaxIndex /\ latestIndex \in 0 .. MaxIndex /\ anchors \in [0 .. MaxIndex -> Hashes \cup {NoHash}]
  BY <1>1, RunAssumption DEF TypeOK, Contract!ContractTypeOK
<1>3. Contract!ContractTypeOK'
  BY <1>1, <1>2 DEF TypeOK, Contract!ContractTypeOK
<1>4. anchors'[i] = h /\ \A j \in 0 .. MaxIndex : j # i => anchors'[j] = anchors[j]
  BY <1>1, <1>2
<1>5. Contiguous'
  <2>1. \A j \in 0 .. MaxIndex : anchors[j] # NoHash <=> j <= latestIndex
    BY <1>1 DEF Contiguous, Contract!Contiguous
  <2>2. \A j \in 0 .. MaxIndex : anchors'[j] # NoHash <=> j <= latestIndex'
    BY <1>1, <1>2, <1>4, <2>1
  <2> QED BY <1>1, <2>2 DEF Contiguous, Contract!Contiguous, Contract!Index
<1> QED BY <1>1, <1>2, <1>3, <1>4, <1>5

LEMMA ContractStays ==
    ASSUME TypeOK, UNCHANGED contractVars
    PROVE  Contract!ContractTypeOK' /\ (Contiguous => Contiguous')
  BY DEF contractVars, TypeOK, Contract!ContractTypeOK, Contiguous, Contract!Contiguous, Contract!Index

-----------------------------------------------------------------------------
LEMMA InitRunInv == Init => RunInv
<1> SUFFICES ASSUME Init PROVE RunInv
  OBVIOUS
<1> DEFINE t == [chain |-> <<0>>, request |-> NoRequest]
<1>1. Contract!ContractTypeOK /\ Contiguous
  BY RunAssumption
     DEF Init, Contract!ContractInit, Contract!ContractTypeOK, Contract!Index, Contiguous, Contract!Contiguous, Hashes
<1>2. t \in Trees /\ Height(t) = 0 /\ t.chain[1] = 0
  BY RunAssumption DEF Trees, Hashes, Height
<1>3. main = <<t>> /\ Len(main) = 1 /\ main[1] = t /\ Tip = t /\ main \in Seq(Trees)
  BY <1>2 DEF Init, Tip
<1>4. latestIndex = 0 /\ anchors[0] = 0 /\ \A i \in 1 .. MaxIndex : anchors[i] = NoHash
  BY RunAssumption DEF Init, Contract!ContractInit, Contract!Index
<1>5. run = Waiting /\ run.pc = "none" /\ queue = 0 /\ \A h \in Built : txs[h].st = "unsent"
  BY DEF Init, Waiting
<1>6. TypeOK
  <2>1. run \in [pc : {"none", "block", "send", "wait", "commit"}, rev : 0 .. MaxRev, hash : Hashes]
    BY RunAssumption DEF Init, Waiting, Hashes
  <2>2. txs \in [Built -> [st : {"unsent", "pool", "mined", "reverted", "dropped"},
                           index : 0 .. MaxIndex]]
    BY RunAssumption DEF Init
  <2>3. main \in Seq(Trees) /\ Len(main) \in 1 .. MaxRev
    BY <1>3, RunAssumption
  <2>4. built = 0 /\ dispatched = 0 /\ ended \in [Built -> {"no", "died", "refused"}]
    BY DEF Init
  <2>5. built \in 0 .. MaxBuilt /\ dispatched \in 0 .. MaxDispatch /\ queue \in 0 .. MaxRev
    BY <1>5, <2>4, RunAssumption
  <2> QED BY <1>1, <2>1, <2>2, <2>3, <2>4, <2>5 DEF TypeOK
<1>7. CommitsAnchored /\ CommitsInOrder
  BY <1>2, <1>3, <1>4, RunAssumption DEF CommitsAnchored, CommitsInOrder, Contract!Matches
<1>8. RunKnows /\ TxsTrue /\ PoolNear /\ Accounted
  BY <1>3, <1>4, <1>5 DEF RunKnows, TxsTrue, PoolNear, Accounted
<1>9. BaseOneAhead
  BY <1>2, <1>3, <1>4 DEF BaseOneAhead
<1> QED BY <1>1, <1>6, <1>7, <1>8, <1>9 DEF RunInv

-----------------------------------------------------------------------------
(* Steps of the others that leave the contract, the run and what it sent    *)
(* alone, and commit the blocks of main's head again or nothing.            *)
HeadAgain ==
    /\ UNCHANGED <<run, built, txs, ended, contractVars>>
    /\ \/ UNCHANGED main
       \/ Len(main) < MaxRev /\ \E tree \in Trees : CommitOn(tree) /\ tree.chain = Tip.chain

LEMMA HeadAgainFacts ==
    ASSUME TypeOK, HeadAgain
    PROVE  /\ main' \in Seq(Trees) /\ Len(main') \in 1 .. MaxRev /\ Len(main) <= Len(main')
           /\ \A k \in 1 .. Len(main) : main'[k] = main[k]
           /\ Tip'.chain = Tip.chain /\ Tip' = main'[Len(main')]
           /\ \A k \in 1 .. Len(main') : \E j \in 1 .. Len(main) : main'[k].chain = main[j].chain
<1>1. CASE UNCHANGED main
  BY <1>1, MainFacts DEF Tip
<1>2. CASE Len(main) < MaxRev /\ \E tree \in Trees : CommitOn(tree) /\ tree.chain = Tip.chain
  <2>1. PICK tree \in Trees : CommitOn(tree) /\ tree.chain = Tip.chain
    BY <1>2
  <2>2. /\ main' \in Seq(Trees) /\ Len(main') = Len(main) + 1 /\ Len(main') \in 1 .. MaxRev
        /\ main'[Len(main) + 1] = tree /\ Tip' = tree
        /\ \A k \in 1 .. Len(main) : main'[k] = main[k]
    BY <1>2, <2>1, CommitFacts
  <2>3. \A k \in 1 .. Len(main') : k \in 1 .. Len(main) \/ k = Len(main) + 1
    BY <2>2, MainFacts
  <2> QED BY <2>1, <2>2, <2>3, MainFacts
<1> QED BY <1>1, <1>2 DEF HeadAgain

LEMMA OthersStep ==
    ASSUME RunInv, HeadAgain, queue' \in 0 .. Len(main'), dispatched' \in 0 .. MaxDispatch
    PROVE  RunInv'
<1> USE DEF RunInv
<1>1. /\ main' \in Seq(Trees) /\ Len(main') \in 1 .. MaxRev /\ Len(main) <= Len(main')
      /\ \A k \in 1 .. Len(main) : main'[k] = main[k]
      /\ Tip'.chain = Tip.chain /\ Tip' = main'[Len(main')]
      /\ \A k \in 1 .. Len(main') : \E j \in 1 .. Len(main) : main'[k].chain = main[j].chain
  BY HeadAgainFacts
<1>2. UNCHANGED <<run, built, txs, ended, owner, latestIndex, anchors>>
  BY DEF HeadAgain, contractVars
<1>3. Contract!ContractTypeOK' /\ Contiguous'
  BY <1>2, ContractStays DEF contractVars
<1>4. TypeOK'
  <2>1. queue' \in 0 .. MaxRev
    BY <1>1, RunAssumption
  <2> QED BY <1>1, <1>2, <1>3, <2>1 DEF TypeOK
<1>5. CommitsAnchored' /\ CommitsInOrder'
  <2> SUFFICES ASSUME NEW k \in 1 .. Len(main')
               PROVE  /\ Height(main'[k]) <= latestIndex' /\ Height(main'[k]) <= Height(Tip')
                      /\ \A i \in 0 .. Height(main'[k]) : anchors'[i] = main'[k].chain[i + 1]
                                                         /\ main'[k].chain[i + 1] # NoHash
    BY DEF CommitsAnchored, CommitsInOrder, Height, Contract!Matches
  <2>1. PICK j \in 1 .. Len(main) : main'[k].chain = main[j].chain
    BY <1>1
  <2>2. Height(main'[k]) = Height(main[j]) /\ Height(Tip') = Height(Tip)
    BY <1>1, <2>1 DEF Height
  <2> QED BY <1>2, <2>1, <2>2 DEF CommitsAnchored, CommitsInOrder, Contract!Matches
<1>6. RunKnows'
  <2>1. run.pc # "none" => Tree' = Tree
    BY <1>1, <1>2 DEF RunKnows, Tree
  <2>2. run.rev \in 1 .. Len(main) => run.rev \in 1 .. Len(main')
    BY <1>1, MainFacts
  <2>3. queue' <= Len(main')
    OBVIOUS
  <2> QED BY <1>2, <2>1, <2>2, <2>3 DEF RunKnows
<1>7. TxsTrue'
  BY <1>2 DEF TxsTrue
<1>8. PoolNear' /\ Accounted' /\ BaseOneAhead'
  BY <1>1, <1>2 DEF PoolNear, Accounted, BaseOneAhead, Height
<1> QED BY <1>3, <1>4, <1>5, <1>6, <1>7, <1>8

(* What others commit: the blocks of main's head, with another request or none. *)
LEMMA HeadCommits ==
    ASSUME TypeOK,
           \/ \E r \in Requests : PushRequest(r)
           \/ DropRequest
           \/ MergeOther
    PROVE  \E tree \in Trees : Len(main) < MaxRev /\ CommitOn(tree) /\ tree.chain = Tip.chain
<1>1. CASE \E r \in Requests : PushRequest(r)
  <2>1. PICK r \in Requests : PushRequest(r)
    BY <1>1
  <2>2. Len(main) < MaxRev /\ CommitOn([Tip EXCEPT !.request = r])
    BY <2>1, MainFacts, RunAssumption DEF PushRequest
  <2> QED BY <2>2, HeadTree
<1>2. CASE DropRequest
  <2>1. Len(main) < MaxRev /\ CommitOn([Tip EXCEPT !.request = NoRequest])
    BY <1>2, MainFacts, RunAssumption DEF DropRequest
  <2> QED BY <2>1, HeadTree
<1>3. CASE MergeOther
  BY <1>3, MainFacts, RunAssumption DEF MergeOther
<1> QED BY <1>1, <1>2, <1>3

LEMMA CommitsOfOthers ==
    ASSUME RunInv,
           \/ \E r \in Requests : PushRequest(r)
           \/ DropRequest
           \/ MergeOther
    PROVE  RunInv'
<1> USE DEF RunInv
<1>1. PICK tree \in Trees : Len(main) < MaxRev /\ CommitOn(tree) /\ tree.chain = Tip.chain
  BY HeadCommits
<1>2. Len(main') = Len(main) + 1
  BY <1>1, CommitFacts
<1>3. UNCHANGED <<run, built, txs, ended, contractVars, dispatched>>
  BY DEF PushRequest, DropRequest, MergeOther
<1>4. queue' \in {queue, Len(main')}
  BY <1>2 DEF PushRequest, DropRequest, MergeOther
<1>5. queue' \in 0 .. Len(main') /\ dispatched' \in 0 .. MaxDispatch
  BY <1>2, <1>3, <1>4, MainFacts DEF TypeOK, RunKnows
<1>6. HeadAgain
  BY <1>1, <1>3 DEF HeadAgain
<1> QED BY <1>5, <1>6, OthersStep

LEMMA GroupChanges ==
    ASSUME RunInv, Displaced \/ DispatchHead \/ \E rev \in 1 .. Len(main) : Dispatch(rev)
    PROVE  RunInv'
<1> USE DEF RunInv
<1>1. HeadAgain /\ main' = main
  BY DEF Displaced, DispatchHead, Dispatch, HeadAgain
<1>2. queue' \in 0 .. Len(main')
  BY <1>1, MainFacts DEF Displaced, DispatchHead, Dispatch
<1>3. dispatched' \in 0 .. MaxDispatch
  BY RunAssumption DEF Displaced, DispatchHead, Dispatch, TypeOK
<1> QED BY <1>1, <1>2, <1>3, OthersStep

-----------------------------------------------------------------------------
(* Steps of the run that leave main and the contract alone. *)
RunOnly == UNCHANGED <<main, dispatched, owner, latestIndex, anchors>>

(* What they do not disturb: it is of main and the contract. *)
LEMMA RunOnlyKeeps ==
    ASSUME RunInv, RunOnly
    PROVE  /\ Contract!ContractTypeOK' /\ Contiguous' /\ CommitsAnchored' /\ CommitsInOrder'
           /\ BaseOneAhead'
           /\ Tip' = Tip
  BY ContractStays
     DEF RunInv, RunOnly, contractVars, CommitsAnchored, CommitsInOrder, BaseOneAhead, Contract!Matches,
         Tip, Height

(* A run that ends, and leaves no block unaccounted for. *)
LEMMA RunEnds ==
    ASSUME RunInv, RunOnly, Fail, UNCHANGED <<queue, built, txs>>,
           ended' \in [Built -> {"no", "died", "refused"}],
           \A h \in Built : ended[h] # "no" => ended'[h] # "no",
           run.hash \in Built /\ txs[run.hash].st \in {"pool", "mined"} => ended'[run.hash] # "no"
    PROVE  RunInv'
<1> USE DEF RunInv
<1>1. run'.pc = "none" /\ run'.hash = 0 /\ run'.rev = 0 /\ run' = Waiting
  BY DEF Fail, Waiting
<1>2. Waiting \in [pc : {"none", "block", "send", "wait", "commit"}, rev : 0 .. MaxRev, hash : Hashes]
  BY RunAssumption DEF Waiting, Hashes
<1>3. TypeOK'
  BY <1>1, <1>2, RunOnlyKeeps DEF TypeOK, RunOnly
<1>4. RunKnows' /\ TxsTrue'
  BY <1>1 DEF RunKnows, TxsTrue, RunOnly
<1>5. PoolNear' /\ Accounted'
  BY RunOnlyKeeps DEF PoolNear, Accounted, Height
<1> QED BY <1>3, <1>4, <1>5, RunOnlyKeeps

(* What is written down of a run that dies, or whose push is refused. *)
LEMMA LeavesFacts ==
    ASSUME TypeOK, NEW how \in {"died", "refused"}, Leaves(how)
    PROVE  /\ ended' \in [Built -> {"no", "died", "refused"}]
           /\ \A h \in Built : ended[h] # "no" => ended'[h] # "no"
           /\ run.hash \in Built => ended'[run.hash] # "no"
  BY DEF Leaves, TypeOK

LEMMA StartRunStep == ASSUME RunInv, StartRun PROVE RunInv'
<1> USE DEF RunInv
<1>1. RunOnly /\ UNCHANGED <<built, txs, ended>> /\ run.pc = "none" /\ queue # 0
  BY DEF StartRun, RunOnly, contractVars
<1>2. /\ run' = [pc |-> "block", rev |-> queue, hash |-> 0] /\ queue' = 0
      /\ run'.pc = "block" /\ run'.rev = queue
  BY DEF StartRun
<1>3. queue \in 1 .. Len(main) /\ queue \in 0 .. MaxRev
  BY <1>1, MainFacts DEF TypeOK, RunKnows
<1>4. TypeOK'
  BY <1>1, <1>2, <1>3, RunOnlyKeeps, RunAssumption DEF TypeOK, RunOnly, Hashes
<1>5. RunKnows' /\ TxsTrue'
  BY <1>1, <1>2, <1>3 DEF RunKnows, TxsTrue, RunOnly
<1>6. PoolNear' /\ Accounted'
  BY <1>1, RunOnlyKeeps DEF PoolNear, Accounted, Height
<1> QED BY <1>1, <1>4, <1>5, <1>6, RunOnlyKeeps

LEMMA TreeOfRun ==
    ASSUME RunInv, run.pc # "none"
    PROVE  /\ run.rev \in 1 .. Len(main) /\ Tree \in Trees /\ Tree = main[run.rev]
           /\ Height(Tree) \in Nat /\ Height(Tree) <= Height(Tip) /\ Height(Tip) \in Nat
  BY MainFacts, TreeFacts DEF RunInv, RunKnows, Tree, CommitsInOrder

LEMMA WriteBlockStep == ASSUME RunInv, WriteBlock PROVE RunInv'
<1> USE DEF RunInv
<1>1. RunOnly /\ UNCHANGED <<queue, txs, ended>> /\ run.pc = "block"
  BY DEF WriteBlock, RunOnly, contractVars
<1>2. CASE Tree.request # RequestFor(Tree) /\ Fail /\ UNCHANGED built
  <2>1. run'.pc = "none" /\ run' = Waiting
    BY <1>2 DEF Fail, Waiting
  <2>2. Waiting \in [pc : {"none", "block", "send", "wait", "commit"}, rev : 0 .. MaxRev, hash : Hashes]
    BY RunAssumption DEF Waiting, Hashes
  <2>3. TypeOK'
    BY <1>1, <1>2, <2>1, <2>2, RunOnlyKeeps DEF TypeOK, RunOnly
  <2> QED BY <1>1, <1>2, <2>1, <2>3, RunOnlyKeeps DEF RunKnows, TxsTrue, PoolNear, Accounted, RunOnly, Height
<1>3. CASE /\ Tree.request = RequestFor(Tree)
           /\ built < MaxBuilt
           /\ built' = built + 1
           /\ run' = [run EXCEPT !.pc = "send", !.hash = built + 1]
  <2>1. built + 1 \in 1 .. MaxBuilt /\ built + 1 \in Hashes /\ built \in Nat
    BY <1>3, RunAssumption DEF TypeOK, Hashes
  <2>2. run'.pc = "send" /\ run'.hash = built + 1 /\ run'.rev = run.rev
    BY <1>3 DEF TypeOK
  <2>3. Height(Tree) + 1 <= MaxIndex
    <3>1. RequestFor(Tree) \in [index : Nat, prev : Nat] /\ RequestFor(Tree).index = Height(Tree) + 1
      BY <1>1, TreeOfRun, TreeFacts, RunAssumption DEF RequestFor, Hashes
    <3>2. Tree.request \in Requests
      BY <1>1, <1>3, <3>1, TreeOfRun, TreeFacts, RunAssumption
    <3> QED BY <1>3, <3>1, <3>2, RunAssumption DEF Requests
  <2>4. TypeOK'
    <3>1. run' \in [pc : {"none", "block", "send", "wait", "commit"}, rev : 0 .. MaxRev, hash : Hashes]
      BY <1>3, <2>1 DEF TypeOK
    <3> QED BY <1>1, <1>3, <2>1, <3>1, RunOnlyKeeps DEF TypeOK, RunOnly
  <2>5. Tree' = Tree
    BY <1>1, <2>2 DEF RunOnly, Tree
  <2>6. txs[built + 1].st = "unsent"
    BY <2>1 DEF TxsTrue, Built
  <2>7. RunKnows'
    BY <1>1, <1>3, <2>1, <2>2, <2>3, <2>5, <2>6 DEF RunKnows, RunOnly
  <2>8. TxsTrue'
    BY <1>1, <1>3, <2>1 DEF TxsTrue, RunOnly, Built
  <2>9. PoolNear' /\ Accounted'
    BY <1>1, RunOnlyKeeps DEF PoolNear, Accounted, Height
  <2> QED BY <1>1, <2>4, <2>7, <2>8, <2>9, RunOnlyKeeps
<1> QED BY <1>2, <1>3 DEF WriteBlock

LEMMA SendStep == ASSUME RunInv, Send PROVE RunInv'
<1> USE DEF RunInv
<1>1. RunOnly /\ UNCHANGED <<queue, built, ended>> /\ run.pc = "send"
  BY DEF Send, RunOnly, contractVars
<1> DEFINE i == Height(Tree) + 1
<1> HIDE DEF i
<1>2. CASE Fail /\ UNCHANGED txs
  <2>1. run.hash \in Built => txs[run.hash].st = "unsent"
    BY <1>1 DEF RunKnows
  <2> QED BY <1>1, <1>2, <2>1, RunEnds DEF TypeOK
<1>3. CASE txs' = [txs EXCEPT ![run.hash] = [st |-> "pool", index |-> i]] /\ Goto("wait")
  <2>1. /\ run.hash \in 1 .. built /\ run.hash \in Built /\ txs[run.hash].st = "unsent"
        /\ i \in 0 .. MaxIndex /\ i <= Height(Tip) + 1
    <3>1. run.hash \in 1 .. built /\ i <= MaxIndex /\ txs[run.hash].st = "unsent"
      BY <1>1 DEF RunKnows, i
    <3>2. Height(Tree) \in Nat /\ Height(Tip) \in Nat /\ Height(Tree) <= Height(Tip)
      BY <1>1, TreeOfRun
    <3>3. i \in 0 .. MaxIndex /\ i <= Height(Tip) + 1
      BY <3>1, <3>2, RunAssumption DEF i
    <3>4. built \in 0 .. MaxBuilt
      BY DEF TypeOK
    <3> QED BY <3>1, <3>3, <3>4, RunAssumption DEF Built
  <2>2. run' = [run EXCEPT !.pc = "wait"] /\ run'.pc = "wait" /\ run'.hash = run.hash /\ run'.rev = run.rev
    BY <1>3 DEF TypeOK, Goto
  <2>3. /\ txs'[run.hash].st = "pool" /\ txs'[run.hash].index = i
        /\ \A h \in Built : h # run.hash => txs'[h] = txs[h]
    BY <1>3, <2>1 DEF TypeOK
  <2>4. TypeOK'
    <3>1. run' \in [pc : {"none", "block", "send", "wait", "commit"}, rev : 0 .. MaxRev, hash : Hashes]
      BY <2>2 DEF TypeOK
    <3>2. txs' \in [Built -> [st : {"unsent", "pool", "mined", "reverted", "dropped"}, index : 0 .. MaxIndex]]
      BY <1>3, <2>1 DEF TypeOK
    <3> QED BY <1>1, <3>1, <3>2, RunOnlyKeeps DEF TypeOK, RunOnly
  <2>5. Tree' = Tree
    BY <1>1, <2>2 DEF RunOnly, Tree
  <2>6. RunKnows'
    <3>1. Height(Tree)' = Height(Tree)
      BY <2>5 DEF Height
    <3> QED BY <1>1, <2>1, <2>2, <2>3, <2>5, <3>1 DEF RunKnows, RunOnly, i
  <2>7. TxsTrue'
    <3>1. \A h \in Built : h > built => h # run.hash
      BY <2>1, RunAssumption DEF Built, TypeOK
    <3>2. \A h \in Built : txs'[h].st = "mined" => txs[h].st = "mined" /\ txs'[h] = txs[h]
      BY <2>3
    <3>3. \A h \in Built : txs[h].st = "mined" => txs'[h].st = "mined"
      BY <2>1, <2>3
    <3> QED BY <1>1, <2>3, <3>1, <3>2, <3>3 DEF TxsTrue, RunOnly
  <2>8. PoolNear'
    BY <1>1, <2>1, <2>3, RunOnlyKeeps DEF PoolNear
  <2>9. Accounted'
    BY <1>1, <2>2, <2>3, RunOnlyKeeps DEF Accounted, Height
  <2> QED BY <1>1, <2>4, <2>6, <2>7, <2>8, <2>9, RunOnlyKeeps
<1> QED BY <1>2, <1>3 DEF Send, i

LEMMA ConfirmedStep == ASSUME RunInv, Confirmed PROVE RunInv'
<1> USE DEF RunInv
<1>1. RunOnly /\ UNCHANGED <<queue, built, txs, ended>> /\ run.pc = "wait"
  BY DEF Confirmed, RunOnly, contractVars
<1>2. run.hash \in Built
  BY <1>1, RunAssumption DEF RunKnows, TypeOK, Built
<1>4. CASE txs[run.hash].st = "reverted" /\ Fail
  BY <1>1, <1>4, RunEnds DEF TypeOK
<1>5. CASE txs[run.hash].st = "mined" /\ Goto("commit")
  <2>1. /\ run' = [run EXCEPT !.pc = "commit"]
        /\ run'.pc = "commit" /\ run'.hash = run.hash /\ run'.rev = run.rev
    BY <1>5 DEF TypeOK, Goto
  <2>2. TypeOK'
    <3>1. run' \in [pc : {"none", "block", "send", "wait", "commit"}, rev : 0 .. MaxRev, hash : Hashes]
      BY <2>1 DEF TypeOK
    <3> QED BY <1>1, <3>1, RunOnlyKeeps DEF TypeOK, RunOnly
  <2>3. Tree' = Tree
    BY <1>1, <2>1 DEF RunOnly, Tree
  <2>4. RunKnows' /\ TxsTrue'
    <3>1. Height(Tree)' = Height(Tree)
      BY <2>3 DEF Height
    <3>2. RunKnows'
      BY <1>1, <1>5, <2>1, <3>1 DEF RunKnows, RunOnly
    <3>3. TxsTrue'
      BY <1>1 DEF TxsTrue, RunOnly
    <3> QED BY <3>2, <3>3
  <2>5. PoolNear' /\ Accounted'
    BY <1>1, <2>1, RunOnlyKeeps DEF PoolNear, Accounted, Height
  <2> QED BY <1>1, <2>2, <2>4, <2>5, RunOnlyKeeps
<1> QED BY <1>4, <1>5 DEF Confirmed

LEMMA RunDiesStep == ASSUME RunInv, TimesOut \/ RunDies PROVE RunInv'
<1>1. RunOnly /\ Fail /\ UNCHANGED <<queue, built, txs>> /\ Leaves("died")
  BY DEF TimesOut, RunDies, RunOnly, contractVars
<1> QED BY <1>1, LeavesFacts, RunEnds DEF RunInv

(* What a push of the run's block makes of main. *)
PushedBlock == [chain |-> Append(Tree.chain, run.hash), request |-> NoRequest]

LEMMA PushFacts ==
    ASSUME RunInv, run.pc = "commit", run.rev = Len(main)
    PROVE  /\ PushedBlock \in Trees /\ Height(PushedBlock) = Height(Tip) + 1
           /\ \A i \in 0 .. Height(Tip) : PushedBlock.chain[i + 1] = Tip.chain[i + 1]
           /\ PushedBlock.chain[Height(Tip) + 2] = run.hash
<1>1. Tree = Tip /\ Tip \in Trees /\ run.hash \in Hashes
  BY MainFacts DEF RunInv, TypeOK, Tree, Tip
<1>2. Tip.chain \in Seq(Hashes) /\ Len(Tip.chain) = Height(Tip) + 1 /\ Height(Tip) \in Nat
  BY <1>1, TreeFacts
<1> DEFINE chain == Append(Tip.chain, run.hash)
<1>3. /\ chain \in Seq(Hashes) /\ Len(chain) = Height(Tip) + 2
      /\ \A i \in 1 .. Height(Tip) + 1 : chain[i] = Tip.chain[i]
      /\ chain[Height(Tip) + 2] = run.hash
  BY <1>1, <1>2, AppendProperties
<1>4. chain # <<>>
  BY <1>2, <1>3, EmptySeq
<1>5. PushedBlock = [chain |-> chain, request |-> NoRequest]
  BY <1>1 DEF PushedBlock
<1> HIDE DEF chain
<1>6. PushedBlock.chain = chain /\ PushedBlock \in Trees
  BY <1>3, <1>4, <1>5 DEF Trees
<1> QED BY <1>2, <1>3, <1>6 DEF Height

LEMMA CommitStep == ASSUME RunInv, Commit PROVE RunInv'
<1> USE DEF RunInv
<1>1. run.pc = "commit" /\ Fail /\ UNCHANGED <<queue, built, txs, dispatched, contractVars>>
  BY DEF Commit
<1>2. UNCHANGED <<owner, latestIndex, anchors>>
  BY <1>1 DEF contractVars
<1>4. CASE run.rev # Len(main) /\ Leaves("refused") /\ UNCHANGED main
  <2>1. RunOnly
    BY <1>1, <1>2, <1>4 DEF RunOnly
  <2> QED BY <1>1, <1>4, <2>1, LeavesFacts, RunEnds
<1>5. CASE /\ run.rev = Len(main)
           /\ Len(main) < MaxRev
           /\ CommitOn([chain |-> Append(Tree.chain, run.hash), request |-> NoRequest])
           /\ UNCHANGED ended
  <2> DEFINE new == PushedBlock
             H == Height(Tip)
  <2> HIDE DEF new, H
  <2>1. /\ new \in Trees /\ Height(new) = H + 1
        /\ \A i \in 0 .. H : new.chain[i + 1] = Tip.chain[i + 1]
        /\ new.chain[H + 2] = run.hash
    BY <1>1, <1>5, PushFacts DEF new, H
  <2>2. /\ main' \in Seq(Trees) /\ Len(main') = Len(main) + 1 /\ Len(main') \in 1 .. MaxRev
        /\ main'[Len(main) + 1] = new /\ Tip' = new
        /\ \A k \in 1 .. Len(main) : main'[k] = main[k]
    BY <1>5, <2>1, CommitFacts DEF PushedBlock, new
  <2>3. \A k \in 1 .. Len(main') : k \in 1 .. Len(main) \/ k = Len(main) + 1
    BY <2>2, MainFacts
  <2>4. H \in Nat /\ latestIndex \in Nat /\ Tip = main[Len(main)] /\ Len(main) \in 1 .. Len(main)
    BY MainFacts, TreeFacts, RunAssumption DEF TypeOK, Contract!ContractTypeOK, Contract!Index, H
  <2>5. anchors[H + 1] = run.hash /\ run.hash # NoHash /\ H + 1 \in 1 .. MaxIndex
    <3>1. /\ run.hash \in 1 .. built /\ Height(Tree) + 1 <= MaxIndex
          /\ txs[run.hash].index = Height(Tree) + 1 /\ txs[run.hash].st = "mined"
      BY <1>1 DEF RunKnows
    <3>2. Tree = Tip
      BY <1>5 DEF Tree, Tip
    <3>3. run.hash \in Built /\ run.hash # NoHash
      BY <3>1, RunAssumption DEF TypeOK, Built
    <3> QED BY <2>4, <3>1, <3>2, <3>3, RunAssumption DEF TxsTrue, H
  <2>6. H + 1 <= latestIndex /\ latestIndex <= H + 1
    BY <2>5 DEF Contiguous, Contract!Contiguous, Contract!Index, BaseOneAhead, H
  <2>7. TypeOK'
    <3>1. run' \in [pc : {"none", "block", "send", "wait", "commit"}, rev : 0 .. MaxRev, hash : Hashes]
      BY <1>1, RunAssumption DEF Fail, Waiting, Hashes
    <3>2. Contract!ContractTypeOK' /\ Contiguous'
      BY <1>1, ContractStays
    <3> QED BY <1>1, <1>5, <2>2, <3>1, <3>2 DEF TypeOK
  <2>8. Contiguous'
    BY <1>1, ContractStays
  <2>9. CommitsAnchored'
    <3> SUFFICES ASSUME NEW k \in 1 .. Len(main')
                 PROVE  /\ Height(main'[k]) <= latestIndex
                        /\ \A i \in 0 .. Height(main'[k]) : anchors[i] = main'[k].chain[i + 1]
                                                           /\ main'[k].chain[i + 1] # NoHash
      BY <1>2 DEF CommitsAnchored, Height, Contract!Matches
    <3>1. CASE k \in 1 .. Len(main)
      BY <2>2, <3>1 DEF CommitsAnchored, Contract!Matches
    <3>2. CASE k = Len(main) + 1
      <4>1. \A i \in 0 .. H : anchors[i] = Tip.chain[i + 1] /\ Tip.chain[i + 1] # NoHash
        BY <2>4 DEF CommitsAnchored, Contract!Matches, H
      <4>2. \A i \in 0 .. H + 1 : i \in 0 .. H \/ i = H + 1
        BY <2>4
      <4>3. main'[k] = new /\ H + 1 + 1 = H + 2
        BY <2>2, <2>4, <3>2
      <4> QED BY <2>1, <2>5, <2>6, <4>1, <4>2, <4>3
    <3> QED BY <2>3, <3>1, <3>2
  <2>10. CommitsInOrder'
    <3> SUFFICES ASSUME NEW k \in 1 .. Len(main') PROVE Height(main'[k]) <= Height(Tip')
      BY DEF CommitsInOrder, Height
    <3>1. CASE k \in 1 .. Len(main)
      <4>1. Height(main[k]) <= H /\ Height(main[k]) \in Nat
        BY <3>1, MainFacts, TreeFacts DEF CommitsInOrder, H
      <4> QED BY <2>1, <2>2, <2>4, <3>1, <4>1
    <3>2. CASE k = Len(main) + 1
      BY <2>1, <2>2, <2>4, <3>2
    <3> QED BY <2>3, <3>1, <3>2
  <2>11. RunKnows' /\ TxsTrue'
    <3>1. run'.pc = "none" /\ queue' <= Len(main')
      BY <1>1, <2>2, MainFacts DEF Fail, Waiting, RunKnows, TypeOK
    <3>2. RunKnows'
      BY <3>1 DEF RunKnows
    <3>3. TxsTrue'
      BY <1>1, <1>2 DEF TxsTrue
    <3> QED BY <3>2, <3>3
  <2>12. PoolNear' /\ BaseOneAhead'
    <3>1. Height(Tip)' = H + 1
      BY <2>1, <2>2 DEF Height
    <3>2. \A h \in Built : txs[h].st = "pool" => txs[h].index <= H + 1 /\ txs[h].index \in Nat
      BY RunAssumption DEF PoolNear, TypeOK, H
    <3>3. PoolNear'
      BY <1>1, <2>4, <3>1, <3>2 DEF PoolNear
    <3>4. BaseOneAhead'
      BY <1>2, <2>4, <2>6, <3>1 DEF BaseOneAhead
    <3> QED BY <3>3, <3>4
  <2>13. Accounted'
    <3> SUFFICES ASSUME NEW h \in Built, txs[h].st \in {"pool", "mined"}, ended[h] = "no"
                 PROVE  txs[h].st = "mined" /\ txs[h].index <= H + 1
      BY <1>1, <1>5, <2>1, <2>2 DEF Accounted, Height
    <3>1. CASE h = run.hash
      <4>1. txs[h].st = "mined" /\ txs[h].index = Height(Tree) + 1 /\ Tree = Tip
        BY <1>1, <1>5, <3>1 DEF RunKnows, Tree, Tip
      <4> QED BY <2>4, <4>1 DEF H
    <3>2. CASE h # run.hash
      <4>1. txs[h].st = "mined" /\ txs[h].index <= H
        BY <3>2 DEF Accounted, H
      <4>2. txs[h].index \in Nat
        BY RunAssumption DEF TypeOK
      <4> QED BY <2>4, <4>1, <4>2
    <3> QED BY <3>1, <3>2
  <2> QED BY <2>7, <2>8, <2>9, <2>10, <2>11, <2>12, <2>13
<1> QED BY <1>1, <1>4, <1>5 DEF Commit

-----------------------------------------------------------------------------
(* A transaction that leaves the pool: what the run knows still holds. *)
LEMMA PoolLeft ==
    ASSUME RunInv, NEW h \in Built, txs[h].st = "pool", NEW st \in {"mined", "reverted", "dropped"},
           txs' = [txs EXCEPT ![h].st = st],
           UNCHANGED <<main, queue, run, built, dispatched, ended>>, Contract!ContractTypeOK'
    PROVE  /\ TypeOK' /\ CommitsInOrder' /\ RunKnows' /\ PoolNear' /\ Accounted'
           /\ txs'[h].st = st /\ txs'[h].index = txs[h].index
           /\ \A g \in Built : g # h => txs'[g] = txs[g]
           /\ Tip' = Tip
<1> USE DEF RunInv
<1>1. /\ txs'[h].st = st /\ txs'[h].index = txs[h].index
      /\ \A g \in Built : g # h => txs'[g] = txs[g]
  BY DEF TypeOK
<1>2. TypeOK'
  <2>1. txs' \in [Built -> [st : {"unsent", "pool", "mined", "reverted", "dropped"}, index : 0 .. MaxIndex]]
    BY DEF TypeOK
  <2> QED BY <2>1 DEF TypeOK
<1>3. Tip' = Tip /\ CommitsInOrder'
  BY DEF Tip, Height, CommitsInOrder
<1>4. RunKnows'
  <2>1. Tree' = Tree /\ Height(Tree)' = Height(Tree)
    BY DEF Tree, Height
  <2>2. run.hash \in 1 .. built => run.hash \in Built
    BY RunAssumption DEF TypeOK, Built
  <2>3. txs[run.hash].st \in {"unsent", "mined"} /\ run.hash \in Built => txs'[run.hash] = txs[run.hash]
    BY <1>1
  <2>4. run.hash \in Built => txs'[run.hash].index = txs[run.hash].index
    BY <1>1
  <2> QED BY <2>1, <2>2, <2>3, <2>4 DEF RunKnows
<1>5. \A g \in Built : txs'[g].st = "pool" => txs[g].st = "pool" /\ txs'[g] = txs[g]
  BY <1>1
<1>6. PoolNear' /\ Accounted'
  <2>1. PoolNear'
    BY <1>3, <1>5 DEF PoolNear
  <2>2. Accounted'
    BY <1>1, <1>3 DEF Accounted, Height
  <2> QED BY <2>1, <2>2
<1> QED BY <1>1, <1>2, <1>3, <1>4, <1>6

(* One that leaves it and anchors nothing. *)
LEMMA PoolLeftInVain ==
    ASSUME RunInv, NEW h \in Built, txs[h].st = "pool", NEW st \in {"reverted", "dropped"},
           txs' = [txs EXCEPT ![h].st = st],
           UNCHANGED <<main, queue, run, built, dispatched, ended, contractVars>>
    PROVE  RunInv'
<1> USE DEF RunInv
<1>1. UNCHANGED <<owner, latestIndex, anchors>> /\ Contract!ContractTypeOK' /\ Contiguous'
  BY ContractStays DEF contractVars
<1>2. /\ TypeOK' /\ CommitsInOrder' /\ RunKnows' /\ PoolNear' /\ Accounted'
      /\ txs'[h].st = st /\ txs'[h].index = txs[h].index
      /\ \A g \in Built : g # h => txs'[g] = txs[g]
      /\ Tip' = Tip
  BY <1>1, PoolLeft
<1>3. \A g \in Built : /\ txs'[g].st \in {"mined", "unsent"} <=> txs[g].st \in {"mined", "unsent"}
                       /\ txs[g].st \in {"mined", "unsent"} => txs'[g] = txs[g]
  BY <1>2
<1>4. TxsTrue'
  BY <1>1, <1>3 DEF TxsTrue
<1>5. CommitsAnchored' /\ BaseOneAhead'
  BY <1>1, <1>2 DEF CommitsAnchored, BaseOneAhead, Height, Contract!Matches
<1> QED BY <1>1, <1>2, <1>4, <1>5

LEMMA LoseStep == ASSUME RunInv, NEW h \in Built, Lose(h) PROVE RunInv'
  BY PoolLeftInVain DEF Lose

LEMMA MineStep == ASSUME RunInv, NEW h \in Built, Mine(h) PROVE RunInv'
<1> USE DEF RunInv
<1>1. txs[h].st = "pool" /\ UNCHANGED <<main, queue, run, built, dispatched, ended>>
  BY DEF Mine
<1>3. CASE UNCHANGED contractVars /\ txs' = [txs EXCEPT ![h].st = "reverted"]
  BY <1>1, <1>3, PoolLeftInVain
<1>4. CASE Contract!Anchor(Account, txs[h].index, h) /\ txs' = [txs EXCEPT ![h].st = "mined"]
  <2> DEFINE i == txs[h].index
  <2> HIDE DEF i
  <2>1. i \in 0 .. MaxIndex /\ h \in Hashes /\ h # NoHash
    BY RunAssumption DEF TypeOK, Built, Hashes, i
  <2>2. /\ Contract!ContractTypeOK' /\ Contiguous'
        /\ i = latestIndex + 1 /\ latestIndex' = i /\ i \in 1 .. MaxIndex
        /\ anchors'[i] = h /\ anchors[i] = NoHash
        /\ \A j \in 0 .. MaxIndex : j # i => anchors'[j] = anchors[j]
    BY <1>4, <2>1, AnchorCall, RunAssumption DEF i
  <2>3. /\ TypeOK' /\ CommitsInOrder' /\ RunKnows' /\ PoolNear' /\ Accounted'
        /\ txs'[h].st = "mined" /\ txs'[h].index = i
        /\ \A g \in Built : g # h => txs'[g] = txs[g]
        /\ Tip' = Tip
    BY <1>1, <1>4, <2>2, PoolLeft DEF i
  <2>4. latestIndex \in 0 .. MaxIndex /\ \A k \in 1 .. Len(main) : Height(main[k]) \in Nat
    BY MainFacts, TreeFacts DEF TypeOK, Contract!ContractTypeOK, Contract!Index
  <2>5. CommitsAnchored'
    <3> SUFFICES ASSUME NEW k \in 1 .. Len(main)
                 PROVE  /\ Height(main[k]) <= latestIndex'
                        /\ \A j \in 0 .. Height(main[k]) : anchors'[j] = main[k].chain[j + 1]
                                                          /\ main[k].chain[j + 1] # NoHash
      BY <1>1 DEF CommitsAnchored, Height, Contract!Matches
    <3>1. Height(main[k]) <= latestIndex /\ Height(main[k]) \in Nat
      BY <2>4 DEF CommitsAnchored
    <3>2. \A j \in 0 .. Height(main[k]) : j \in 0 .. MaxIndex /\ j # i
      BY <2>2, <2>4, <3>1, RunAssumption
    <3>3. \A j \in 0 .. Height(main[k]) : anchors[j] = main[k].chain[j + 1] /\ main[k].chain[j + 1] # NoHash
      BY DEF CommitsAnchored, Contract!Matches
    <3>4. \A j \in 0 .. Height(main[k]) : anchors'[j] = anchors[j]
      BY <2>2, <3>2
    <3>5. Height(main[k]) <= latestIndex'
      BY <2>2, <2>4, <3>1
    <3> QED BY <3>3, <3>4, <3>5
  <2>6. TxsTrue'
    <3>1. \A g \in Built : txs'[g].st = "mined" => anchors'[txs'[g].index] = g
      <4> SUFFICES ASSUME NEW g \in Built, g # h, txs[g].st = "mined"
                   PROVE  anchors'[txs[g].index] = g
        BY <2>2, <2>3
      <4>1. anchors[txs[g].index] = g /\ g # NoHash /\ txs[g].index \in 0 .. MaxIndex
        BY RunAssumption DEF TxsTrue, TypeOK, Built
      <4> QED BY <2>2, <4>1
    <3>2. \A j \in 1 .. MaxIndex :
              anchors'[j] # NoHash =>
                  anchors'[j] \in Built /\ txs'[anchors'[j]].st = "mined" /\ txs'[anchors'[j]].index = j
      <4> SUFFICES ASSUME NEW j \in 1 .. MaxIndex, j # i, anchors[j] # NoHash
                   PROVE  anchors[j] \in Built /\ txs'[anchors[j]].st = "mined" /\ txs'[anchors[j]].index = j
        BY <2>2, <2>3
      <4>1. anchors[j] \in Built /\ txs[anchors[j]].st = "mined" /\ txs[anchors[j]].index = j
        BY DEF TxsTrue
      <4>2. anchors[j] # h
        BY <1>1, <4>1
      <4> QED BY <2>3, <4>1, <4>2
    <3>3. \A g \in Built : g > built => txs'[g].st = "unsent"
      BY <1>1, <2>3 DEF TxsTrue
    <3> QED BY <1>1, <3>1, <3>2, <3>3 DEF TxsTrue
  <2>7. BaseOneAhead'
    <3>1. i <= Height(Tip) + 1
      BY <1>1 DEF PoolNear, i
    <3> QED BY <2>2, <2>3, <3>1 DEF BaseOneAhead, Height
  <2> QED BY <2>2, <2>3, <2>5, <2>6, <2>7
<1> QED BY <1>1, <1>3, <1>4 DEF Mine

-----------------------------------------------------------------------------
LEMMA NextRunInv == RunInv /\ [Next]_vars => RunInv'
<1> SUFFICES ASSUME RunInv, [Next]_vars PROVE RunInv'
  OBVIOUS
<1>1. CASE (\E r \in Requests : PushRequest(r)) \/ DropRequest \/ MergeOther
  BY <1>1, CommitsOfOthers
<1>2. CASE Displaced \/ DispatchHead \/ \E rev \in 1 .. Len(main) : Dispatch(rev)
  BY <1>2, GroupChanges
<1>3. CASE StartRun
  BY <1>3, StartRunStep
<1>4. CASE WriteBlock
  BY <1>4, WriteBlockStep
<1>5. CASE Send
  BY <1>5, SendStep
<1>6. CASE Confirmed
  BY <1>6, ConfirmedStep
<1>7. CASE Commit
  BY <1>7, CommitStep
<1>8. CASE TimesOut \/ RunDies
  BY <1>8, RunDiesStep
<1>9. CASE \E h \in Built : Mine(h)
  BY <1>9, MineStep
<1>10. CASE \E h \in Built : Lose(h)
  BY <1>10, LoseStep
<1>11. CASE UNCHANGED vars
  <2>1. HeadAgain /\ queue' \in 0 .. Len(main') /\ dispatched' \in 0 .. MaxDispatch
    BY <1>11, MainFacts DEF RunInv, TypeOK, RunKnows, HeadAgain, vars, contractVars
  <2> QED BY <2>1, OthersStep
<1> QED BY <1>1, <1>2, <1>3, <1>4, <1>5, <1>6, <1>7, <1>8, <1>9, <1>10, <1>11 DEF Next

(* The invariant of a run, with the types, of every behaviour of block.yml. *)
THEOREM BlockRunInvariant == Spec => [](TypeOK /\ RunInv)
<1>0. RunInv => TypeOK
  BY DEF RunInv
<1>1. Init => RunInv
  BY InitRunInv
<1>2. RunInv /\ [Next]_vars => RunInv'
  BY NextRunInv
<1> QED BY <1>0, <1>1, <1>2, PTL DEF Spec

(* Every block of main is the block Base holds, whatever runs died, were     *)
(* displaced, started again or worked from an old checkout: only a run that  *)
(* saw its transaction mined commits, and only on the commit it checked out. *)
THEOREM BlockRunMainMatchesBase == Spec => []MainMatchesBase
<1>1. RunInv => MainMatchesBase
  BY MainFacts DEF RunInv, CommitsAnchored, MainMatchesBase
<1> QED BY <1>1, BlockRunInvariant, PTL

(* Base is one block ahead of main at most: a run sends for the index after  *)
(* its checkout's, which is no further than main's head.                     *)
THEOREM BlockRunBaseOneAhead == Spec => []BaseOneAhead
<1>1. RunInv => BaseOneAhead
  BY DEF RunInv
<1> QED BY <1>1, BlockRunInvariant, PTL

(* A block that Base holds comes to main unless its own run dies or its push *)
(* is refused, whatever becomes of the other runs and their transactions.    *)
THEOREM BlockRunAnchoredIsKept == Spec => []AnchoredIsKept
<1>1. ASSUME RunInv PROVE AnchoredIsKept
  <2> USE <1>1 DEF RunInv
  <2> SUFFICES ASSUME NEW i \in 1 .. MaxIndex, anchors[i] # NoHash
               PROVE  \/ i <= Height(Tip) /\ Tip.chain[i + 1] = anchors[i]
                      \/ run.hash = anchors[i] /\ run.pc \in {"wait", "commit"}
                      \/ ended[anchors[i]] # "no"
    BY DEF AnchoredIsKept
  <2> DEFINE h == anchors[i]
  <2>1. h \in Built /\ txs[h].st = "mined" /\ txs[h].index = i
    BY DEF TxsTrue
  <2>2. CASE i <= Height(Tip)
    <3>1. /\ Height(Tip) \in Nat /\ Len(main) \in 1 .. Len(main) /\ Tip = main[Len(main)]
      BY MainFacts, TreeFacts
    <3>2. \A k \in 0 .. Height(Tip) : Tip.chain[k + 1] = anchors[k]
      BY <3>1 DEF CommitsAnchored, Contract!Matches
    <3> QED BY <2>2, <3>1, <3>2
  <2> QED BY <2>1, <2>2 DEF Accounted
<1> QED BY <1>1, BlockRunInvariant, PTL

(* A sequence is a prefix of any that agrees with it as far as it goes. *)
LEMMA PrefixOf ==
    ASSUME NEW S, NEW s \in Seq(S), NEW t \in Seq(S), Len(s) <= Len(t),
           \A i \in 1 .. Len(s) : t[i] = s[i]
    PROVE  IsPrefix(s, t)
<1>1. Len(s) \in Nat /\ Len(t) \in Nat /\ \A i \in 1 .. Len(s) : s[i] \in S /\ t[i] \in S
  BY LenProperties, ElementOfSeq
<1>2. /\ SubSeq(s, 1, Len(s)) \in Seq(S) /\ Len(SubSeq(s, 1, Len(s))) = Len(s)
      /\ \A i \in 1 .. Len(s) : SubSeq(s, 1, Len(s))[i] = s[i]
  BY <1>1, SubSeqProperties
<1>3. /\ SubSeq(t, 1, Len(s)) \in Seq(S) /\ Len(SubSeq(t, 1, Len(s))) = Len(s)
      /\ \A i \in 1 .. Len(s) : SubSeq(t, 1, Len(s))[i] = t[i]
  BY <1>1, SubSeqProperties
<1>4. SubSeq(s, 1, Len(s)) = SubSeq(t, 1, Len(s))
  BY <1>2, <1>3, SeqEqual
<1> QED BY <1>4 DEF IsPrefix

LEMMA TipGrows == ASSUME RunInv, [Next]_vars PROVE IsPrefix(Tip.chain, Tip'.chain)
<1> USE DEF RunInv
<1>0. /\ Tip \in Trees /\ Tip.chain \in Seq(Hashes) /\ Len(Tip.chain) = Height(Tip) + 1
      /\ Height(Tip) \in Nat
  BY MainFacts, TreeFacts
<1>1. ASSUME Tip'.chain = Tip.chain PROVE IsPrefix(Tip.chain, Tip'.chain)
  BY <1>0, <1>1, PrefixOf
<1>2. CASE (\E r \in Requests : PushRequest(r)) \/ DropRequest \/ MergeOther
  <2>1. PICK tree \in Trees : Len(main) < MaxRev /\ CommitOn(tree) /\ tree.chain = Tip.chain
    BY <1>2, HeadCommits
  <2> QED BY <1>1, <2>1, CommitFacts
<1>3. CASE Commit
  <2>1. CASE UNCHANGED main
    BY <1>1, <2>1 DEF Tip
  <2>2. CASE run.rev = Len(main) /\ Len(main) < MaxRev /\ CommitOn(PushedBlock)
    <3>1. run.pc = "commit"
      BY <1>3 DEF Commit
    <3>2. /\ PushedBlock \in Trees /\ Height(PushedBlock) = Height(Tip) + 1
          /\ \A i \in 0 .. Height(Tip) : PushedBlock.chain[i + 1] = Tip.chain[i + 1]
      BY <2>2, <3>1, PushFacts
    <3>3. PushedBlock.chain \in Seq(Hashes) /\ Len(PushedBlock.chain) = Height(Tip) + 2
      BY <1>0, <3>2, TreeFacts
    <3>4. \A i \in 1 .. Len(Tip.chain) : PushedBlock.chain[i] = Tip.chain[i]
      <4>1. \A i \in 1 .. Len(Tip.chain) : i - 1 \in 0 .. Height(Tip) /\ (i - 1) + 1 = i
        BY <1>0
      <4> QED BY <3>2, <4>1
    <3>5. IsPrefix(Tip.chain, PushedBlock.chain)
      BY <1>0, <3>3, <3>4, PrefixOf
    <3> QED BY <2>2, <3>2, <3>5, CommitFacts
  <2> QED BY <1>3, <2>1, <2>2 DEF Commit, PushedBlock
<1>4. CASE UNCHANGED main
  BY <1>1, <1>4 DEF Tip
<1>5. UNCHANGED main \/ Commit \/ (\E r \in Requests : PushRequest(r)) \/ DropRequest \/ MergeOther
  BY DEF Next, vars, Dispatch, DispatchHead, Displaced, StartRun, WriteBlock, Send, Confirmed, TimesOut, RunDies, Mine, Lose
<1> QED BY <1>2, <1>3, <1>4, <1>5

(* main never loses or rewrites a block.  A run commits on its own checkout,  *)
(* so this rests on the push that is no fast-forward being refused.          *)
THEOREM BlockRunMainGrows == Spec => MainGrows
<1>1. RunInv /\ [Next]_vars => IsPrefix(Tip.chain, Tip'.chain)
  BY TipGrows
<1> QED BY <1>1, BlockRunInvariant, PTL DEF Spec, MainGrows
=============================================================================
