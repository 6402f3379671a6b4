------------------------------ MODULE BlockRun ------------------------------
(***************************************************************************)
(* How a block comes to be: .github/workflows/block.yml, the branch main it *)
(* commits to, the person who pushes requests and merges nightly's pull     *)
(* request, and the contract.  A run works in a fresh checkout of the       *)
(* commit that triggered it and leaves nothing behind but what it pushed    *)
(* and what it sent to Base.  So `reconcile`, its first step, never finds a *)
(* marker: a marker is only ever in the checkout of the run that made it,   *)
(* and that run commits only after it has removed it.  BaseAnchor models    *)
(* what anchor_with_marker does with its files; here it is what it sends.   *)
(***************************************************************************)
EXTENDS Naturals, Sequences, SequencesExt

CONSTANTS
    MaxIndex,     \* bound on the block indices
    MaxBuilt,     \* bound on the blocks built, and so on their hashes
    MaxRev,       \* bound on the commits on main
    MaxDispatch,  \* bound on the runs started by hand
    Account, NoHash,
    NoRequest     \* no file in ledger/requests

ASSUME RunAssumption ==
    /\ MaxIndex \in Nat /\ MaxBuilt \in Nat /\ MaxRev \in Nat \ {0} /\ MaxDispatch \in Nat
    /\ NoHash \notin 0 .. MaxBuilt
    /\ NoRequest \notin [index : Nat, prev : Nat]

VARIABLES
    main,        \* the commits of main: what each has in ledger/blocks and ledger/requests
    queue,       \* the one run the concurrency group lets wait: its commit, 0 for none
    run,         \* the one run the group lets run
    built,       \* blocks built so far; each gets a hash of its own
    txs,         \* the transactions sent for each block built
    dispatched,  \* earlier runs started again so far
    ended,       \* for each block built, whether the run that built it died, or its push
                 \* was refused; kept for the properties, no step reads it
    owner, latestIndex, anchors    \* the contract

contractVars == <<owner, latestIndex, anchors>>
vars == <<main, queue, run, built, txs, dispatched, ended, owner, latestIndex, anchors>>

Hashes == 0 .. MaxBuilt      \* 0 is the hash of block 0
Built == 1 .. MaxBuilt

Contract == INSTANCE AikiriLedger WITH Accounts <- {Account}, GenesisHash <- 0

Tip == main[Len(main)]
Height(tree) == Len(tree.chain) - 1

(* `request`, or `seal`, run in a checkout of that tree. *)
RequestFor(tree) == [index |-> Height(tree) + 1, prev |-> Last(tree.chain)]

Waiting == [pc |-> "none", rev |-> 0, hash |-> 0]      \* no run

Requests == [index : 1 .. MaxIndex, prev : Hashes]
Trees == [chain : Seq(Hashes) \ {<<>>}, request : Requests \cup {NoRequest}]

TypeOK ==
    /\ Contract!ContractTypeOK
    /\ main \in Seq(Trees) /\ Len(main) \in 1 .. MaxRev
    /\ queue \in 0 .. MaxRev
    /\ run \in [pc : {"none", "block", "send", "wait", "commit"}, rev : 0 .. MaxRev, hash : Hashes]
    /\ built \in 0 .. MaxBuilt
    /\ txs \in [Built -> [st : {"unsent", "pool", "mined", "reverted", "dropped"},
                          index : 0 .. MaxIndex]]
    /\ dispatched \in 0 .. MaxDispatch
    /\ ended \in [Built -> {"no", "died", "refused"}]

Init ==
    /\ Contract!ContractInit
    /\ main = << [chain |-> <<0>>, request |-> NoRequest] >>
    /\ queue = 0
    /\ run = Waiting
    /\ built = 0
    /\ txs = [h \in Built |-> [st |-> "unsent", index |-> 0]]
    /\ dispatched = 0
    /\ ended = [h \in Built |-> "no"]

-----------------------------------------------------------------------------
(* The person at her checkout.  git refuses a push that is not a fast-forward, *)
(* so each of these is a commit on top of main.  A push of a request triggers  *)
(* a run at that commit; a run that already waits in the group is cancelled.   *)
CommitOn(tree) == main' = Append(main, tree)

(* A bug: the request is forced over main. *)
PushRequestForced(r) ==
    /\ Len(main) < MaxRev - 1     \* the last commit is left to a run
    /\ \E k \in 1 .. Len(main) :
          r = RequestFor(main[k]) /\ CommitOn([main[k] EXCEPT !.request = r])
    /\ r.index <= MaxIndex
    /\ queue' = Len(main) + 1
    /\ UNCHANGED <<run, built, txs, dispatched, ended, contractVars>>
PushRequest(r) ==
    /\ Len(main) < MaxRev - 1
    /\ Tip.request = NoRequest
    /\ \E k \in 1 .. Len(main) : r = RequestFor(main[k])
    /\ r.index <= MaxIndex
    /\ CommitOn([Tip EXCEPT !.request = r])
    /\ queue' = Len(main) + 1
    /\ UNCHANGED <<run, built, txs, dispatched, ended, contractVars>>

(* She takes back a request that no run will ever accept.  That push changes  *)
(* ledger/requests as well, so it, too, triggers a run, which has no request. *)
DropRequest ==
    /\ Len(main) < MaxRev - 1
    /\ Tip.request \notin {NoRequest, RequestFor(Tip)}
    /\ CommitOn([Tip EXCEPT !.request = NoRequest])
    /\ queue' = Len(main) + 1
    /\ UNCHANGED <<run, built, txs, dispatched, ended, contractVars>>

(* Nightly's pull request, or any other commit that leaves blocks and requests alone. *)
MergeOther ==
    /\ Len(main) < MaxRev - 1
    /\ CommitOn(Tip)
    /\ UNCHANGED <<queue, run, built, txs, dispatched, ended, contractVars>>

(* An earlier run is started again, at its commit, or one is dispatched at the *)
(* head at any time ...                                                       *)
Dispatch(rev) ==
    /\ dispatched < MaxDispatch
    /\ queue' = rev
    /\ dispatched' = dispatched + 1
    /\ UNCHANGED <<main, run, built, txs, ended, contractVars>>

(* ... and she dispatches one when an alert tells her that the run of a request *)
(* was cancelled or failed, and nothing waits or works any more.               *)
DispatchHead ==
    /\ queue = 0 /\ run.pc = "none"
    /\ Tip.request # NoRequest
    /\ queue' = Len(main)
    /\ UNCHANGED <<main, run, built, txs, dispatched, ended, contractVars>>

(* A run of nightly.yml, deploy.yml or genesis.yml joins the group: the run that *)
(* waits there is cancelled.  What that other run does is left out.              *)
Displaced ==
    /\ queue # 0
    /\ queue' = 0
    /\ UNCHANGED <<main, run, built, txs, dispatched, ended, contractVars>>

-----------------------------------------------------------------------------
(* The run *)

Tree == main[run.rev]       \* the checkout
Goto(pc) == run' = [run EXCEPT !.pc = pc]
Fail == run' = Waiting
Leaves(how) == ended' = [h \in Built |-> IF h = run.hash THEN how ELSE ended[h]]

(* The group is free and the environment is approved: the run checks out its commit. *)
StartRun ==
    /\ run.pc = "none"
    /\ queue # 0
    /\ run' = [pc |-> "block", rev |-> queue, hash |-> 0]
    /\ queue' = 0
    /\ UNCHANGED <<main, built, txs, dispatched, ended, contractVars>>

(* `block`: one request, which must be for the head of this checkout.  The   *)
(* timestamp makes the block's hash its own, whatever runs wrote before.     *)
WriteBlock ==
    /\ run.pc = "block"
    /\ \/ /\ Tree.request = RequestFor(Tree)
          /\ built < MaxBuilt
          /\ built' = built + 1
          /\ run' = [run EXCEPT !.pc = "send", !.hash = built + 1]
       \/ /\ Tree.request # RequestFor(Tree)
          /\ Fail
          /\ UNCHANGED built
    /\ UNCHANGED <<main, queue, txs, dispatched, ended, contractVars>>

(* A bug: the index is asked of Base instead of taken from the block. *)
SendAtLatest ==
    /\ run.pc = "send"
    /\ latestIndex < MaxIndex
    /\ txs' = [txs EXCEPT ![run.hash] = [st |-> "pool", index |-> latestIndex + 1]]
    /\ Goto("wait")
    /\ UNCHANGED <<main, queue, built, dispatched, ended, contractVars>>

(* `witness`: the call is estimated, then broadcast; or the estimate reverts. *)
Send ==
    /\ run.pc = "send"
    /\ LET i == Height(Tree) + 1
       IN  \/ /\ ~Contract!Reverts(Account, i, run.hash)
              /\ txs' = [txs EXCEPT ![run.hash] = [st |-> "pool", index |-> i]]
              /\ Goto("wait")
           \/ /\ Contract!Reverts(Account, i, run.hash)
              /\ Fail
              /\ UNCHANGED txs
    /\ UNCHANGED <<main, queue, built, dispatched, ended, contractVars>>

(* A bug: the receipt's status is not looked at. *)
ConfirmedAnyStatus ==
    /\ run.pc = "wait"
    /\ txs[run.hash].st \in {"mined", "reverted"}
    /\ Goto("commit")
    /\ UNCHANGED <<main, queue, built, txs, dispatched, ended, contractVars>>

Confirmed ==
    /\ run.pc = "wait"
    /\ \/ txs[run.hash].st = "mined" /\ Goto("commit")
       \/ txs[run.hash].st = "reverted" /\ Fail
    /\ UNCHANGED <<main, queue, built, txs, dispatched, ended, contractVars>>

(* Bugs: the block's hash is not what is committed, or ledger/blocks is left out. *)
CommitBlank ==
    /\ run.pc = "commit"
    /\ run.rev = Len(main)
    /\ Len(main) < MaxRev
    /\ CommitOn([chain |-> Append(Tree.chain, NoHash), request |-> NoRequest])
    /\ Fail
    /\ UNCHANGED <<queue, built, txs, dispatched, ended, contractVars>>
CommitProofsOnly ==
    /\ run.pc = "commit"
    /\ run.rev = Len(main)
    /\ Len(main) < MaxRev
    /\ CommitOn([Tree EXCEPT !.request = NoRequest])
    /\ Fail
    /\ UNCHANGED <<queue, built, txs, dispatched, ended, contractVars>>

(* Commits the block and pushes it, if main is still what was checked out. *)
Commit ==
    /\ run.pc = "commit"
    /\ \/ /\ run.rev = Len(main)
          /\ Len(main) < MaxRev
          /\ CommitOn([chain |-> Append(Tree.chain, run.hash), request |-> NoRequest])
          /\ UNCHANGED ended
       \/ /\ run.rev # Len(main)        \* rejected: not a fast-forward
          /\ Leaves("refused")
          /\ UNCHANGED main
    /\ Fail                             \* the run ends, red or green
    /\ UNCHANGED <<queue, built, txs, dispatched, contractVars>>

(* A bug: only a receipt ends the wait. *)
TimesOutNever ==
    /\ run.pc = "wait"
    /\ txs[run.hash].st \in {"mined", "reverted"}
    /\ Fail
    /\ Leaves("died")
    /\ UNCHANGED <<main, queue, built, txs, dispatched, contractVars>>

(* No receipt is seen in time, whatever became of the transaction. *)
TimesOut ==
    /\ run.pc = "wait"
    /\ Fail
    /\ Leaves("died")
    /\ UNCHANGED <<main, queue, built, txs, dispatched, contractVars>>

(* The run is cancelled, or its runner is lost. *)
RunDies ==
    /\ run.pc # "none"
    /\ Fail
    /\ Leaves("died")
    /\ UNCHANGED <<main, queue, built, txs, dispatched, contractVars>>

-----------------------------------------------------------------------------
(* Base *)
Mine(h) ==
    /\ txs[h].st = "pool"
    /\ \/ /\ Contract!Anchor(Account, txs[h].index, h)
          /\ txs' = [txs EXCEPT ![h].st = "mined"]
       \/ /\ Contract!Reverts(Account, txs[h].index, h)
          /\ txs' = [txs EXCEPT ![h].st = "reverted"]
          /\ UNCHANGED contractVars
    /\ UNCHANGED <<main, queue, run, built, dispatched, ended>>

Lose(h) ==
    /\ txs[h].st = "pool"
    /\ txs' = [txs EXCEPT ![h].st = "dropped"]
    /\ UNCHANGED <<main, queue, run, built, dispatched, ended, contractVars>>

RunStep == StartRun \/ WriteBlock \/ Send \/ Confirmed \/ Commit

Next ==
    \/ \E r \in Requests : PushRequest(r)
    \/ DropRequest
    \/ MergeOther
    \/ \E rev \in 1 .. Len(main) : Dispatch(rev)
    \/ DispatchHead
    \/ Displaced
    \/ StartRun
    \/ WriteBlock
    \/ Send
    \/ Confirmed
    \/ Commit
    \/ TimesOut
    \/ RunDies
    \/ \E h \in Built : Mine(h)
    \/ \E h \in Built : Lose(h)

Spec == Init /\ [][Next]_vars

(* A run goes on until it ends, its wait for the receipt too, and Base mines   *)
(* what it is sent.  Nothing waits and works for ever without a run for a       *)
(* request: she is told that a run "fails or is cancelled" (alerts.yml:4-6) and *)
(* dispatches another, and of those not every one is displaced in the queue or  *)
(* dies before it has written its block.                                       *)
Fairness ==
    /\ WF_vars(RunStep)
    /\ WF_vars(TimesOut)
    /\ \A h \in Built : WF_vars(Mine(h))
    /\ WF_vars(DispatchHead)
    /\ SF_vars(StartRun)
    /\ SF_vars(WriteBlock)

FairSpec == Spec /\ Fairness

-----------------------------------------------------------------------------
(* Every block of main is the block Base holds: a run commits only what it   *)
(* has seen anchored, whatever other runs, retries and commits there were.   *)
MainMatchesBase ==
    \A i \in 0 .. Height(Tip) : Contract!Matches(i, Tip.chain[i + 1])

(* main only ever grows: no commit rewrites or drops a block, though runs    *)
(* work from checkouts that may be old ("Append-only. Nothing is rewritten"). *)
MainGrows == [][IsPrefix(Tip.chain, Tip'.chain)]_vars

(* Base is at most one block ahead of main, so that one lost block at most   *)
(* has to be found again by hand.                                            *)
BaseOneAhead == latestIndex <= Height(Tip) + 1

(* "If the receipt lookup times out, this marker is what stops the next run   *)
(* from sending a second one" (chain.py:327): no run sends a transaction for  *)
(* an index while another one for that index is in flight.                    *)
OneInFlight ==
    \A g, h \in Built :
        txs[g].st = "pool" /\ txs[h].st = "pool" /\ txs[g].index = txs[h].index => g = h

(* "The Base anchor cannot be taken back" (block.yml:3): a block that Base      *)
(* holds is on main, or its run still works on bringing it there.  There are two *)
(* ways to lose one: its own run dies, or its push is refused because something  *)
(* else came to main.  No other run's death, retry, old checkout or transaction  *)
(* left in the pool does it.                                                   *)
AnchoredIsKept ==
    \A i \in 1 .. MaxIndex : anchors[i] # NoHash =>
        \/ i <= Height(Tip) /\ Tip.chain[i + 1] = anchors[i]
        \/ run.hash = anchors[i] /\ run.pc \in {"wait", "commit"}
        \/ ended[anchors[i]] # "no"

(* A request for the head of main is sealed in the end, or another one for the  *)
(* same index is, though its run may be displaced in the queue, time out on a   *)
(* transaction that Base forgot, or die.  The exception is a block that Base     *)
(* already holds for that index and whose run has lost it; and the bound.       *)
RequestSealed ==
    \A i \in 1 .. MaxIndex :
        (Height(Tip) = i - 1 /\ Tip.request = RequestFor(Tip))
            ~> (\/ Height(Tip) >= i
                \/ anchors[i] # NoHash /\ ended[anchors[i]] # "no"
                \/ built = MaxBuilt)
=============================================================================
