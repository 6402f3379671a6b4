# A TLA+ model of the Aikiri ledger

The Aikiri ledger is an append-only chain of small JSON blocks in a git repository. Every block is
approved by a registered device, signed by a validator, anchored on the contract `AikiriLedger` on
Base, and stamped into Bitcoin with OpenTimestamps. Little of it runs in parallel on purpose; most
of what can go wrong lies between two file operations, between a transaction and its receipt, or
between two GitHub runs. That is what is modelled here.

Paths are relative to the repository; module names are files of this directory.

## 1. Inventory

| Component | Code | State it keeps | Operations | Model |
|---|---|---|---|---|
| Witness contract | `contracts/AikiriLedger.sol` | `owner`, `latestIndex`, `anchors` | `anchor`, `matches`, `transferOwnership`, constructor | `AikiriLedger` |
| Anchoring | `chain.py` (`write_pending`, `anchor_with_marker`, `reconcile`), `witness.py` (`BaseWitness.anchor`, `write_base_receipt`) | pending markers and receipts under `ledger/proofs`; transactions in Base's pool | `witness`, `reconcile` | `BaseAnchor` |
| Block directory | `chain.py` (`Ledger`) | `ledger/blocks/*.json`, their `.tmp`, `HEAD` | `init`, `append_from_request`, `consume`, `_append` | `LedgerStore` |
| Local verification | `verify.py` (`verify_chain`) | none | `verify` | `LedgerStore` (`VerifyChain`) |
| Requests and approvals | `request.py`, `approval.py` | the sealed request | `parse`, `verify_approval`, `approve` | in `LedgerStore`; `approve` in `Seal` |
| Trust anchor | `trust.py`, `cli.py` | the trust file's devices | `enroll`, dropping a device, `load` | in `LedgerStore` and `VerifyAll`, partly |
| Block run | `.github/workflows/block.yml` | the branch main, the concurrency group | trigger, write, witness, commit and push | `BlockRun` |
| Nightly run | `.github/workflows/nightly.yml` | a pull request; its checkout lasts one night | upgrade, stamp, propose; a person merges | `Nightly` |
| Bitcoin proof files | `witness.py` (`BitcoinWitness`), `cli.py` | `NNNNNN.hash`, `.hash.ots`, `.hash.ots.bak` | `stamp`, `upgrade`, `settle_backup` | `OtsProof` |
| Verification against Base and Bitcoin | `verify.py` (`verify_all`) | none | `verify --rpc ...` | `VerifyAll` |
| RPC quorum | `witness.py` (`QuorumBase`) | none; the nodes keep Base | `common_block`, `_gather` | `VerifyAll` |
| Bitcoin header lookup | `witness.py` (`BitcoinWitness.verify`, `_check`, `_header`, `_look_up`, `_from_public`, `_within`) | a cache, the state of the own node and a shared deadline, for one `verify` | `verify` of a block's proof | `BitcoinLookup` |
| Deployment | `witness.py`, `cli.py`, `deploy.yml`, `genesis.yml` | `config.json`, `deploy.json`, block 0 on main; the account's transactions | `init`, `deploy`, `find_deployment`, `find_creation_block` | `Deploy` |
| Sealing and reporting | `seal.py`, `cli.py`, the last step of `block.yml` | `requests/next.json` and the commits of each checkout; what the app was told | `seal --push`, `approve`, `report-block` | `Seal` |
| Software key, canonical JSON, approval device, alerts, CI, demo, tests | | | | not modelled (section 8) |

### How the components interact

The ledger begins with one run of `genesis.yml`, which commits block 0, and one of `deploy.yml`, which
deploys the contract with that block's hash in it and commits its address.

From then on, a person makes a request for the head of her checkout (`request` or `seal`), approves it and pushes it.
The push triggers `block.yml`, which runs `reconcile`, `block` (block directory), `witness` (anchoring,
then a stamp), commits and pushes. Runs that write share a concurrency group: one runs, one waits, a
later one cancels the one that waits, and `alerts.yml` tells a person. `nightly.yml` runs `upgrade` and `stamp` in a fresh checkout of main and
proposes the proofs as a pull request, so that main can move at any time. When the block is on main, the run tells the
app that issued the document; the same `seal` line, run again, tells it too. `verify`, on anybody's machine, reads the
directory, the trust anchor, the contract through several nodes, and the Bitcoin proofs. Shared state
is therefore the files of one checkout, the branch main, the contract and the transaction pool.

### What is hard here, and what makes each component correct

*Contract.* Any account may call it in any order. Indices must have no gaps, and no index may be
anchored twice.

*Anchoring.* The broadcast may be mined and its answer lost; the receipt may come too late; the
process may be killed between any two file operations; a node may answer from an older block; another
checkout of the same wallet may take an index. A receipt must be true of the contract; no second
transaction may go out while the first can still be mined; what is mined must get its receipt.

*Block directory.* Block, temporary file and `HEAD` are written one after the other. What the
writer accepts, the verifier must accept; a kill may cost `HEAD` only; the directory must only grow.

*Block run.* A run works in a checkout that may be old, and its files die with it. main must hold
what Base holds; Base must not run ahead by more than the block being written; a pushed request must be sealed in the end.

*Bitcoin proof files.* The `ots` tool renames, creates and writes; either process may die in between.
No proof may be lost or replaced by an earlier one, and no backup mistaken for another proof's.

*Nightly run.* What it stamps or upgrades is gone with its runner unless a person merges it; the next night starts from main again, and
replaces or closes the request of the last. A merge must not put an earlier proof over main's, and a block must get its complete proof on main.

*Verification.* Nodes lag behind, fail or lie, and Base grows between two reads. A verified verdict must be
true of Base and no older than the nodes were when `verify` began.

*Bitcoin header lookup.* The person's node or a public source may keep silent, fail, lag or lie. All lookups share
one budget of time, and a call that outlasts it goes on in its thread. A proof that is called complete must be carried;
what could not be looked up must fail nothing; a late answer must not reach another question; `verify` must end.

*Deployment.* It sends a transaction whose only trace, if the run dies, is on Base, and is dispatched again. There must be one
contract per genesis block, main must record where it is, and a run from an old commit must replace nothing.

*Sealing.* One line is pasted again and again, on machines whose checkouts are behind, with requests left lying in
files, commits or on main. No document may be sealed twice, no report may be untrue, and pasting on must get it sealed.

`PROJECT.json` lists every hazard at its line with the properties aimed at it.

## 2. Modules

| Module | What it is |
|---|---|
| `AppendOnlyLog` | The abstract specification: a log that only grows. Implemented by the contract and by the block directory. |
| `AikiriLedger` | The contract. `BaseAnchor` and `BlockRun` INSTANCE it. |
| `BaseAnchor` | Anchoring and reconciling over one `proofs` directory, with the contract inside. |
| `LedgerStore` | The block directory, its writers, and `verify_chain`. |
| `BlockRun` | `block.yml`, main, the people who push to it, and the contract. Composes at the level of commits and transactions what `BaseAnchor` and `LedgerStore` describe at the level of files. |
| `OtsProof` | The proof files of one block under `stamp` and `upgrade`, in one directory. |
| `Nightly` | Whose directory that is: a person's, which stays, or `nightly.yml`'s fresh checkout of main, with its pull request and the merge. EXTENDS `OtsProof`. |
| `VerifyAll` | `verify_all` and the quorum, over a growing Base. |
| `BitcoinLookup` | The Bitcoin half of `verify`, block after block, with its cache, its node, its public sources and its clock. `VerifyAll` takes its result as an input. |
| `Deploy` | `genesis.yml` and `deploy.yml` over main and the account's transactions. |
| `Seal` | `seal --push` on several machines, git, and a run of `block.yml` as one step. |
| `MC*` | Constants for TLC. |
| `ContractProofs` | Theorems about `AikiriLedger` and `Deploy`, which share no name: what the contract keeps, and how it comes to be. |
| `BaseAnchorProofs`, `LedgerStoreProofs`, `BlockRunProofs`, `VerifyAllProofs`, `BitcoinLookupProofs`, `SealProofs` | Theorems about the module of that name. |
| `OtsProofProofs` | Theorems about `OtsProof` and `Nightly`. |

Operators under a comment "A bug:" (or "Bugs:") are not used by the specifications. Each is a plausible error
in the operator it stands before, and shows that a property would notice it.

### Correspondence with the code

- **`AikiriLedger`**: `Reverts` is the four errors of `anchor`, `Anchor` the call that goes through,
  `Matches` the view function. The block's time and caller, and events, are left out.
- **`BaseAnchor`**: a process walks `idle -> claim -> fill -> send -> wait -> update -> open -> write ->
  unlink`, or, in reconcile, `idle -> scan -> match -> open -> write -> unlink -> scan`. `StartAnchor` is
  the `exists()` test of `base.json`; `Claim` the `O_EXCL` creation; `Fill` the marker's text and its
  fsync; `Send` the broadcast, after a gas estimate that a lagging node may pass (`EstimatePasses`),
  and its answer may be lost; `Confirmed` and `TimesOut` the wait for the receipt; `UpdateMarker` the temporary file and `os.replace`
  (one step: no other process can see the temporary file); `OpenReceipt` and `WriteReceipt` the
  truncation and the text of `base.json`, which is written in place; `Unlink` the marker's removal.
  `StartReconcile` takes the sorted list of markers, `ReadMarker` raises on a torn one and so leaves
  the markers after it, `NotOnChain` and `OnChain` are `matches()`. `RemoveMarker` is the person to
  whom both error messages turn: it is enabled only when no command runs, no transaction of that block can
  still be mined, and the marker is unreadable or the contract does not hold the block. `ForeignAnchor` is another checkout.
- **`LedgerStore`**: `BuildBlock` is `append_from_request` up to the signed block, `CheckExists`,
  `OpenTmp`, `WriteTmp`, `Replace`, `OpenHead` and `WriteHead` are `_append`; `BuildGenesis` is `init`.
  `VerifyChain` is `verify_chain`; its conjuncts are named for the checks. Hashes are drawn afresh, so
  no two builds collide. `serial`, chosen at the start, says whether commands run one at a time, as the concurrency group
  has it, or race over the directory (`MayStart`).
- **`BlockRun`**: `PushRequest`, `DropRequest`, `MergeOther`, `Dispatch` are people; the first two change `ledger/requests`, so their push
  triggers a run. `DispatchHead` is the person whom an alert tells that a run failed or was cancelled (`alerts.yml:4-6`). `Displaced` is
  another workflow that joins the group; `StartRun`, `WriteBlock`, `Send`, `Confirmed`, `Commit` are the
  steps of `block.yml`, `TimesOut` the end of the wait for a receipt, and `RunDies` whatever else ends a run between two of them. `reconcile` finds nothing in
  a fresh checkout, since a run commits only after it has removed its own marker; so it is no step here.
  `ended` is a history variable: how the run of each block ended, if not well. No action reads it.
- **`OtsProof`**: `Start`, `Settle` (`settle_backup`), `Look`, then either `Digest` ... `Stamped` /
  `Clean`, or `NothingNew` / `Rename` / `Create` / `Upgrade`, `Resettle`, `Judge`. The steps in between
  are those of the `ots` tool as the comments of `witness.py` describe them; the tool itself is external.
- **`Nightly`**: the place is chosen at the start. `Home` is any command in a person's directory. A night is `Checkout` (`nightly.yml:32`: main's files, no
  backup), `StartUpgrade` and `StartStamp` (`:40-43`; `|| true`, so the second does not ask how the first ended), their steps (`CommandStep`), and
  `Propose` (`:44-60`): the request is made anew from this night's files, or closed if nothing differs from the checkout, and the runner goes. `CommandKilled` and
  `JobLost` cut a night off. `Merge` is the person; git merges a request only if the files on main are still those it was made from.
  A *calm* night, chosen at `Checkout`, is one on which nothing fails and Bitcoin has gone on (`Smooth`); liveness needs some, safety holds on all.
- **`VerifyAll`**: `CheckChain`, `ReadPins`, `ReadLatest`, `MatchBlock`, `ReadRecord`, `Judge` follow
  `verify_all`. `Gather` says what a quorum can answer, or that it raises; `CommonBlocks` is
  `common_block`, asked anew by every read as the code does. What is on disk, what Base holds another
  hash for, which nodes lie and what Bitcoin says is a `world` chosen at the start.

- **`BitcoinLookup`**: `OpenProof` is `_check` up to the loop over a proof's attestations, `Compare` and `GiveUp` that
  loop, `LookUp` the order of `_look_up` (the node until it fails, then the public sources, if they are on),
  `Begin` the start of `_within`, `Answer` its thread, `NodeAnswered`, `HashAnswered` and `RawAnswered` what comes
  back in time, `OutOfTime` what does not; `Cached` the entry of `_header`, of a header or of a refusal. `behind` is the thread left
  running, `LateAnswer` its end. A header is named by its height; `Forged` is one made for the occasion, with too little
  work, that carries whatever its author likes. Proofs, the sources that lie and whether they are on are chosen at the start.
- **`Deploy`**: `StartGenesis` is the guard and `init` of `genesis.yml`; `StartDeploy`, `Count`, `LookPast`, `LookSkipped`,
  `LookFound` are `find_deployment`; `AskHeight`, `Halve`, `AskReceipt` are `find_creation_block` and the event at its end;
  `Send`, `Confirmed`, `TimesOut` are `BaseWitness.deploy`; `CodeSeen` is `wait_for_code`; `CheckAndWrite` the assertion and both files; `Push`
  the commit. A contract is named by the nonce that made it (`create_address`), and nonce n is mined in block n + 1.
  `excused` is a history variable, of which section 6 says why it is needed.
- **`Seal`**: `Start`, `Sync`, `Find`, `WriteRequest`, `Unpublished` (with `Approve`), `Rewrite`, `Commit`, `Push` and `Told`
  are `_seal` and `_push_request` in their order, each guard a refusal of the code. A file that is being written is `Torn`.
  `Killed` ends a command anywhere, which is also what plain `seal` does after it wrote the request. `BlockRun` is a
  whole run of `block.yml` with its report (`BlockRun` the module has its inside), `CleanUp` and `DropStale` are what a refusal leaves
  to a person: back to main's tip, or the removal of a request no run accepts. Of a block only the document and its kind is kept, of
  a checkout only what decides. One command at a time runs in a checkout.

## 3. Runs

| Run | Question | Bounds |
|---|---|---|
| `contract` | Is every reachable contract gapless? Is it an append-only log? | 3 accounts, 3 hashes, indices 0 to 5 |
| `anchor_serial` | One command at a time (the concurrency group): are markers and receipts true, is one transaction live, is every mined anchor receipted in the end? | 2 blocks, 2 transactions, 2 kills, lagging nodes, a foreign anchor |
| `store` | One at a time: does what is written verify, does a kill harm `HEAD` only, is the directory an append-only log? Racing: what stays true though two writers overwrite each other? | 2 processes, 3 blocks, 4 builds, clock 1..3, 2 nonces, 2 keys, 2 validators, 1 kill, 1 rotation |
| `store_dropped_device` | *violation*, section 6 | |
| `block_run` | Does main hold only what Base holds, and grow only? Is Base one block ahead at most? Is an anchored block kept unless its own run dies or its push is refused? Is a pushed request sealed, though runs are displaced, time out or die? | 2 indices after block 0, 3 blocks built, 6 commits, 2 manual runs beside those an alert calls for |
| `run_second_send` | *violation*, section 6 | |
| `ots` | In a person's directory and night after night: is no proof lost, no backup mistaken, every answer true; does a merge keep main's proof; is the block witnessed on main in the end? | 2 stamps, 3 levels, 2 kills; any number of nights, failures and lost runners |
| `verify` | Is a verified verdict true of Base and not stale, with one liar in three nodes, and is the top state reached only with both witnesses and an outside anchor? | 3 nodes, at most 1 faulty, 3 heights, 2 blocks |
| `verify_disagreement` | *violation*, section 6 | |
| `bitcoin` | Is a complete proof carried by Bitcoin, is nothing failed that was merely not to be had, does `verify` end? | 2 blocks of the ledger with every pair of proofs of at most 2 attestations, 2 heights, 2 sources of which any may lie, 2 ticks |
| `deploy` | One contract per genesis, recorded truly, kept, and found again? | 3 transactions, of which `find_deployment` walks 2; 2 genesis blocks, 1 other commit, 1 death |
| `seal` | Is a document sealed once, is every report true, is every document sealed and reported in the end? | 2 machines, 2 documents, 2 kinds, 3 lines, 2 blocks, 1 accident |

**Why the bounds are enough.** Each bound admits the shortest story that matters and one more. In
`anchor_serial`, a transaction can be dropped, its marker removed and the block sent again (two
transactions), and a kill of the first command can be followed by a kill of the reconcile that repairs it. In
`store`, a request can be made for the head behind a `HEAD` that a kill left, against old blocks, a spent nonce and a
clock that stands still. In `block_run`, two runs can send for one index, and a third can build the block that is left, or the next one, from an old commit or the head. In
`ots`, level 1 is an upgrade that did not finish, which only three levels tell from a fresh and a complete
proof; two stamps tell a backup of this proof from another's; the second kill hits the repair of the
first; nights are not counted, since nothing of a night lasts but main and the request. In `bitcoin`, a second block is what can be hurt by what the first one cached or left behind; two attestations let
one be contradicted before the other is refused; two ticks let a budget run out in the middle of a second lookup. In
`deploy`, the third transaction is out of `find_deployment`'s reach, and the first may be another's; two runs, one of
them from an old commit, meet. In `seal`, one machine's line names a document of the other's as another kind, so that
both orders of the two kinds, and a second document that waits behind the first, occur; one accident is enough for a
cut-off command, a torn request or a diverged branch, and pushes are rejected without any. In `verify`, three nodes are the fewest of which one may lie and a majority be honest, and three
heights let the common block of two reads move both ways. `CHECK_DEADLOCK FALSE` stands where the bounds or a
finished ledger stop the system.

**Symmetry.** Interchangeable processes in `store`, nodes in the `verify` runs. No run with a
liveness property uses it.

## 4. Fairness

- `BaseAnchor`: a command goes on (weak: all its waits have timeouts); reconcile is run again and again, finds Base
  reachable infinitely often and then succeeds (strong: `RpcFails` may disable it in between); the
  person removes a marker she is asked about; the pool keeps nothing for ever (mined or dropped). Kills are
  never fair, and bounded.
- `BlockRun`: a run goes on until it ends, its wait for a receipt too (`TimesOut`: `wait_for_transaction_receipt` has a timeout), and Base mines what it is
  sent (weak). Of people one thing is assumed: when no run waits or works and main has a request, the person whom `alerts.yml` told of the cancelled or failed run
  dispatches another (`DispatchHead`). Of runs started so again and again, not every one is displaced while it waits, nor dies before its block is
  written (strong fairness of `StartRun` and `WriteBlock`). A dispatch, a displacement and a death are never fair themselves.
- `Nightly`: three assumptions. A run goes on until it ends (weak). Nights recur (`cron`, `nightly.yml:18`), and among them again and again one on which `ots` and
  the calendars work and Bitcoin has confirmed what is pending (strong fairness of `Checkout(TRUE)`). And **a person merges**: `nightly.yml` changes main by
  itself never (`nightly.yml:8-14`, "Merging is the only step left", `:58`), so a request that can be merged again and again is merged (strong fairness of
  `Merge`). It is strong since each night may replace the request or close it. Without it the property is false, and `docs/setup.md:203-208` says so:
  until the request is merged each night stamps the block anew, and its proof never matures.
  A kill in the middle of a stamp leaves a cut-short `.ots`, which may be proposed and merged, and which every later
  command refuses; `WitnessedInTheEnd` names that as its one exception. Of a person's own directory no liveness is claimed: nothing schedules her commands.
- `BitcoinLookup`: `verify` goes on and time passes. Nobody who is asked need ever answer.
- `Deploy`: a run goes on (all its waits have timeouts), and the workflow is dispatched again while main has no contract. Of
  the nodes that answer such runs not all are behind, nor do all calls fail (strong). Nothing is assumed of sends or mining.
- `Seal`: a command goes on; each line is pasted again and again, and of its reports one gets through in the end (strong, per
  machine and line: a person who pastes one line only does not help the other); she does what a refusal asks of her; runs
  of `block.yml` are approved, and a request that every run refuses is noticed. Accidents are never fair, and bounded.

## 5. What is proved

TLAPS checks these for every value of the constants the modules' assumptions allow. Every safety invariant and every safety action
property that a run checks is proved; each inductive invariant was first checked by TLC on the run's constants.

- `ContractProofs`, the contract: `ContractInvariant` (`Contiguous`), `ContractNeverReanchored` and
  `ContractImplementsLog`. The inductive invariant is type correctness with `Contiguous`. Without it a step could
  write below `latestIndex`, and neither the action property nor the refinement would follow. Every call that
  goes through adds the entry `latestIndex + 1`; `GrownByOne` turns that into an append on the
  sequence. A call that reverts, or a transfer of ownership, is a stutter of the log.
- `ContractProofs`, its deployment: `DeployDeployedOnce`, `DeployRecordsTrue`, `DeployMainKeeps`, for any number of transactions, genesis blocks,
  deaths, old commits and transactions of others, from `DeployInv`. The search for a contract ends many steps before the creation is sent, and
  a creation many steps after that. So the invariant says what the search has ruled out (`Looked`: no nonce it walked past carries the hash,
  and none it did not see carries any), that a creation in the pool is that of the run that waits for it (`PoolIsRuns`), that nonces are used
  and mined in order (`AccountInOrder`, which makes `Height` count them), and what a run's files and address are worth (`RunFiles`).
- `BaseAnchorProofs`: `BaseAnchorTypeOK` and `BaseAnchorReceiptTrue`: any number of processes, blocks,
  transactions and kills, lagging nodes or not, any foreign anchors. `ReceiptTrue` is not inductive: whether a receipt is
  true depends on what its writer knew some steps earlier. The inductive invariant
  `IInv == TypeOK /\ ReceiptTrue /\ Sure /\ MinedTrue /\ Waiting` adds that a process at
  `update`, `open`, `write` or `unlink` has a block that the contract holds (`Sure`), that a mined transaction's
  block is held (`MinedTrue`), and that a process that waits does so for a transaction of its own
  block (`Waiting`). The argument: the contract
  never loses an anchor (`AnchoredStays`), so what a process was once told stays true while it is slow,
  and a transaction that was sent keeps its block (`TxsStay`).
- `BaseAnchorProofs`, many commands: `BaseAnchorOneSender` (`OneLiveTx`, `InFlightMarked`): any number of processes over one directory,
  *at once*, with kills and lost answers: a block has one transaction alive at most, and what is in the pool lies under a
  full marker. It assumes (`Fresh`) nodes that do not lag, because the code needs
  it (section 6), and that nobody else anchors these very blocks (`Own`): a block holds the time of its sealing, so that one sealed elsewhere has
  another hash. The inductive invariant adds who holds a claim: between `Claim` and `Send` the process is alone
  with its block and its marker is its own; a transaction in the pool has a full marker that only its sender removes, after
  it was mined; and once a block is on the contract, `Send` of it fails, as the estimate does.
- `BaseAnchorProofs`, one command at a time (`Serial`, which `block.yml`'s concurrency group gives; `anchor_serial` is its small instance), with lagging nodes and any number of kills:
  `BaseAnchorSerialOneLiveTx`, `BaseAnchorInFlightMarked`, `BaseAnchorMinedIsRecorded`, `BaseAnchorMarkerAgrees`, under
  `Own`. Needed beside the four: what the command once read of its block's marker and receipt still holds (`Alone`), and `MarkerAgrees` without
  its exception (`SameTx`).
- `LedgerStoreProofs`: `StoreInvariant`, `StoreBlocksSound`, `StoreHeadLags`, `StoreWriterPassesVerify` and the refinement `StoreImplementsLog`, for any
  number of processes, blocks, devices, keys, kills and rotations. `verify_chain` looks at files, while a block is built five file operations before it is one: `StoreInv`
  therefore says of what lies under a `.tmp` name or is in a process's hands all it says of a file (`AllGood`), and, one command at a time, how
  the block in hand continues the files and how far it has got (`Prepared`), that the files have no holes (`NoHoles`), and where `HEAD` is
  (`HeadTrue`, `HeadWritten`). Only `Replace` touches the log; every other step, a kill included, is a stutter of it.
- `BlockRunProofs`: `BlockRunInvariant`, `BlockRunMainMatchesBase`, `BlockRunBaseOneAhead`, `BlockRunAnchoredIsKept` and the action property `BlockRunMainGrows`, for any number
  of commits, blocks and runs. `MainMatchesBase` is inductive only for all commits, since runs start from any of them (`CommitsAnchored`, `CommitsInOrder`), with
  what a run in each phase has in its hands (`RunKnows`) and what transactions are for (`TxsTrue`, `PoolNear`). `AnchoredIsKept` is about what is mined, and a
  transaction may be mined long after its run is gone; so `Accounted` says of every block that Base holds or may still take where it is: on main, with its
  run, or lost in one of the two ways.
- `OtsProofProofs`: `OtsInvariant`, `OtsBackupIsOlder`, `OtsFailureLeavesNothing`, `OtsAnswerTrue` and the action properties `OtsNoProofLost` and `NightMainProofKept`, for any number of stamps, levels
  and kills, at home or through any number of nights. The invariant goes through the phases of `stamp` and `upgrade` and says what lies on the disk in each, also after a kill there (`OtsInv`);
  of a night it says that its files are, unless a command was killed, what it checked out or made from that by upgrades (`NightKeeps`), and of a request, however old, the same
  against the commit it was made from (`RequestKeeps`). That `Merge` takes it only onto that commit then gives `MainProofKept`.
- `VerifyAllProofs`: `VerifyInvariant`, `VerifyVerifiedIsAnchored`, `VerifyVerdictFresh`, for any number of nodes, heights and blocks, under
  `Minority`: fewer nodes are faulty than a quorum counts. The code cannot check that, it is what `QuorumBase` trusts; without it a quorum may agree on anything, and
  no verdict means anything. The invariant says that what a read returned some honest node held, and that Base, which only grows, still does.
- `BitcoinLookupProofs`: `LookupInvariant`, `LookupCompleteIsCarried`, `LookupFailedIsContradicted`, for any blocks, proofs, heights, sources and time. Needed: what
  a cached header or refusal says, of which call the answer under way is (an abandoned one may answer later), and what was made so far of the proof that is looked at.
- `SealProofs`: `SealSealedOnce`, `SealReportsTrue` and `SealRequestsKnow`, for any number of machines, lines, documents and blocks.
  "One fingerprint, one block" does not follow from the search alone, since the search is over a checkout that may be behind and its result is
  used many steps later. `RequestsKnow` says what a request knows: wherever it lies, in a file, a commit, a
  command's memory or on main, it is for a block not beyond the next one, and no block *below its index* holds its document. A new block leaves that
  true, since it comes at an index no smaller than the request's; and `consume` takes a request only for the index
  after the last, when "below" is all there is. With the types and the other two properties it is inductive (`SealInv`). A step of one machine leaves the others alone, one
  that moves main changes only the freshness of checkouts, so the proof has one lemma per action and one per kind of step.

Assumptions are those named in the modules: finite bounds are natural numbers; the values that stand for "none" (`NoHash`, `NoTx`, `NoProc`, `NoFile`, `Torn`, `NoBlock`, `NoRequest`, `None`,
`Error`, `Unset`, ...) are not members of the sets they stand outside of, and differ where one variable can hold two of them; every block of the checkout has a hash; each
machine's lines name documents and kinds. TLC evaluates them in every run.

**Only model-checked.** Liveness under fairness and anything about ENABLED, which are out of the prover's reach: `AnchoredIsReceipted`, `MarkerCleared`, `RequestSealed`,
`WitnessedInTheEnd`, `VerifyEnds`, `RecordedInTheEnd`, `ReportedInTheEnd`. The four properties of `anchor_serial` are proved for commands one at a time without an anchor of the
same block from elsewhere (`Own`). No model uses RECURSIVE operators or induction over data.

## 6. Where the code and its documents disagree

Each of these is a run that TLC ends with a counterexample.

- `run_second_send`: the marker that "stops the next run from sending a second one" (`chain.py:327`) is a file
  in the checkout of the run that died; the next run has none and sends. `block_run` checks what
  remains true: of two that were sent for an index Base takes one, main takes no other (`MainMatchesBase`), and Base does not get further
  ahead than that block (`BaseOneAhead`).
- `store_dropped_device`: `docs/approval.md:83` says blocks approved by a device stay valid after it is dropped from the trust anchor;
  `verify_chain` judges every block by the devices of today.
- `verify_disagreement`: `README.md:72` says disagreement is never success; `verify_all` passes over
  whatever `record()` raises (`verify.py:210`), disagreement among it.

Behaviour the models also have, which no run is spent on and the properties above allow for:

*Anchoring and the block run*

- `block.yml` pushes from the commit it checked out. A commit that reaches main during the run (nightly's pull request
  merged, another request) makes the push fail, after the block was anchored. Base then holds a block that is
  on no checkout, its index can never be anchored again, and the timestamp in the hash makes it impossible to
  build again. `AnchoredIsKept` says that this and the death of its own run are the only ways to lose a block, and
  `RequestSealed` that such a block is the only thing that keeps a request from being sealed.
- Two anchor commands at once *and* a lagging node: `base.json` is looked for before the marker is
  claimed, so a slow second command may claim the marker of a block that was anchored and cleaned up meanwhile;
  the estimate of an up-to-date node stops it, that of a lagging one does not. Hence the two sides of
  `OneLiveTx`: checked with lagging nodes one command at a time, proved for many commands with nodes that do not lag.
- A kill between the receipt and the removal of its marker makes `reconcile` write the
  receipt again; `MarkerAgrees` is what makes that harmless. A broadcast whose
  answer was lost ends in a receipt that names no transaction.
- Two `block` processes over one directory may both find no block and the second replaces the first one's: `store`
  checks what holds all the same. The concurrency group keeps runs from it, not people.

*Proof files and the nightly run*

- An `ots upgrade` that is killed between its rename and its write leaves the good copy in the `.bak`, which git does not take (`.gitignore:10`). The `stamp` that
  follows in the same night settles it; if that fails, or is killed too, the request proposes to delete the proof or to replace it by a cut-short one, and a
  person who merges it loses the proof on main. `MainProofKept` therefore speaks of histories without a killed command; `NoProofLost` of the directory has no such exception.
- A request that a night made while the last one was being merged is from the main before that merge. git cannot merge it (both sides changed the
  proof), which is all that keeps an earlier proof from replacing the upgraded one; the next night makes the request anew.

*Verification*

- Each quorum read finds its own common block. A later read at a lower one reports a good block as
  held with another hash: the verdict is then INVALID, never wrongly verified.
- When a lookup runs out of time, the node still counts as answering, and the public sources are not asked in its
  place; every later lookup of the run is refused at once.
- Two public sources that lie together cannot make a header, but can show a real one of another height; a proof that
  this header carries is then called complete at the height it names.

*Deployment.* `deploy.yml:3` says a second deploy is refused, and `README.md:108` that both workflows refuse to run again. What
refuses is `config.json` in the run's own checkout, and `find_deployment`. `DeployedOnce` therefore excuses three things (`excused`): a
run that gave up while its transaction was in the pool or whose answer was lost (`witness.py:104`), a node that is behind, and a `genesisHash()` that fails and
is passed over like a foreign contract (`witness.py:217`). After each, a second contract with the same genesis hash can be deployed; main
records one of them. A contract at nonce 64 or later is out of `find_deployment`'s reach. `--adopt-only` never sends.

*Sealing*

- A request left lying in a checkout whose document was meanwhile sealed by another machine refuses every other line
  ("is waiting ... Push that one first", `cli.py:696`) until `next.json` is removed by hand; `_sync` promises that the next document is not
  refused as waiting (`cli.py:556`), which holds for the request main had, not for one of this checkout.
- A request on main that `consume` refuses, because its index is there by now, is refused by every run, and waits in
  every checkout until a person removes it (`DropStale`).
- A branch that diverged (a request committed, the push rejected) fails `git pull --ff-only` for ever; a torn
  `next.json` is refused as no request. Both are left to her (`CleanUp`).
- `_unpublished_only` is asked before the passphrase: a commit made in another terminal during the prompt goes to main
  with the request.

## 7. Plan

Done, in this order: contract; anchoring; block directory; block run; proof files; verification; Bitcoin lookup; deployment;
sealing; proofs of every safety property of a passing run.

Next:

1. `BaseAnchor` as a client of the contract's specification (its steps are steps of `AikiriLedger` or stutter), and `BlockRun` likewise.
2. An abstract specification of `BlockRun`'s main as an `AppendOnlyLog`, in place of the action property `MainGrows`.
3. The proof of `OneLiveTx` with lagging nodes for commands that overlap only in reconcile.

Left for the model: `BlockRun` with `LedgerStore` as its directory and `Seal` as its people, which is beyond TLC as one
specification; the proof-of-work target of a header and `merkle_root` as pure algorithms.

## 8. What is not modelled

- *Cryptography and encodings*: signatures, canonical JSON, key derivation, block hashes. A signature is a
  Boolean or a set of names; a file that was written whole parses.
- *Reorganisations of Base*: the code reads finalized blocks, or waits for a receipt. A node may lag, never
  contradict.
- *A single RPC endpoint*: without `QuorumBase`, what the endpoint says is so.
- *Trust files, software keys, canonical JSON* (`trust.py`, `softkey.py`, `canonical.py`): parsing, key derivation and encryption of single
  files, with no state between calls. What the rest of the program sees of them is a set of devices, a ceiling on the verdict, and a passphrase
  that was given or not.
- In `BitcoinLookup`, the time a verify spends outside lookups, and redirects and oversized replies of a source, which are errors.
- In `Deploy`, the price of gas (`SendFails`), and what others do to the contract: `anchor` by the account is one of its other transactions.
- In `Seal`, two commands at once in one checkout, and block runs that fail: a request they do not consume stays on main.
- In `BlockRun`, lagging nodes (they are in `BaseAnchor`), the approval of a run by a person
  (part of `StartRun`), and what other workflows of the group do.
- In `Nightly`, the files of other blocks (they would keep the request open where this block has nothing to propose), and proofs a person pushes to main herself.
- In `OtsProof`, the bytes of a proof and the second reading of the same file within `upgrade`, which finds what the first found.
- *Alerts, CI, demo, tests, the Secure Enclave tool*: they change no ledger state, or sign one message.
