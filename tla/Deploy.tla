------------------------------- MODULE Deploy -------------------------------
(***************************************************************************)
(* How the ledger got its first block and its contract: genesis.yml and      *)
(* deploy.yml, `aikiri-ledger deploy` (cli.py) with find_deployment,         *)
(* find_creation_block, wait_for_code and BaseWitness.deploy (witness.py).   *)
(*                                                                          *)
(* A run works in a fresh checkout of some commit of main (a run that is     *)
(* re-run gets its old commit), shares the group `ledger-write` with all     *)
(* others, so that one runs at a time, and may die at any step; its files    *)
(* die with it.  Every answer of Base may come from a node that is behind.   *)
(*                                                                          *)
(* Abstracted: each mined transaction of the account makes a Base block of   *)
(* its own, so that nonce n is mined in block n + 1; a contract is named by  *)
(* the nonce that created it (create_address); a genesis hash is a number.   *)
(***************************************************************************)
EXTENDS Integers, Sequences, FiniteSets

CONSTANTS
    MaxTx,       \* bound on the account's transactions: nonces 0 .. MaxTx - 1
    NonceLimit,  \* find_deployment's max_nonce
    MaxGenesis,  \* bound on the genesis blocks made
    MaxOther,    \* bound on the commits of others
    MaxDeaths,   \* bound on the runs that break off
    Alien, Nothing,   \* what other transactions create
    None

ASSUME DeployAssumption ==
    /\ MaxTx \in Nat /\ NonceLimit \in Nat /\ MaxGenesis \in Nat
    /\ MaxOther \in Nat /\ MaxDeaths \in Nat
    /\ None \notin Nat
    /\ Alien # Nothing /\ {Alien, Nothing} \cap (1 .. MaxGenesis) = {}

VARIABLES
    account,   \* nonce -> what became of it, and what it was
    main,      \* the commits of main: block 0, config.json and deploy.json of each
    made,      \* genesis blocks made so far
    run,       \* the run that has the group, if any
    deaths,    \* runs that broke off so far
    others,    \* commits of others so far
    excused    \* history: a node was behind, a call passed over, or a transaction abandoned

base == <<account, main, made, deaths, others>>
vars == <<account, main, made, run, deaths, others, excused>>

TxNonces == 0 .. MaxTx - 1
Genesis == 1 .. MaxGenesis
Record == [at : TxNonces, block : 1 .. MaxTx]
Files == [genesis : Genesis \cup {None}, config : TxNonces \cup {None}, record : Record \cup {None}]

(* A contract is known by the genesis hash baked into it; Alien is a contract *)
(* of another kind or ledger, Nothing what a call or a failed creation leaves.   *)
TxType == [st : {"unused", "pool", "mined"}, does : Genesis \cup {Alien, Nothing}]

Idle == [pc |-> "idle", at |-> 0, adopt |-> FALSE, seen |-> 0, n |-> 0, lo |-> 0, hi |-> 0,
         addr |-> None, files |-> [genesis |-> None, config |-> None, record |-> None]]

TypeOK ==
    /\ account \in [TxNonces -> TxType]
    /\ main \in Seq(Files) /\ Len(main) >= 1
    /\ made \in 0 .. MaxGenesis
    /\ run \in [pc : {"idle", "count", "look", "height", "bisect", "send", "wait", "code", "check", "push"},
                at : Nat, adopt : BOOLEAN, seen : 0 .. MaxTx, n : 0 .. MaxTx,
                lo : 0 .. MaxTx, hi : 0 .. MaxTx, addr : TxNonces \cup {None}, files : Files]
    /\ deaths \in 0 .. MaxDeaths /\ others \in 0 .. MaxOther
    /\ excused \in BOOLEAN

Init ==
    /\ account = [n \in TxNonces |-> [st |-> "unused", does |-> Nothing]]
    /\ main = <<Idle.files>>
    /\ made = 0
    /\ run = Idle
    /\ deaths = 0 /\ others = 0
    /\ excused = FALSE

-----------------------------------------------------------------------------
(* Base *)

(* The number of transactions mined is also the number of the latest block. *)
Height == Cardinality({n \in TxNonces : account[n].st = "mined"})

(* A transaction takes the account's next free nonce. *)
NextNonce(n) == account[n].st = "unused" /\ \A m \in TxNonces : m < n => account[m].st # "unused"

(* The contract that nonce n created, as a node that has got to block v sees it. *)
CodeAt(n, v) == n < v /\ account[n].does \in Genesis \cup {Alien}
Carries(n, v, g) == CodeAt(n, v) /\ account[n].does = g

(* Transactions are mined in the order of their nonces; a creation may fail. *)
Mine(n) ==
    /\ account[n].st = "pool" /\ n = Height
    /\ \E d \in {account[n].does, Nothing} : account' = [account EXCEPT ![n] = [st |-> "mined", does |-> d]]
    /\ UNCHANGED <<main, made, run, deaths, others, excused>>

(* The account's owner uses it for something else. *)
OtherTx(n, d) ==
    /\ NextNonce(n)
    /\ account' = [account EXCEPT ![n] = [st |-> "pool", does |-> d]]
    /\ UNCHANGED <<main, made, run, deaths, others, excused>>

-----------------------------------------------------------------------------
(* Runs *)

(* A run breaks off.  What it sent may still be mined. *)
BreakOff ==
    /\ run' = Idle
    /\ excused' = (excused \/ (run.pc = "wait" /\ account[run.addr].st = "pool"))

(* genesis.yml refuses if block 0 exists; else `init` makes one. *)
StartGenesis(c) ==
    /\ run.pc = "idle"
    /\ main[c].genesis = None
    /\ made < MaxGenesis
    /\ made' = made + 1
    /\ run' = [Idle EXCEPT !.pc = "push", !.at = c, !.files = [main[c] EXCEPT !.genesis = made + 1]]
    /\ UNCHANGED <<account, main, deaths, others, excused>>

(* `deploy` needs block 0 and refuses if config.json names a contract. *)
StartDeploy(c, adopt) ==
    /\ run.pc = "idle"
    /\ main[c].genesis # None
    /\ main[c].config = None
    /\ run' = [Idle EXCEPT !.pc = "count", !.at = c, !.adopt = adopt, !.files = main[c]]
    /\ UNCHANGED <<base, excused>>

(* The answer of a node that has got to block v, which may be behind. *)
FromNode(v) == excused' = (excused \/ v < Height)

(* find_deployment: get_transaction_count *)
Count(v) ==
    /\ run.pc = "count"
    /\ run' = [run EXCEPT !.pc = "look", !.seen = v]
    /\ FromNode(v)
    /\ UNCHANGED base

(* A bug: the last nonce is left out. *)
LookingShort == run.pc = "look" /\ run.n + 1 < run.seen /\ run.n < NonceLimit
Looking == run.pc = "look" /\ run.n < run.seen /\ run.n < NonceLimit

(* No code there, or another genesis hash: the next nonce. *)
LookPast ==
    /\ Looking
    /\ \E v \in 0 .. Height :
          /\ ~Carries(run.n, v, run.files.genesis)
          /\ FromNode(v)
    /\ run' = [run EXCEPT !.n = @ + 1]
    /\ UNCHANGED base

(* genesisHash() raises, whatever the reason: the next nonce too. *)
LookSkipped ==
    /\ Looking
    /\ CodeAt(run.n, Height)
    /\ run' = [run EXCEPT !.n = @ + 1]
    /\ excused' = TRUE
    /\ UNCHANGED base

(* The contract that carries this ledger's genesis hash. *)
LookFound ==
    /\ Looking
    /\ Carries(run.n, Height, run.files.genesis)
    /\ run' = [run EXCEPT !.pc = "height", !.seen = 0, !.n = 0, !.addr = run.n]
    /\ UNCHANGED <<base, excused>>

(* Nothing found: --adopt-only stops here. *)
NothingFound ==
    /\ run.pc = "look" /\ ~Looking
    /\ \/ run.adopt /\ run' = Idle
       \/ ~run.adopt /\ run' = [run EXCEPT !.pc = "send"]
    /\ UNCHANGED <<base, excused>>

(* find_creation_block: the search begins with the head of the node asked, ... *)
AskHeight(v) ==
    /\ run.pc = "height"
    /\ run' = [run EXCEPT !.pc = "bisect", !.lo = 0, !.hi = v]
    /\ UNCHANGED <<base, excused>>

(* A bug: the block in the middle is taken to be behind the creation. *)
HalveShort ==
    /\ run.pc = "bisect" /\ run.lo < run.hi
    /\ LET mid == (run.lo + run.hi) \div 2
       IN  run' = IF CodeAt(run.addr, mid) /\ mid > 0 THEN [run EXCEPT !.hi = mid - 1] ELSE [run EXCEPT !.lo = mid + 1]
    /\ UNCHANGED <<base, excused>>

(* ... halves the interval by the code at its middle ... *)
Halve ==
    /\ run.pc = "bisect" /\ run.lo < run.hi
    /\ LET mid == (run.lo + run.hi) \div 2
       IN  run' = IF CodeAt(run.addr, mid) THEN [run EXCEPT !.hi = mid] ELSE [run EXCEPT !.lo = mid + 1]
    /\ UNCHANGED <<base, excused>>

(* ... and ends at a block.  The creation's event is looked for there; without  *)
(* it there is no receipt, and `deploy` stops.                                 *)
AskReceipt ==
    /\ run.pc = "bisect" /\ run.lo = run.hi
    /\ run' = IF run.lo = run.addr + 1 THEN [run EXCEPT !.pc = "code"] ELSE Idle
    /\ UNCHANGED <<base, excused>>

(* The estimate is above the cap, or an error comes before the broadcast. *)
SendFails == run.pc = "send" /\ run' = Idle /\ UNCHANGED <<base, excused>>

(* BaseWitness.deploy: the transaction goes out; its answer comes, or is lost. *)
Send(n) ==
    /\ run.pc = "send"
    /\ NextNonce(n)
    /\ account' = [account EXCEPT ![n] = [st |-> "pool", does |-> run.files.genesis]]
    /\ \/ run' = [run EXCEPT !.pc = "wait", !.addr = n] /\ UNCHANGED excused
       \/ run' = Idle /\ excused' = TRUE
    /\ UNCHANGED <<main, made, deaths, others>>

(* The receipt: the contract's address, or a status that is not 1. *)
Confirmed ==
    /\ run.pc = "wait"
    /\ account[run.addr].st = "mined"
    /\ run' = IF account[run.addr].does = Nothing THEN Idle
              ELSE [run EXCEPT !.pc = "code", !.lo = run.addr + 1]
    /\ UNCHANGED <<base, excused>>

(* No receipt within the timeout. *)
TimesOut == run.pc = "wait" /\ BreakOff /\ UNCHANGED base

(* wait_for_code: some node shows the code. *)
CodeSeen ==
    /\ run.pc = "code"
    /\ run' = [run EXCEPT !.pc = "check"]
    /\ UNCHANGED <<base, excused>>

(* A bug: deploy.json gets the latest block instead of the receipt's. *)
CheckAndWriteLatest ==
    /\ run.pc = "check"
    /\ Carries(run.addr, Height, run.files.genesis)
    /\ run' = [run EXCEPT !.pc = "push", !.files.config = run.addr,
                          !.files.record = [at |-> run.addr, block |-> Height]]
    /\ UNCHANGED <<base, excused>>

(* matches() and genesis_hash(); then config.json and deploy.json are written. *)
CheckAndWrite ==
    /\ run.pc = "check"
    /\ Carries(run.addr, Height, run.files.genesis)
    /\ run' = [run EXCEPT !.pc = "push", !.files.config = run.addr,
                          !.files.record = [at |-> run.addr, block |-> run.lo]]
    /\ UNCHANGED <<base, excused>>

(* A bug: git push --force. *)
PushForced ==
    /\ run.pc = "push"
    /\ main' = Append(main, run.files)
    /\ run' = Idle
    /\ UNCHANGED <<account, made, deaths, others, excused>>

(* Both files in one commit; main takes it if the run started from its tip. *)
Push ==
    /\ run.pc = "push"
    /\ \/ run.at = Len(main) /\ main' = Append(main, run.files)
       \/ run.at # Len(main) /\ UNCHANGED main
    /\ run' = Idle
    /\ UNCHANGED <<account, made, deaths, others, excused>>

(* A call raises, or the runner dies. *)
RunDies ==
    /\ run.pc # "idle"
    /\ deaths < MaxDeaths
    /\ deaths' = deaths + 1
    /\ BreakOff
    /\ UNCHANGED <<account, main, made, others>>

(* Somebody else's commit. *)
OtherPush ==
    /\ others < MaxOther
    /\ others' = others + 1
    /\ main' = Append(main, main[Len(main)])
    /\ UNCHANGED <<account, made, run, deaths, excused>>

RunStep ==
    \/ \E v \in 0 .. Height : Count(v)
    \/ LookPast
    \/ LookSkipped
    \/ LookFound
    \/ NothingFound
    \/ \E v \in 0 .. Height : AskHeight(v)
    \/ Halve
    \/ AskReceipt
    \/ SendFails
    \/ \E n \in TxNonces : Send(n)
    \/ Confirmed
    \/ TimesOut
    \/ CodeSeen
    \/ CheckAndWrite
    \/ Push

Next ==
    \/ RunStep
    \/ RunDies
    \/ \E c \in 1 .. Len(main) : StartGenesis(c)
    \/ \E c \in 1 .. Len(main), adopt \in BOOLEAN : StartDeploy(c, adopt)
    \/ \E n \in TxNonces : Mine(n)
    \/ \E n \in TxNonces, d \in {Alien, Nothing} : OtherTx(n, d)
    \/ OtherPush

Spec == Init /\ [][Next]_vars

(* A run goes on.  The workflow is dispatched again until main has a contract;   *)
(* of the nodes that answer such runs not all are behind, nor do all calls fail. *)
AtTip == run.at = Len(main)
Fairness ==
    /\ WF_vars(RunStep)
    /\ SF_vars(\E adopt \in BOOLEAN : StartDeploy(Len(main), adopt))
    /\ SF_vars(AtTip /\ Count(Height))
    /\ SF_vars(AtTip /\ LookFound)
    /\ SF_vars(AtTip /\ AskHeight(Height))

FairSpec == Spec /\ Fairness

-----------------------------------------------------------------------------
Tip == main[Len(main)]

(* "a second deploy is refused" (deploy.yml:3).  Runs may die, their files with  *)
(* them, or be started from old commits: while no node was behind, no call was  *)
(* passed over and no run left its transaction in the pool, there is one        *)
(* contract per genesis hash, unless the first is at a nonce out of reach.      *)
DeployedOnce ==
    ~excused =>
        \A g \in Genesis, m, n \in TxNonces :
            Carries(m, Height, g) /\ Carries(n, Height, g) /\ m < n => m >= NonceLimit

(* What main records is a contract that carries the genesis hash of its block 0, *)
(* and the block the contract was created in, however it was found.            *)
RecordsTrue ==
    \A c \in 1 .. Len(main) : main[c].config # None =>
        /\ Carries(main[c].config, Height, main[c].genesis)
        /\ main[c].record = [at |-> main[c].config, block |-> main[c].config + 1]

(* "both refuse to run again" (README.md:108): what main says of block 0 and of  *)
(* the contract, it says in every later commit, whatever runs were started anew *)
(* from commits of before.                                                     *)
MainKeeps ==
    \A c, d \in 1 .. Len(main) : c < d =>
        /\ main[c].genesis # None => main[d].genesis = main[c].genesis
        /\ main[c].config # None => main[d].config = main[c].config

(* A deployment is never lost: the contract is found again after any death of   *)
(* the run that made it, and main records it, or another of the same genesis.   *)
RecordedInTheEnd ==
    (Tip.genesis # None /\ \E n \in TxNonces : n < NonceLimit /\ Carries(n, Height, Tip.genesis))
        ~> (Tip.config # None)
=============================================================================
