--------------------------- MODULE ContractProofs ---------------------------
(***************************************************************************)
(* The contract, for any accounts, hashes and number of indices; and how it *)
(* comes to be and is named by main, for any number of transactions, runs   *)
(* and commits.                                                             *)
(*                                                                         *)
(* The contract's invariant is the type invariant with Contiguous: without  *)
(* it nothing says that the index NotSequential lets through is empty.      *)
(*                                                                         *)
(* Of Deploy's properties only MainKeeps is nearly inductive; it needs that *)
(* a run's files are its commit's but for what they add to a commit that    *)
(* lacked it (RunFiles).  RecordsTrue needs what the run knows of the       *)
(* address in its hands, and that what is mined stays (AccountInOrder).     *)
(* DeployedOnce is about a search that ends many steps before the next      *)
(* creation is sent: it needs what the search has ruled out (Looked), and   *)
(* that nothing it could not see, in the pool, is a contract (PoolIsRuns).  *)
(***************************************************************************)
EXTENDS AikiriLedger, Deploy, SequenceTheorems, FiniteSetTheorems, TLAPS

(* A function that agrees with a log on the log's indices and has one more *)
(* entry at the end is the log with that entry appended.                   *)
LEMMA GrownByOne ==
    ASSUME NEW S, NEW n \in Nat, NEW e \in S,
           NEW f \in [1 .. n -> S], NEW g \in [1 .. n + 1 -> S],
           g[n + 1] = e, \A k \in 1 .. n : g[k] = f[k]
    PROVE  g = Append(f, e)
<1>1. f \in Seq(S) /\ Len(f) = n
  OBVIOUS
<1>2. g \in Seq(S) /\ Len(g) = n + 1
  OBVIOUS
<1>3. /\ Append(f, e) \in Seq(S)
      /\ Len(Append(f, e)) = n + 1
      /\ \A k \in 1 .. n : Append(f, e)[k] = f[k]
      /\ Append(f, e)[n + 1] = e
  BY <1>1, AppendProperties
<1>4. \A k \in 1 .. n + 1 : g[k] = Append(f, e)[k]
  <2>1. \A k \in 1 .. n + 1 : k \in 1 .. n \/ k = n + 1
    OBVIOUS
  <2> QED BY <2>1, <1>3
<1> QED BY <1>2, <1>3, <1>4, SeqEqual


ContractInv == ContractTypeOK /\ Contiguous

(* A call that goes through puts a hash at the next index and nowhere else. *)
LEMMA AnchorCall ==
    ASSUME ContractTypeOK, NEW a \in Accounts, NEW i \in Index,
           NEW h \in Hashes \cup {NoHash}, Anchor(a, i, h)
    PROVE  /\ i = latestIndex + 1
           /\ anchors[i] = NoHash
           /\ h \in Hashes
           /\ latestIndex' = i
           /\ anchors' \in [Index -> Hashes \cup {NoHash}]
           /\ anchors'[i] = h
           /\ \A j \in Index : j # i => anchors'[j] = anchors[j]
  BY DEF ContractTypeOK, Anchor, Reverts

(* The constructor leaves a contract that is well typed and without gaps. *)
LEMMA ContractInitInv == ContractInit => ContractInv
<1> SUFFICES ASSUME ContractInit PROVE ContractInv
  OBVIOUS
<1>1. 0 \in Index /\ GenesisHash # NoHash
  BY ContractAssumption DEF Index
<1>2. ContractTypeOK
  BY <1>1, ContractAssumption DEF ContractInit, ContractTypeOK
<1>3. \A i \in Index : i <= 0 <=> i = 0
  BY DEF Index
<1>4. Contiguous
  BY <1>1, <1>3, ContractAssumption DEF ContractInit, Contiguous
<1> QED BY <1>2, <1>4 DEF ContractInv

(* No call opens a gap. *)
LEMMA ContractNextInv == ContractInv /\ [ContractNext]_contractVars => ContractInv'
<1> SUFFICES ASSUME ContractInv, [ContractNext]_contractVars PROVE ContractInv'
  OBVIOUS
<1> USE DEF ContractInv
<1>1. CASE UNCHANGED contractVars
  BY <1>1 DEF contractVars, ContractTypeOK, Contiguous, Index
<1>2. ASSUME NEW a \in Accounts, NEW i \in Index, NEW h \in Hashes \cup {NoHash},
             Anchor(a, i, h)
      PROVE  ContractInv'
  <2>1. /\ i = latestIndex + 1 /\ latestIndex' = i
        /\ h \in Hashes
        /\ anchors' \in [Index -> Hashes \cup {NoHash}]
        /\ anchors'[i] = h
        /\ \A j \in Index : j # i => anchors'[j] = anchors[j]
    BY <1>2, AnchorCall
  <2>2. ContractTypeOK'
    BY <1>2, <2>1 DEF ContractTypeOK, Anchor
  <2>3. ASSUME NEW j \in Index PROVE anchors'[j] # NoHash <=> j <= latestIndex'
    <3>1. CASE j = i
      BY <3>1, <2>1, ContractAssumption DEF Index
    <3>2. CASE j # i
      BY <3>2, <2>1, ContractAssumption DEF Index, Contiguous, ContractTypeOK
    <3> QED BY <3>1, <3>2
  <2>4. Contiguous'
    BY <2>3 DEF Contiguous, Index
  <2> QED BY <2>2, <2>4
<1>3. ASSUME NEW a \in Accounts, NEW b \in Accounts, TransferOwnership(a, b)
      PROVE  ContractInv'
  BY <1>3 DEF TransferOwnership, ContractTypeOK, Contiguous, Index
<1> QED BY <1>1, <1>2, <1>3 DEF ContractNext

(* In every reachable state the anchored indices are 0 .. latestIndex, with *)
(* no gap: verify_all may ask for blocks 0 .. latestIndex and no other.     *)
THEOREM ContractInvariant == ContractSpec => [](ContractTypeOK /\ Contiguous)
  BY ContractInitInv, ContractNextInv, PTL DEF ContractSpec, ContractInv

(* What a call anchors, no later call changes. *)
THEOREM ContractNeverReanchored == ContractSpec => NeverReanchored
<1>1. ContractInv /\ [ContractNext]_contractVars
        => [\A i \in Index : anchors[i] # NoHash => anchors'[i] = anchors[i]]_contractVars
  <2> SUFFICES ASSUME ContractInv, ContractNext,
                      NEW j \in Index, anchors[j] # NoHash
               PROVE  anchors'[j] = anchors[j]
    BY DEF contractVars
  <2>1. ASSUME NEW a \in Accounts, NEW i \in Index, NEW h \in Hashes \cup {NoHash},
               Anchor(a, i, h)
        PROVE  anchors'[j] = anchors[j]
    BY <2>1, AnchorCall DEF ContractInv
  <2>2. ASSUME NEW a \in Accounts, NEW b \in Accounts, TransferOwnership(a, b)
        PROVE  anchors'[j] = anchors[j]
    BY <2>2 DEF TransferOwnership
  <2> QED BY <2>1, <2>2 DEF ContractNext
<1> QED BY <1>1, ContractInitInv, ContractNextInv, PTL DEF ContractSpec, NeverReanchored

-----------------------------------------------------------------------------
(* A contract just created is a log of one entry. *)
LEMMA ContractInitLog == ContractInit => Log!Init
<1> SUFFICES ASSUME ContractInit PROVE Log!Init
  OBVIOUS
<1>1. AnchoredLog = << GenesisHash >>
  BY ContractAssumption DEF ContractInit, AnchoredLog, Index
<1> QED BY <1>1, ContractAssumption DEF Log!Init

(* Every call appends its hash to the log, or leaves the log as it was. *)
LEMMA ContractNextLog == ContractInv /\ [ContractNext]_contractVars => [Log!Grow]_AnchoredLog
<1> SUFFICES ASSUME ContractInv, [ContractNext]_contractVars PROVE [Log!Grow]_AnchoredLog
  OBVIOUS
<1>1. CASE UNCHANGED contractVars
  BY <1>1 DEF contractVars, AnchoredLog
<1>2. ASSUME NEW a \in Accounts, NEW i \in Index, NEW h \in Hashes \cup {NoHash},
             Anchor(a, i, h)
      PROVE  Log!Grow
  <2>1. /\ i = latestIndex + 1 /\ latestIndex' = i
        /\ h \in Hashes
        /\ anchors'[i] = h
        /\ \A j \in Index : j # i => anchors'[j] = anchors[j]
        /\ latestIndex \in Nat
        /\ \A n \in 1 .. latestIndex + 1 : n - 1 \in Index /\ n - 1 # i
    BY <1>2, AnchorCall, ContractAssumption DEF ContractInv, ContractTypeOK, Index
  <2>2. \A n \in 1 .. latestIndex + 1 : anchors'[n - 1] = anchors[n - 1]
    BY <2>1
  <2>3. anchors'[(latestIndex + 2) - 1] = h
    BY <2>1
  <2>4. AnchoredLog' = [n \in 1 .. latestIndex + 2 |-> anchors'[n - 1]]
    BY <2>1 DEF AnchoredLog
  <2>5. \A n \in 1 .. latestIndex + 1 : anchors[n - 1] \in Hashes
    BY <2>1, ContractAssumption DEF ContractInv, Contiguous, ContractTypeOK
  <2>6. AnchoredLog \in [1 .. latestIndex + 1 -> Hashes]
    BY <2>5 DEF AnchoredLog
  <2>7. \A n \in 1 .. latestIndex + 2 :
           n = latestIndex + 2 \/ n \in 1 .. latestIndex + 1
    BY <2>1
  <2>8. /\ AnchoredLog' \in [1 .. (latestIndex + 1) + 1 -> Hashes]
        /\ AnchoredLog'[(latestIndex + 1) + 1] = h
        /\ \A n \in 1 .. latestIndex + 1 : AnchoredLog'[n] = AnchoredLog[n]
    BY <2>1, <2>2, <2>3, <2>4, <2>5, <2>7 DEF AnchoredLog
  <2>9. AnchoredLog' = Append(AnchoredLog, h)
    BY <2>1, <2>6, <2>8, GrownByOne
  <2> QED BY <2>9, <2>1 DEF Log!Grow
<1>3. ASSUME NEW a \in Accounts, NEW b \in Accounts, TransferOwnership(a, b)
      PROVE  UNCHANGED AnchoredLog
  BY <1>3 DEF TransferOwnership, AnchoredLog
<1> QED BY <1>1, <1>2, <1>3 DEF ContractNext

(* The contract implements the append-only log. *)
THEOREM ContractImplementsLog == ContractSpec => ImplementsLog
  BY ContractInitInv, ContractNextInv, ContractInitLog, ContractNextLog, PTL DEF ContractSpec, ImplementsLog, Log!Spec

-----------------------------------------------------------------------------
(* How the contract comes to be, and main to name it. *)

(* Nonces are used, and mined, in their order; one not used creates nothing. *)
AccountInOrder ==
    /\ Height \in 0 .. MaxTx
    /\ \A n \in TxNonces : account[n].st = "mined" <=> n < Height
    /\ \A m, n \in TxNonces : m < n /\ account[n].st # "unused" => account[m].st # "unused"
    /\ \A n \in TxNonces : account[n].st = "unused" => account[n].does = Nothing

(* A commit that names a contract has a block 0. *)
GenesisFirst == \A c \in 1 .. Len(main) : main[c].config # None => main[c].genesis # None

Searching == {"count", "look", "height", "bisect", "send", "wait", "code", "check"}
Addressed == {"height", "bisect", "wait", "code", "check"}

(* What a run has in its files, and what it knows of the contract it names. *)
RunFiles ==
    run.pc # "idle" =>
        /\ run.at \in 1 .. Len(main)
        /\ run.files.genesis # None
        /\ main[run.at].genesis # None => run.files.genesis = main[run.at].genesis
        /\ main[run.at].config = None
        /\ run.pc \in Searching => run.files = main[run.at]
        /\ run.pc = "count" => run.n = 0
        /\ run.pc \in Addressed => run.addr # None
        /\ run.pc \in {"code", "check"} => run.lo = run.addr + 1
        /\ run.pc = "look" => run.seen <= Height
        /\ run.files.config # None =>
              /\ Carries(run.files.config, Height, run.files.genesis)
              /\ run.files.record = [at |-> run.files.config, block |-> run.files.config + 1]

(* A creation in the pool is that of the run that waits for it. *)
PoolIsRuns ==
    \A n \in TxNonces : account[n].st = "pool" /\ account[n].does \in Genesis =>
        run.pc = "wait" /\ run.addr = n

(* What a run has looked at does not carry its genesis hash, and what it did *)
(* not look at, because it came later, carries none.                         *)
Looked ==
    /\ run.pc = "look" =>
          /\ \A n \in TxNonces : n < run.n => account[n].does # run.files.genesis
          /\ \A n \in TxNonces : n >= run.seen => account[n].does \notin Genesis
    /\ run.pc = "send" =>
          \A n \in TxNonces : n < NonceLimit => account[n].does # run.files.genesis

CreatedOnce ==
    \A m, n \in TxNonces :
        m < n /\ account[m].does \in Genesis /\ account[n].does = account[m].does => m >= NonceLimit

DeployInv ==
    /\ TypeOK /\ AccountInOrder /\ GenesisFirst /\ RunFiles /\ RecordsTrue /\ MainKeeps
    /\ ~excused => PoolIsRuns /\ Looked /\ CreatedOnce

-----------------------------------------------------------------------------
(* The account. *)

(* Nonces mined in their order are counted by Height. *)
LEMMA FirstNonces ==
    ASSUME NEW k \in Nat
    PROVE  Cardinality(0 .. k - 1) = k
<1>1. 0 \in Int /\ k - 1 \in Int
  OBVIOUS
<1>2. Cardinality(0 .. k - 1) = IF 0 > k - 1 THEN 0 ELSE (k - 1) - 0 + 1
  BY <1>1, FS_Interval
<1> QED BY <1>2

AccountType == [TxNonces -> TxType]

(* What is mined and what was used is kept by a transaction that is new ... *)
LEMMA NewTx ==
    ASSUME DeployInv, NEW n \in TxNonces, NextNonce(n), NEW d \in Genesis \cup {Alien, Nothing},
           account' = [account EXCEPT ![n] = [st |-> "pool", does |-> d]]
    PROVE  /\ account' \in AccountType /\ AccountInOrder' /\ Height' = Height /\ n >= Height
           /\ account[n].st = "unused" /\ account[n].does = Nothing
           /\ account'[n] = [st |-> "pool", does |-> d]
           /\ \A m \in TxNonces \ {n} : account'[m] = account[m]
           /\ \A m \in TxNonces : m > n => account'[m].st = "unused" /\ account'[m].does = Nothing
<1>0. /\ account \in AccountType /\ AccountInOrder /\ account[n].st = "unused"
      /\ \A m \in TxNonces : m < n => account[m].st # "unused"
  BY DEF DeployInv, TypeOK, AccountType, NextNonce
<1>1. /\ account' \in AccountType /\ account'[n] = [st |-> "pool", does |-> d]
      /\ \A m \in TxNonces \ {n} : account'[m] = account[m]
  BY <1>0 DEF AccountType, TxType
<1>2. {m \in TxNonces : account'[m].st = "mined"} = {m \in TxNonces : account[m].st = "mined"}
  BY <1>0, <1>1
<1>3. Height' = Height
  BY <1>2 DEF Height
<1>4. account[n].does = Nothing /\ n >= Height
  BY <1>0, DeployAssumption DEF AccountInOrder, TxNonces
<1>5. \A m \in TxNonces : m > n => account[m].st = "unused" /\ account[m].does = Nothing
  BY <1>0 DEF AccountInOrder, TxNonces
<1>6. AccountInOrder'
  <2>1. \A m \in TxNonces : account'[m].st = "mined" <=> m < Height'
    BY <1>0, <1>1, <1>3 DEF AccountInOrder
  <2>2. \A k, m \in TxNonces : k < m /\ account'[m].st # "unused" => account'[k].st # "unused"
    BY <1>0, <1>1, <1>5 DEF AccountInOrder, TxNonces
  <2>3. \A m \in TxNonces : account'[m].st = "unused" => account'[m].does = Nothing
    BY <1>0, <1>1 DEF AccountInOrder
  <2> QED BY <1>0, <1>3, <2>1, <2>2, <2>3 DEF AccountInOrder
<1> QED BY <1>0, <1>1, <1>3, <1>4, <1>5, <1>6 DEF TxNonces

(* ... and by one that is mined. *)
LEMMA MinedTx ==
    ASSUME DeployInv, NEW n \in TxNonces, Mine(n)
    PROVE  /\ account' \in AccountType /\ AccountInOrder' /\ Height' = Height + 1 /\ n = Height
           /\ account[n].st = "pool" /\ account'[n].st = "mined"
           /\ account'[n].does \in {account[n].does, Nothing}
           /\ \A m \in TxNonces \ {n} : account'[m] = account[m]
<1>0. /\ account \in AccountType /\ AccountInOrder /\ account[n].st = "pool" /\ n = Height
  BY DEF DeployInv, TypeOK, AccountType, Mine
<1>1. PICK d \in {account[n].does, Nothing} : account' = [account EXCEPT ![n] = [st |-> "mined", does |-> d]]
  BY DEF Mine
<1>2. /\ account' \in AccountType /\ account'[n] = [st |-> "mined", does |-> d]
      /\ \A m \in TxNonces \ {n} : account'[m] = account[m]
  BY <1>0, <1>1 DEF AccountType, TxType
<1>3. Height' = Height + 1
  <2>1. PICK k \in Nat : k = Height + 1
    BY <1>0, DeployAssumption DEF TxNonces
  <2>2. {m \in TxNonces : account'[m].st = "mined"} = 0 .. k - 1
    BY <1>0, <1>2, <2>1, DeployAssumption DEF AccountInOrder, TxNonces
  <2> QED BY <2>1, <2>2, FirstNonces DEF Height
<1>4. AccountInOrder'
  <2>1. Height' \in 0 .. MaxTx
    BY <1>0, <1>3, DeployAssumption DEF TxNonces
  <2>2. \A m \in TxNonces : account'[m].st = "mined" <=> m < Height'
    BY <1>0, <1>2, <1>3 DEF AccountInOrder, TxNonces
  <2>u. \A m \in TxNonces : account'[m].st = "unused" <=> account[m].st = "unused"
    BY <1>0, <1>2
  <2>3. \A k, m \in TxNonces : k < m /\ account'[m].st # "unused" => account'[k].st # "unused"
    BY <1>0, <2>u DEF AccountInOrder
  <2>4. ASSUME NEW m \in TxNonces, account'[m].st = "unused"
        PROVE  account'[m].does = Nothing
    <3>1. m # n
      BY <1>2, <2>4
    <3> QED BY <1>0, <1>2, <2>4, <3>1 DEF AccountInOrder
  <2> QED BY <2>1, <2>2, <2>3, <2>4 DEF AccountInOrder
<1> QED BY <1>0, <1>2, <1>3, <1>4

(* No other step touches the account. *)
LEMMA AccountStep ==
    ASSUME DeployInv, [Next]_vars
    PROVE  /\ account' \in AccountType /\ AccountInOrder' /\ Height' >= Height
           /\ \A n \in TxNonces : n < Height => account'[n] = account[n]
<1>0. /\ account \in AccountType /\ AccountInOrder /\ Height \in 0 .. MaxTx
  BY DEF DeployInv, TypeOK, AccountType, AccountInOrder
<1>1. ASSUME UNCHANGED account
      PROVE  /\ account' \in AccountType /\ AccountInOrder' /\ Height' = Height
             /\ \A n \in TxNonces : n < Height => account'[n] = account[n]
  BY <1>0, <1>1 DEF AccountInOrder, Height
<1>2. ASSUME NEW n \in TxNonces, Mine(n)
      PROVE  /\ account' \in AccountType /\ AccountInOrder' /\ Height' >= Height
             /\ \A m \in TxNonces : m < Height => account'[m] = account[m]
  BY <1>0, <1>2, MinedTx DEF TxNonces
<1>3. ASSUME NEW n \in TxNonces, NEW d \in Genesis \cup {Alien, Nothing}, NextNonce(n),
             account' = [account EXCEPT ![n] = [st |-> "pool", does |-> d]]
      PROVE  /\ account' \in AccountType /\ AccountInOrder' /\ Height' >= Height
             /\ \A m \in TxNonces : m < Height => account'[m] = account[m]
  <2>1. /\ account' \in AccountType /\ AccountInOrder' /\ Height' = Height /\ n >= Height
        /\ \A m \in TxNonces \ {n} : account'[m] = account[m]
    BY <1>3, NewTx
  <2> QED BY <1>0, <2>1 DEF TxNonces
<1>4. ASSUME NEW n \in TxNonces, Send(n)
      PROVE  /\ NextNonce(n) /\ run.files.genesis \in Genesis
             /\ account' = [account EXCEPT ![n] = [st |-> "pool", does |-> run.files.genesis]]
  <2>1. run.pc = "send" /\ run.files \in Files
    BY <1>4 DEF Send, DeployInv, TypeOK
  <2>2. run.files.genesis # None
    BY <2>1 DEF DeployInv, RunFiles
  <2> QED BY <1>4, <2>1, <2>2 DEF Send, Files
<1>5. ASSUME NEW n \in TxNonces, NEW d \in {Alien, Nothing}, OtherTx(n, d)
      PROVE  NextNonce(n) /\ account' = [account EXCEPT ![n] = [st |-> "pool", does |-> d]]
  BY <1>5 DEF OtherTx
<1>6. \/ UNCHANGED account
      \/ \E n \in TxNonces : Mine(n) \/ Send(n) \/ \E d \in {Alien, Nothing} : OtherTx(n, d)
  BY DEF Next, RunStep, vars, base, RunDies, StartGenesis, StartDeploy, OtherPush, Count, LookPast,
         LookSkipped, LookFound, NothingFound, AskHeight, Halve, AskReceipt, SendFails, Confirmed,
         TimesOut, CodeSeen, CheckAndWrite, Push
<1> QED BY <1>0, <1>1, <1>2, <1>3, <1>4, <1>5, <1>6

-----------------------------------------------------------------------------
(* main, and the files of the run. *)

(* What a commit names carries its genesis hash for ever. *)
LEMMA CarriedStays ==
    ASSUME DeployInv, [Next]_vars, NEW n \in TxNonces, NEW g, Carries(n, Height, g)
    PROVE  Carries(n, Height, g)'
<1>1. n < Height /\ n < Height' /\ account'[n] = account[n]
  BY AccountStep DEF Carries, CodeAt, DeployInv, AccountInOrder, TxNonces
<1> QED BY <1>1 DEF Carries, CodeAt

LEMMA Appended ==
    ASSUME DeployInv, NEW f \in Files, main' = Append(main, f)
    PROVE  /\ main' \in Seq(Files) /\ Len(main) \in Nat /\ Len(main') = Len(main) + 1
           /\ \A c \in 1 .. Len(main) : main'[c] = main[c]
           /\ main'[Len(main) + 1] = f
BY AppendProperties DEF DeployInv, TypeOK

LEMMA MainStep ==
    ASSUME DeployInv, [Next]_vars
    PROVE  \/ main' = main
           \/ \E f \in Files :
                 /\ main' = Append(main, f)
                 /\ f = main[Len(main)] \/ (run.pc = "push" /\ run.at = Len(main) /\ f = run.files)
<1>1. main' = main \/ Push \/ OtherPush
  BY DEF Next, RunStep, vars, base, RunDies, StartGenesis, StartDeploy, Count, LookPast, Mine, Send,
         LookSkipped, LookFound, NothingFound, AskHeight, Halve, AskReceipt, SendFails, Confirmed,
         TimesOut, CodeSeen, CheckAndWrite, OtherTx
<1>2. run.files \in Files /\ main[Len(main)] \in Files
  BY DEF DeployInv, TypeOK
<1> QED BY <1>1, <1>2 DEF Push, OtherPush

LEMMA MainLonger ==
    ASSUME DeployInv, [Next]_vars
    PROVE  /\ main' \in Seq(Files) /\ Len(main) \in Nat /\ Len(main) >= 1
           /\ Len(main') \in Nat /\ Len(main') >= Len(main)
           /\ \A c \in 1 .. Len(main) : c \in 1 .. Len(main') /\ main'[c] = main[c]
<1>1. main \in Seq(Files) /\ Len(main) \in Nat /\ Len(main) >= 1
  BY DEF DeployInv, TypeOK
<1>2. CASE main' = main
  BY <1>1, <1>2
<1>3. ASSUME NEW f \in Files, main' = Append(main, f)
      PROVE  /\ main' \in Seq(Files) /\ Len(main') \in Nat /\ Len(main') >= Len(main)
             /\ \A c \in 1 .. Len(main) : c \in 1 .. Len(main') /\ main'[c] = main[c]
  BY <1>1, <1>3, Appended
<1> QED BY <1>1, <1>2, <1>3, MainStep

LEMMA NextMain ==
    ASSUME DeployInv, [Next]_vars
    PROVE  GenesisFirst' /\ RecordsTrue' /\ MainKeeps'
<1>1. /\ main \in Seq(Files) /\ GenesisFirst /\ RecordsTrue /\ MainKeeps /\ RunFiles
      /\ \A c \in 1 .. Len(main) : main[c] \in Files
  BY DEF DeployInv, TypeOK
<1>2. \A n \in TxNonces : \A g : Carries(n, Height, g) => Carries(n, Height, g)'
  BY CarriedStays
<1>3. CASE main' = main
  <2>1. RecordsTrue'
    <3> SUFFICES ASSUME NEW c \in 1 .. Len(main), main[c].config # None
                 PROVE  /\ Carries(main[c].config, Height, main[c].genesis)'
                        /\ main[c].record = [at |-> main[c].config, block |-> main[c].config + 1]
      BY <1>3 DEF RecordsTrue
    <3>1. PICK n, g : n \in TxNonces /\ n = main[c].config /\ g = main[c].genesis
      BY <1>1 DEF Files
    <3>2. Carries(n, Height, g)'
      BY <1>1, <1>2, <3>1 DEF RecordsTrue
    <3> QED BY <1>1, <1>3, <3>1, <3>2 DEF RecordsTrue, Carries, CodeAt
  <2> QED BY <1>1, <1>3, <2>1 DEF GenesisFirst, MainKeeps
<1>4. ASSUME NEW f \in Files, main' = Append(main, f),
             f = main[Len(main)] \/ (run.pc = "push" /\ run.at = Len(main) /\ f = run.files)
      PROVE  GenesisFirst' /\ RecordsTrue' /\ MainKeeps'
  <2>1. /\ Len(main) \in Nat /\ Len(main) >= 1 /\ Len(main') = Len(main) + 1
        /\ \A c \in 1 .. Len(main) : main'[c] = main[c]
        /\ main'[Len(main) + 1] = f
    BY <1>4, Appended DEF DeployInv, TypeOK
  <2>2. \A c \in 1 .. Len(main') : c \in 1 .. Len(main) \/ c = Len(main) + 1
    BY <2>1
  <2>3. Len(main) \in 1 .. Len(main)
    BY <2>1
  <2>4. /\ f.config # None =>
              /\ f.genesis # None /\ Carries(f.config, Height, f.genesis)
              /\ f.record = [at |-> f.config, block |-> f.config + 1]
        /\ main[Len(main)].genesis # None => f.genesis = main[Len(main)].genesis
        /\ main[Len(main)].config # None => f.config = main[Len(main)].config
    <3>1. CASE f = main[Len(main)]
      BY <1>1, <2>3, <3>1 DEF GenesisFirst, RecordsTrue
    <3>2. CASE run.pc = "push" /\ run.at = Len(main) /\ f = run.files
      BY <1>1, <3>2 DEF RunFiles
    <3> QED BY <1>4, <3>1, <3>2
  <2>5. GenesisFirst'
    BY <1>1, <2>1, <2>2, <2>4 DEF GenesisFirst
  <2>6. RecordsTrue'
    <3> SUFFICES ASSUME NEW c \in 1 .. Len(main'), NEW e, e = main'[c], e.config # None
                 PROVE  /\ Carries(e.config, Height, e.genesis)'
                        /\ e.record = [at |-> e.config, block |-> e.config + 1]
      BY DEF RecordsTrue, Carries, CodeAt
    <3>1. /\ e \in Files /\ Carries(e.config, Height, e.genesis)
          /\ e.record = [at |-> e.config, block |-> e.config + 1]
      BY <1>1, <2>1, <2>2, <2>4 DEF RecordsTrue
    <3>2. e.config \in TxNonces
      BY <3>1 DEF Files
    <3> QED BY <1>2, <3>1, <3>2
  <2>7. MainKeeps'
    <3> SUFFICES ASSUME NEW c \in 1 .. Len(main'), NEW d \in 1 .. Len(main'), c < d
                 PROVE  /\ main'[c].genesis # None => main'[d].genesis = main'[c].genesis
                        /\ main'[c].config # None => main'[d].config = main'[c].config
      BY DEF MainKeeps
    <3>1. c \in 1 .. Len(main) /\ main'[c] = main[c]
      BY <2>1
    <3>2. CASE d \in 1 .. Len(main)
      BY <1>1, <2>1, <3>1, <3>2 DEF MainKeeps
    <3>3. CASE d = Len(main) + 1
      <4>1. c < Len(main) \/ c = Len(main)
        BY <2>1, <3>1
      <4>2. /\ main[c].genesis # None => main[Len(main)].genesis = main[c].genesis
            /\ main[c].config # None => main[Len(main)].config = main[c].config
        BY <1>1, <2>3, <3>1, <4>1 DEF MainKeeps
      <4> QED BY <2>1, <2>4, <3>1, <3>3, <4>2
    <3> QED BY <2>2, <3>2, <3>3
  <2> QED BY <2>5, <2>6, <2>7
<1> QED BY <1>3, <1>4, MainStep

-----------------------------------------------------------------------------
(* The run: its type, and what its files and its address are worth. *)

RunType == [pc : {"idle", "count", "look", "height", "bisect", "send", "wait", "code", "check", "push"},
            at : Nat, adopt : BOOLEAN, seen : 0 .. MaxTx, n : 0 .. MaxTx,
            lo : 0 .. MaxTx, hi : 0 .. MaxTx, addr : TxNonces \cup {None}, files : Files]

LEMMA IdleTyped == Idle \in RunType /\ Idle.pc = "idle"
<1>1. Idle.files \in Files
  BY DEF Idle, Files
<1> QED BY <1>1, DeployAssumption DEF Idle, RunType, Files

LEMMA RunTyped ==
    ASSUME DeployInv, [Next]_vars
    PROVE  run' \in RunType
<1>0. /\ run \in RunType /\ main \in Seq(Files) /\ Height \in 0 .. MaxTx /\ MaxTx \in Nat
      /\ 0 \in 0 .. MaxTx
      /\ RunFiles /\ made \in 0 .. MaxGenesis /\ MaxGenesis \in Nat
      /\ \A c \in 1 .. Len(main) : c \in Nat /\ main[c] \in Files
      /\ \A n \in TxNonces : n + 1 \in 0 .. MaxTx /\ n \in 0 .. MaxTx
  BY DeployAssumption DEF DeployInv, TypeOK, RunType, AccountInOrder, TxNonces
<1>i. CASE run' \in {run, Idle}
  BY <1>0, <1>i, IdleTyped
<1>1. ASSUME NEW c \in 1 .. Len(main), StartGenesis(c)
      PROVE  run' \in RunType
  <2>1. made + 1 \in Genesis
    BY <1>0, <1>1 DEF StartGenesis, Genesis
  <2>2. [main[c] EXCEPT !.genesis = made + 1] \in Files
    BY <1>0, <2>1 DEF Files
  <2> QED BY <1>0, <1>1, <2>2, IdleTyped DEF StartGenesis, RunType
<1>2. ASSUME NEW c \in 1 .. Len(main), NEW adopt \in BOOLEAN, StartDeploy(c, adopt)
      PROVE  run' \in RunType
  BY <1>0, <1>2, IdleTyped DEF StartDeploy, RunType
<1>3. ASSUME NEW v \in 0 .. Height, Count(v)
      PROVE  run' \in RunType
  <2>1. v \in 0 .. MaxTx
    BY <1>0
  <2> QED BY <1>0, <1>3, <2>1 DEF Count, RunType
<1>4. CASE LookPast \/ LookSkipped
  <2>1. run.n + 1 \in 0 .. MaxTx /\ run' = [run EXCEPT !.n = run.n + 1]
    BY <1>0, <1>4 DEF LookPast, LookSkipped, Looking, RunType
  <2> QED BY <1>0, <2>1 DEF RunType
<1>5. CASE LookFound
  <2>1. run.n \in TxNonces
    BY <1>0, <1>5 DEF LookFound, Looking, RunType, Carries, CodeAt, TxNonces
  <2> QED BY <1>0, <1>5, <2>1 DEF LookFound, RunType
<1>6. CASE NothingFound
  BY <1>0, <1>6, <1>i DEF NothingFound, RunType
<1>7. ASSUME NEW v \in 0 .. Height, AskHeight(v)
      PROVE  run' \in RunType
  <2>1. v \in 0 .. MaxTx
    BY <1>0
  <2> QED BY <1>0, <1>7, <2>1 DEF AskHeight, RunType
<1>8. CASE Halve
  <2>1. PICK mid : mid = (run.lo + run.hi) \div 2
    OBVIOUS
  <2>2. run.lo \in 0 .. MaxTx /\ run.hi \in 0 .. MaxTx /\ run.lo < run.hi
    BY <1>0, <1>8 DEF Halve, RunType
  <2>3. mid \in 0 .. MaxTx /\ mid + 1 \in 0 .. MaxTx
    BY <1>0, <2>1, <2>2
  <2>4. run' = [run EXCEPT !.hi = mid] \/ run' = [run EXCEPT !.lo = mid + 1]
    BY <1>8, <2>1 DEF Halve
  <2> QED BY <1>0, <2>3, <2>4 DEF RunType
<1>9. CASE AskReceipt
  BY <1>0, <1>9, <1>i DEF AskReceipt, RunType
<1>10. ASSUME NEW n \in TxNonces, Send(n)
       PROVE  run' \in RunType
  BY <1>0, <1>10, <1>i DEF Send, RunType
<1>11. CASE Confirmed
  <2>1. run.addr \in TxNonces
    BY <1>0, <1>11 DEF Confirmed, RunFiles, Addressed, RunType
  <2> QED BY <1>0, <1>11, <1>i, <2>1 DEF Confirmed, RunType
<1>12. CASE CodeSeen
  BY <1>0, <1>12 DEF CodeSeen, RunType
<1>13. CASE CheckAndWrite
  <2>1. run.addr \in TxNonces /\ run.lo = run.addr + 1
    BY <1>0, <1>13 DEF CheckAndWrite, RunFiles, Addressed, RunType
  <2>2. [at |-> run.addr, block |-> run.lo] \in Record
    BY <1>0, <2>1 DEF Record, TxNonces
  <2>3. [run.files EXCEPT !.config = run.addr, !.record = [at |-> run.addr, block |-> run.lo]] \in Files
    BY <1>0, <2>1, <2>2 DEF Files, RunType
  <2>4. run' = [run EXCEPT !.pc = "push",
                   !.files = [run.files EXCEPT !.config = run.addr,
                                               !.record = [at |-> run.addr, block |-> run.lo]]]
    BY <1>0, <1>13 DEF CheckAndWrite, RunType
  <2> QED BY <1>0, <2>3, <2>4 DEF RunType
<1>14. \/ run' \in {run, Idle}
       \/ \E c \in 1 .. Len(main) : StartGenesis(c) \/ \E adopt \in BOOLEAN : StartDeploy(c, adopt)
       \/ \E v \in 0 .. Height : Count(v) \/ AskHeight(v)
       \/ LookPast \/ LookSkipped \/ LookFound \/ NothingFound \/ Halve \/ AskReceipt
       \/ \E n \in TxNonces : Send(n)
       \/ Confirmed \/ CodeSeen \/ CheckAndWrite
  BY DEF Next, RunStep, vars, RunDies, BreakOff, OtherPush, Mine, OtherTx, SendFails, TimesOut, Push
<1> QED BY <1>14, <1>i, <1>1, <1>2, <1>3, <1>4, <1>5, <1>6, <1>7, <1>8, <1>9, <1>10, <1>11, <1>12, <1>13

LEMMA NextDeployTypeOK ==
    ASSUME DeployInv, [Next]_vars
    PROVE  TypeOK'
<1>1. account' \in AccountType /\ main' \in Seq(Files) /\ Len(main') >= 1 /\ run' \in RunType
  BY AccountStep, MainLonger, RunTyped
<1>2. made' \in 0 .. MaxGenesis /\ deaths' \in 0 .. MaxDeaths /\ others' \in 0 .. MaxOther
  <2>1. made' \in {made, made + 1} /\ (made' # made => made < MaxGenesis)
    BY DEF Next, RunStep, vars, base, RunDies, StartGenesis, StartDeploy, OtherPush, Count, LookPast,
           LookSkipped, LookFound, NothingFound, AskHeight, Halve, AskReceipt, SendFails, Confirmed,
           TimesOut, CodeSeen, CheckAndWrite, Push, Send, Mine, OtherTx
  <2>2. deaths' \in {deaths, deaths + 1} /\ (deaths' # deaths => deaths < MaxDeaths)
    BY DEF Next, RunStep, vars, base, RunDies, StartGenesis, StartDeploy, OtherPush, Count, LookPast,
           LookSkipped, LookFound, NothingFound, AskHeight, Halve, AskReceipt, SendFails, Confirmed,
           TimesOut, CodeSeen, CheckAndWrite, Push, Send, Mine, OtherTx
  <2>3. others' \in {others, others + 1} /\ (others' # others => others < MaxOther)
    BY DEF Next, RunStep, vars, base, RunDies, StartGenesis, StartDeploy, OtherPush, Count, LookPast,
           LookSkipped, LookFound, NothingFound, AskHeight, Halve, AskReceipt, SendFails, Confirmed,
           TimesOut, CodeSeen, CheckAndWrite, Push, Send, Mine, OtherTx
  <2> QED BY <2>1, <2>2, <2>3, DeployAssumption DEF DeployInv, TypeOK
<1>3. excused' \in BOOLEAN
  BY DEF DeployInv, TypeOK, Next, RunStep, vars, base, RunDies, BreakOff, FromNode, StartGenesis,
         StartDeploy, OtherPush, Count, LookPast, LookSkipped, LookFound, NothingFound, AskHeight,
         Halve, AskReceipt, SendFails, Confirmed, TimesOut, CodeSeen, CheckAndWrite, Push, Send, Mine,
         OtherTx
<1> QED BY <1>1, <1>2, <1>3 DEF TypeOK, AccountType, RunType

(* A run that goes on keeps the commit it works on, and its files till they   *)
(* are written.                                                              *)
LEMMA RunGoesOn ==
    ASSUME DeployInv, [Next]_vars, run.pc \in Searching, run'.pc \in Searching,
           run'.at = run.at, run'.files = run.files,
           run'.pc = "count" => run'.n = 0,
           run'.pc \in Addressed => run'.addr # None,
           run'.pc \in {"code", "check"} => run'.lo = run'.addr + 1,
           run'.pc = "look" => run'.seen <= Height'
    PROVE  RunFiles'
<1>1. /\ run.pc # "idle" /\ run.at \in 1 .. Len(main) /\ run.files = main[run.at]
      /\ run.files.genesis # None /\ main[run.at].config = None
  BY DEF DeployInv, RunFiles, Searching
<1>2. run.at \in 1 .. Len(main') /\ main'[run.at] = main[run.at]
  BY <1>1, MainLonger
<1> QED BY <1>1, <1>2 DEF RunFiles, Searching

LEMMA NextRunFiles ==
    ASSUME DeployInv, [Next]_vars
    PROVE  RunFiles'
<1>0. /\ run \in RunType /\ RunFiles /\ GenesisFirst /\ main \in Seq(Files) /\ Len(main) \in Nat
      /\ Height \in Nat /\ Height' \in Nat /\ Height' >= Height
      /\ \A c \in 1 .. Len(main) : c \in Nat /\ main[c] \in Files /\ c \in 1 .. Len(main') /\ main'[c] = main[c]
  BY AccountStep, MainLonger, DeployAssumption DEF DeployInv, TypeOK, RunType, AccountInOrder
<1>1. CASE run'.pc = "idle"
  BY <1>1 DEF RunFiles
<1>2. CASE run' = run /\ run.pc # "idle"
  <2>1. run.at \in 1 .. Len(main') /\ main'[run.at] = main[run.at]
    BY <1>0, <1>2 DEF RunFiles
  <2>2. run.files.config # None => Carries(run.files.config, Height, run.files.genesis)'
    <3> SUFFICES ASSUME run.files.config # None
                 PROVE  Carries(run.files.config, Height, run.files.genesis)'
      OBVIOUS
    <3>1. PICK n, g : n \in TxNonces /\ n = run.files.config /\ g = run.files.genesis
      BY <1>0 DEF RunType, Files
    <3>2. Carries(n, Height, g)
      BY <1>0, <1>2, <3>1 DEF RunFiles
    <3>3. Carries(n, Height, g)'
      BY <3>1, <3>2, CarriedStays
    <3> QED BY <1>2, <3>1, <3>3 DEF Carries, CodeAt
  <2>3. run.pc = "look" => run.seen <= Height'
    BY <1>0, <1>2 DEF RunFiles, RunType
  <2> QED BY <1>0, <1>2, <2>1, <2>2, <2>3 DEF RunFiles, Carries, CodeAt
<1>3. ASSUME NEW c \in 1 .. Len(main), StartGenesis(c)
      PROVE  RunFiles'
  <2>1. /\ run'.pc = "push" /\ run'.at = c /\ run'.files.genesis = made + 1
        /\ run'.files.config = main[c].config /\ main[c].genesis = None
    BY <1>0, <1>3 DEF StartGenesis, Idle, Files
  <2>2. main[c].config = None
    BY <1>0, <2>1 DEF GenesisFirst
  <2>3. made + 1 # None
    BY DeployAssumption DEF DeployInv, TypeOK
  <2> QED BY <1>0, <2>1, <2>2, <2>3 DEF RunFiles, Searching, Addressed
<1>4. ASSUME NEW c \in 1 .. Len(main), NEW adopt \in BOOLEAN, StartDeploy(c, adopt)
      PROVE  RunFiles'
  <2>1. /\ run'.pc = "count" /\ run'.at = c /\ run'.files = main[c] /\ run'.n = 0
        /\ main[c].genesis # None /\ main[c].config = None
    BY <1>0, <1>4 DEF StartDeploy, Idle
  <2> QED BY <1>0, <2>1 DEF RunFiles, Searching, Addressed
<1>5. ASSUME NEW v \in 0 .. Height, Count(v)
      PROVE  RunFiles'
  <2>1. /\ run.pc = "count" /\ run'.pc = "look" /\ run'.seen = v /\ run'.at = run.at
        /\ run'.files = run.files
    BY <1>0, <1>5 DEF Count, RunType
  <2> QED BY <1>0, <2>1, RunGoesOn DEF Searching, Addressed
<1>6. CASE LookPast \/ LookSkipped
  <2>1. /\ run.pc = "look" /\ run'.pc = "look" /\ run'.seen = run.seen /\ run'.at = run.at
        /\ run'.files = run.files
    BY <1>0, <1>6 DEF LookPast, LookSkipped, Looking, RunType
  <2>2. run.seen <= Height'
    BY <1>0, <2>1 DEF RunFiles, RunType
  <2> QED BY <2>1, <2>2, RunGoesOn DEF Searching, Addressed
<1>7. CASE LookFound
  <2>1. /\ run.pc = "look" /\ run'.pc = "height" /\ run'.addr = run.n /\ run'.at = run.at
        /\ run'.files = run.files
    BY <1>0, <1>7 DEF LookFound, Looking, RunType
  <2>2. run.n # None
    BY <1>0, DeployAssumption DEF RunType
  <2> QED BY <2>1, <2>2, RunGoesOn DEF Searching, Addressed
<1>8. CASE NothingFound /\ run'.pc # "idle"
  <2>1. run.pc = "look" /\ run'.pc = "send" /\ run'.at = run.at /\ run'.files = run.files
    BY <1>0, <1>8, IdleTyped DEF NothingFound, RunType
  <2> QED BY <2>1, RunGoesOn DEF Searching, Addressed
<1>9. ASSUME NEW v \in 0 .. Height, AskHeight(v)
      PROVE  RunFiles'
  <2>1. /\ run.pc = "height" /\ run'.pc = "bisect" /\ run'.at = run.at /\ run'.files = run.files
        /\ run'.addr = run.addr
    BY <1>0, <1>9 DEF AskHeight, RunType
  <2>2. run.addr # None
    BY <1>0, <2>1 DEF RunFiles, Addressed
  <2> QED BY <2>1, <2>2, RunGoesOn DEF Searching, Addressed
<1>10. CASE Halve
  <2>1. /\ run.pc = "bisect" /\ run'.pc = "bisect" /\ run'.at = run.at /\ run'.files = run.files
        /\ run'.addr = run.addr
    BY <1>0, <1>10 DEF Halve, RunType
  <2>2. run.addr # None
    BY <1>0, <2>1 DEF RunFiles, Addressed
  <2> QED BY <2>1, <2>2, RunGoesOn DEF Searching, Addressed
<1>11. CASE AskReceipt /\ run'.pc # "idle"
  <2>1. /\ run.pc = "bisect" /\ run'.pc = "code" /\ run'.at = run.at /\ run'.files = run.files
        /\ run'.addr = run.addr /\ run'.lo = run.lo /\ run.lo = run.addr + 1
    BY <1>0, <1>11, IdleTyped DEF AskReceipt, RunType
  <2>2. run.addr # None
    BY <1>0, <2>1 DEF RunFiles, Addressed
  <2> QED BY <2>1, <2>2, RunGoesOn DEF Searching, Addressed
<1>12. ASSUME NEW n \in TxNonces, Send(n), run'.pc # "idle"
       PROVE  RunFiles'
  <2>1. /\ run.pc = "send" /\ run'.pc = "wait" /\ run'.at = run.at /\ run'.files = run.files
        /\ run'.addr = n
    BY <1>0, <1>12, IdleTyped DEF Send, RunType
  <2>2. n # None
    BY DeployAssumption DEF TxNonces
  <2> QED BY <2>1, <2>2, RunGoesOn DEF Searching, Addressed
<1>13. CASE Confirmed /\ run'.pc # "idle"
  <2>1. /\ run.pc = "wait" /\ run'.pc = "code" /\ run'.at = run.at /\ run'.files = run.files
        /\ run'.addr = run.addr /\ run'.lo = run.addr + 1
    BY <1>0, <1>13, IdleTyped DEF Confirmed, RunType
  <2>2. run.addr # None
    BY <1>0, <2>1 DEF RunFiles, Addressed
  <2> QED BY <2>1, <2>2, RunGoesOn DEF Searching, Addressed
<1>14. CASE CodeSeen
  <2>1. /\ run.pc = "code" /\ run'.pc = "check" /\ run'.at = run.at /\ run'.files = run.files
        /\ run'.addr = run.addr /\ run'.lo = run.lo
    BY <1>0, <1>14 DEF CodeSeen, RunType
  <2>2. run.addr # None /\ run.lo = run.addr + 1
    BY <1>0, <2>1 DEF RunFiles, Addressed
  <2> QED BY <2>1, <2>2, RunGoesOn DEF Searching, Addressed
<1>15. CASE CheckAndWrite
  <2>1. /\ run.pc = "check" /\ run'.pc = "push" /\ run'.at = run.at
        /\ run'.files.genesis = run.files.genesis /\ run'.files.config = run.addr
        /\ run'.files.record = [at |-> run.addr, block |-> run.lo]
        /\ Carries(run.addr, Height, run.files.genesis) /\ main' = main
    BY <1>0, <1>15 DEF CheckAndWrite, RunType, Files, base
  <2>2. /\ run.lo = run.addr + 1 /\ run.at \in 1 .. Len(main) /\ main[run.at].config = None
        /\ run.files = main[run.at] /\ run.files.genesis # None
    BY <1>0, <2>1 DEF RunFiles, Searching
  <2>3. PICK n, g : n \in TxNonces /\ n = run.addr /\ g = run.files.genesis
    BY <1>0, <2>1, <2>2, DeployAssumption DEF RunFiles, Addressed, RunType
  <2>4. Carries(n, Height, g)'
    BY <2>1, <2>3, CarriedStays
  <2>5. Carries(run.files.config, Height, run.files.genesis)'
    BY <2>1, <2>3, <2>4 DEF Carries, CodeAt
  <2> QED BY <2>1, <2>2, <2>5 DEF RunFiles, Searching, Addressed
<1>16. \/ run'.pc = "idle" \/ (run' = run /\ run.pc # "idle")
       \/ \E c \in 1 .. Len(main) : StartGenesis(c) \/ \E adopt \in BOOLEAN : StartDeploy(c, adopt)
       \/ \E v \in 0 .. Height : Count(v) \/ AskHeight(v)
       \/ LookPast \/ LookSkipped \/ LookFound \/ NothingFound \/ Halve \/ AskReceipt
       \/ \E n \in TxNonces : Send(n)
       \/ Confirmed \/ CodeSeen \/ CheckAndWrite
  BY IdleTyped DEF Next, RunStep, vars, RunDies, BreakOff, OtherPush, Mine, OtherTx, SendFails, TimesOut, Push
<1> QED BY <1>1, <1>2, <1>3, <1>4, <1>5, <1>6, <1>7, <1>8, <1>9, <1>10, <1>11, <1>12, <1>13, <1>14,
           <1>15, <1>16

-----------------------------------------------------------------------------
(* One contract per genesis hash, while nothing excuses a second.            *)

(* An excuse is for good. *)
LEMMA ExcusedStays ==
    ASSUME [Next]_vars, excused
    PROVE  excused'
BY DEF Next, RunStep, vars, RunDies, BreakOff, FromNode, StartGenesis,
       StartDeploy, OtherPush, Count, LookPast, LookSkipped, LookFound, NothingFound, AskHeight,
       Halve, AskReceipt, SendFails, Confirmed, TimesOut, CodeSeen, CheckAndWrite, Push, Send, Mine,
       OtherTx

(* Only a run's Send makes a contract of this ledger. *)
LEMMA OthersCreateNothing ==
    ASSUME DeployInv, [Next]_vars, \A n \in TxNonces : ~Send(n), NEW n \in TxNonces,
           account'[n].does \in Genesis
    PROVE  /\ account[n].does = account'[n].does
           /\ account'[n].st = "pool" => account[n].st = "pool"
<1>1. Alien \notin Genesis /\ Nothing \notin Genesis
  BY DeployAssumption DEF Genesis
<1>2. CASE UNCHANGED account
  BY <1>2
<1>3. ASSUME NEW m \in TxNonces, Mine(m)
      PROVE  /\ account[n].does = account'[n].does
             /\ account'[n].st = "pool" => account[n].st = "pool"
  BY <1>1, <1>3, MinedTx
<1>4. ASSUME NEW m \in TxNonces, NEW d \in {Alien, Nothing}, OtherTx(m, d)
      PROVE  /\ account[n].does = account'[n].does
             /\ account'[n].st = "pool" => account[n].st = "pool"
  <2>1. /\ account'[m] = [st |-> "pool", does |-> d]
        /\ \A k \in TxNonces \ {m} : account'[k] = account[k]
    BY <1>4, NewTx DEF OtherTx
  <2>2. n # m
    BY <1>1, <2>1
  <2> QED BY <2>1, <2>2
<1>5. UNCHANGED account \/ \E m \in TxNonces : Mine(m) \/ \E d \in {Alien, Nothing} : OtherTx(m, d)
  BY DEF Next, RunStep, vars, base, RunDies, StartGenesis, StartDeploy, OtherPush, Count, LookPast,
         LookSkipped, LookFound, NothingFound, AskHeight, Halve, AskReceipt, SendFails, Confirmed,
         TimesOut, CodeSeen, CheckAndWrite, Push
<1> QED BY <1>2, <1>3, <1>4, <1>5

LEMMA NextOnce ==
    ASSUME DeployInv, [Next]_vars, ~excused'
    PROVE  PoolIsRuns' /\ Looked' /\ CreatedOnce'
<1>0. /\ PoolIsRuns /\ Looked /\ CreatedOnce /\ RunFiles /\ AccountInOrder
      /\ run \in RunType /\ Height \in 0 .. MaxTx
      /\ Alien \notin Genesis /\ Nothing \notin Genesis
  BY ExcusedStays, DeployAssumption DEF DeployInv, TypeOK, RunType, AccountInOrder, Genesis
<1>1. ASSUME NEW n \in TxNonces, Send(n)
      PROVE  PoolIsRuns' /\ Looked' /\ CreatedOnce'
  <2> DEFINE g == run.files.genesis
  <2>1. /\ run.pc = "send" /\ NextNonce(n) /\ run'.pc = "wait" /\ run'.addr = n
        /\ account' = [account EXCEPT ![n] = [st |-> "pool", does |-> g]]
    BY <1>0, <1>1 DEF Send, RunType
  <2>2. g \in Genesis
    BY <1>0, <2>1 DEF RunFiles, RunType, Files
  <2> HIDE DEF g
  <2>3. /\ account'[n] = [st |-> "pool", does |-> g]
        /\ \A m \in TxNonces \ {n} : account'[m] = account[m]
        /\ \A m \in TxNonces : m > n => account'[m].does = Nothing
    BY <2>1, <2>2, NewTx
  <2>4. PoolIsRuns'
    BY <1>0, <2>1, <2>3 DEF PoolIsRuns
  <2>5. Looked'
    BY <2>1 DEF Looked
  <2>6. \A m \in TxNonces : m < NonceLimit => account[m].does # g
    BY <1>0, <2>1 DEF Looked, g
  <2>7. CreatedOnce'
    <3> SUFFICES ASSUME NEW m \in TxNonces, NEW k \in TxNonces, m < k,
                        account'[m].does \in Genesis, account'[k].does = account'[m].does
                 PROVE  m >= NonceLimit
      BY DEF CreatedOnce
    <3>1. m # n
      BY <1>0, <2>3 DEF TxNonces
    <3>2. CASE k = n
      BY <2>3, <2>6, <3>1, <3>2, DeployAssumption DEF TxNonces
    <3>3. CASE k # n
      BY <1>0, <2>3, <3>1, <3>3 DEF CreatedOnce
    <3> QED BY <3>2, <3>3
  <2> QED BY <2>4, <2>5, <2>7
<1>2. ASSUME \A n \in TxNonces : ~Send(n)
      PROVE  PoolIsRuns' /\ Looked' /\ CreatedOnce'
  <2>1. \A n \in TxNonces : account'[n].does \in Genesis =>
            /\ account[n].does = account'[n].does
            /\ account'[n].st = "pool" => account[n].st = "pool"
    BY <1>2, OthersCreateNothing
  <2>2. CreatedOnce'
    BY <1>0, <2>1 DEF CreatedOnce
  <2>3. PoolIsRuns'
    <3>1. CASE run' = run
      BY <1>0, <2>1, <3>1 DEF PoolIsRuns
    <3>2. CASE run.pc # "wait"
      BY <1>0, <2>1, <3>2 DEF PoolIsRuns
    <3>3. CASE run' # run /\ run.pc = "wait"
      <4>1. Confirmed \/ BreakOff
        BY <1>2, <3>3 DEF Next, RunStep, vars, RunDies, StartGenesis, StartDeploy, OtherPush, Count,
               LookPast, LookSkipped, LookFound, NothingFound, AskHeight, Halve, AskReceipt,
               SendFails, TimesOut, CodeSeen, CheckAndWrite, Push, Mine, OtherTx, Looking
      <4>2. account[run.addr].st # "pool"
        BY <3>3, <4>1 DEF Confirmed, BreakOff
      <4> QED BY <1>0, <2>1, <4>2 DEF PoolIsRuns
    <3> QED BY <3>1, <3>2, <3>3
  <2>4. Looked'
    <3>1. CASE run' = run
      BY <1>0, <2>1, <3>1 DEF Looked, RunFiles, RunType, Files
    <3>2. ASSUME NEW v \in 0 .. Height, Count(v)
          PROVE  Looked'
      <4>1. /\ v = Height /\ account' = account /\ run.pc = "count" /\ run.n = 0
            /\ run'.pc = "look" /\ run'.seen = v /\ run'.n = 0
        <5>1. ~(v < Height) /\ account' = account /\ run.pc = "count"
          BY <3>2 DEF Count, FromNode, base
        <5>2. v = Height
          BY <1>0, <5>1, DeployAssumption
        <5>3. run.n = 0
          BY <1>0, <5>1 DEF RunFiles
        <5>4. run'.pc = "look" /\ run'.seen = v /\ run'.n = run.n
          BY <1>0, <3>2 DEF Count, RunType
        <5> QED BY <5>1, <5>2, <5>3, <5>4
      <4>2. ASSUME NEW n \in TxNonces, n >= Height
            PROVE  account[n].does \notin Genesis
        <5>1. account[n].st \in {"unused", "pool"}
          BY <1>0, <4>2 DEF AccountInOrder, DeployInv, TypeOK, TxType, TxNonces
        <5> QED BY <1>0, <4>1, <5>1 DEF AccountInOrder, PoolIsRuns
      <4> QED BY <4>1, <4>2 DEF Looked, TxNonces
    <3>3. CASE LookPast
      <4>1. /\ Looking /\ ~Carries(run.n, Height, run.files.genesis) /\ account' = account
            /\ run'.pc = "look" /\ run'.seen = run.seen /\ run'.n = run.n + 1 /\ run'.files = run.files
        <5>1. PICK v \in 0 .. Height : ~Carries(run.n, v, run.files.genesis) /\ ~(v < Height)
          BY <3>3 DEF LookPast, FromNode
        <5>2. v = Height
          BY <1>0, <5>1, DeployAssumption
        <5> QED BY <1>0, <3>3, <5>1, <5>2 DEF LookPast, Looking, base, RunType
      <4>2. run.files.genesis \in Genesis /\ run.n < Height /\ run.n \in TxNonces
        BY <1>0, <4>1, DeployAssumption DEF Looking, RunFiles, RunType, Files, TxNonces
      <4>3. account[run.n].does # run.files.genesis
        BY <4>1, <4>2 DEF Carries, CodeAt
      <4>4. \A n \in TxNonces : n < run.n + 1 => n < run.n \/ n = run.n
        BY <4>2 DEF TxNonces
      <4> QED BY <1>0, <4>1, <4>3, <4>4 DEF Looked, Looking
    <3>4. CASE NothingFound
      <4>1. /\ run.pc = "look" /\ (run.n >= run.seen \/ run.n >= NonceLimit) /\ account' = account
            /\ run'.pc # "look" /\ (run'.pc = "send" => run'.files = run.files)
        BY <1>0, <3>4, IdleTyped, DeployAssumption DEF NothingFound, Looking, base, RunType
      <4>2. run.files.genesis \in Genesis
        BY <1>0, <4>1 DEF RunFiles, RunType, Files
      <4>3. \A n \in TxNonces : n < NonceLimit => n < run.n \/ n >= run.seen
        BY <1>0, <4>1, DeployAssumption DEF RunType, TxNonces
      <4>4. \A n \in TxNonces : n < NonceLimit => account[n].does # run.files.genesis
        BY <1>0, <4>1, <4>2, <4>3 DEF Looked
      <4> QED BY <4>1, <4>4 DEF Looked
    <3>5. CASE run'.pc \notin {"look", "send"}
      BY <3>5 DEF Looked
    <3>6. \/ run' = run \/ run'.pc \notin {"look", "send"}
          \/ \E v \in 0 .. Height : Count(v)
          \/ LookPast \/ NothingFound
      <4>1. ~LookSkipped
        BY DEF LookSkipped
      <4>2. RunDies \/ SendFails \/ TimesOut \/ Push => run'.pc = "idle"
        BY IdleTyped DEF RunDies, SendFails, TimesOut, Push, BreakOff
      <4>3. \A c \in 1 .. Len(main) : StartGenesis(c) => run'.pc = "push"
        BY DEF StartGenesis, Idle
      <4>4. \A c \in 1 .. Len(main), adopt \in BOOLEAN : StartDeploy(c, adopt) => run'.pc = "count"
        BY DEF StartDeploy, Idle
      <4>5. LookFound \/ (\E v \in 0 .. Height : AskHeight(v)) \/ Halve \/ AskReceipt \/ Confirmed
            \/ CodeSeen \/ CheckAndWrite => run'.pc \notin {"look", "send"}
        BY <1>0, IdleTyped DEF LookFound, AskHeight, Halve, AskReceipt, Confirmed, CodeSeen,
               CheckAndWrite, RunType
      <4> QED BY <1>2, <4>1, <4>2, <4>3, <4>4, <4>5 DEF Next, RunStep, vars, Mine, OtherTx, OtherPush
    <3> QED BY <3>1, <3>2, <3>3, <3>4, <3>5, <3>6
  <2> QED BY <2>2, <2>3, <2>4
<1> QED BY <1>1, <1>2

LEMMA InitDeployInv ==
    ASSUME Init
    PROVE  DeployInv
<1>1. Idle.files \in Files /\ Idle.files.config = None /\ Idle.files.genesis = None
  BY DEF Idle, Files
<1>2. main = <<Idle.files>> /\ main \in Seq(Files) /\ Len(main) = 1 /\ main[1] = Idle.files
  BY <1>1 DEF Init
<1>3. TypeOK
  <2>1. account \in AccountType
    BY DEF Init, AccountType, TxType
  <2>2. run \in RunType
    BY IdleTyped DEF Init
  <2>3. made \in 0 .. MaxGenesis /\ deaths \in 0 .. MaxDeaths /\ others \in 0 .. MaxOther
    BY DeployAssumption DEF Init
  <2>4. Len(main) >= 1
    BY <1>2
  <2>5. excused \in BOOLEAN
    BY DEF Init
  <2> QED BY <1>2, <2>1, <2>2, <2>3, <2>4, <2>5 DEF TypeOK, AccountType, RunType
<1>4. \A n \in TxNonces : account[n].st = "unused" /\ account[n].does = Nothing
  BY DEF Init
<1>5. AccountInOrder
  <2>1. {n \in TxNonces : account[n].st = "mined"} = 0 .. 0 - 1
    BY <1>4
  <2>2. Height = 0
    BY <2>1, FirstNonces DEF Height
  <2> QED BY <1>4, <2>2, DeployAssumption DEF AccountInOrder, TxNonces
<1>6. GenesisFirst /\ RecordsTrue /\ MainKeeps
  BY <1>1, <1>2 DEF GenesisFirst, RecordsTrue, MainKeeps
<1>7. RunFiles /\ Looked
  BY IdleTyped DEF Init, RunFiles, Looked
<1>8. PoolIsRuns /\ CreatedOnce
  BY <1>4, DeployAssumption DEF PoolIsRuns, CreatedOnce, Genesis
<1> QED BY <1>3, <1>5, <1>6, <1>7, <1>8 DEF DeployInv

LEMMA NextDeployInv ==
    ASSUME DeployInv, [Next]_vars
    PROVE  DeployInv'
BY NextDeployTypeOK, AccountStep, NextMain, NextRunFiles, NextOnce DEF DeployInv

-----------------------------------------------------------------------------
(* The invariant of genesis.yml and deploy.yml: what the run's files and the  *)
(* address in its hands are worth, and what a search has ruled out.           *)
THEOREM DeployInvariant == Spec => []DeployInv
BY InitDeployInv, NextDeployInv, PTL DEF Spec

(* There is one contract per genesis hash, whatever runs die or start from    *)
(* old commits, unless a node was behind, a call was passed over, or a run    *)
(* left its transaction in the pool; a contract beyond find_deployment's      *)
(* reach does not count.                                                      *)
THEOREM DeployDeployedOnce == Spec => []DeployedOnce
<1>1. DeployInv => DeployedOnce
  BY DEF DeployInv, CreatedOnce, DeployedOnce, Carries, CodeAt
<1> QED BY <1>1, DeployInvariant, PTL

(* What any commit of main names was created with the genesis hash of that    *)
(* commit's block 0, in the block that deploy.json says.                      *)
THEOREM DeployRecordsTrue == Spec => []RecordsTrue
<1>1. DeployInv => RecordsTrue
  BY DEF DeployInv
<1> QED BY <1>1, DeployInvariant, PTL

(* main never changes its block 0 or its contract.                            *)
THEOREM DeployMainKeeps == Spec => []MainKeeps
<1>1. DeployInv => MainKeeps
  BY DEF DeployInv
<1> QED BY <1>1, DeployInvariant, PTL
=============================================================================
