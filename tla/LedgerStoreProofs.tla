------------------------- MODULE LedgerStoreProofs -------------------------
(***************************************************************************)
(* The block directory, for any number of blocks, processes, deaths and     *)
(* devices: what can be read there is signed and approved, whoever raced;   *)
(* HEAD names a block that is there; and, when commands come one at a time, *)
(* the blocks are linked whatever was killed in the middle, what the writer *)
(* leaves verify_chain accepts, and the directory is an append-only log.    *)
(*                                                                         *)
(* verify_chain looks at files, while a block is built five file operations *)
(* before it is one.  So the invariant says of the block in a process's     *)
(* hands, and of what lies under a .tmp name, all that is said of a file    *)
(* (AllGood), and, for commands one at a time, how the block in hand        *)
(* continues the files and how far it has got (Prepared); that there are no *)
(* holes, without which "up to the first absent file" is not "all"; and     *)
(* where HEAD is (HeadTrue, HeadWritten).                                   *)
(***************************************************************************)
EXTENDS LedgerStore, SequenceTheorems, TLAPS

Good(b, i) ==
    /\ b \in Block /\ b.index = i /\ b.validator = Key
    /\ b.v = 1 => i = 0
    /\ b.v = 2 => b.dev \in Devices /\ b.key \in Keys /\ (rotated = 0 => Approved(b))

AllGood ==
    /\ \A i \in Index : files[i] \notin {NoFile, Torn} => Good(files[i], i)
    /\ \A i \in Index : tmp[i] \notin {NoFile, Torn} => Good(tmp[i], i)
    /\ \A p \in Procs : run[p].pc # "idle" => Good(run[p].blk, run[p].blk.index)

HeadThere ==
    /\ head \notin {NoFile, Torn} => files[head.index] # NoFile
    /\ \A p \in Procs : run[p].pc \in {"openhead", "writehead"} => files[run[p].blk.index] # NoFile

OneRuns == \A p, q \in Procs : run[p].pc # "idle" /\ run[q].pc # "idle" => p = q

NoHoles ==
    \A i \in Index : files[i] # NoFile =>
        /\ Readable(i)
        /\ \A j \in 0 .. i : files[j] # NoFile

(* A block that continues the files before it. *)
Continues(b) ==
    b.index > 0 => /\ files[b.index - 1] \notin {NoFile, Torn}
                   /\ b.prev = files[b.index - 1].hash
                   /\ b.when > files[b.index - 1].when
                   /\ \A j \in 0 .. b.index - 1 : files[j].nonce # b.nonce

Linked == \A i \in Index : Readable(i) => Continues(files[i])

HeadTrue ==
    head \notin {NoFile, Torn} => /\ files[head.index] # NoFile
                                  /\ head = HeadOf(files[head.index])
                                  /\ \A i \in Index : i >= head.index + 2 => files[i] = NoFile

(* How far a command is. *)
Prepared(p) ==
    LET b == run[p].blk
    IN  /\ run[p].pc # "idle" =>
              /\ Continues(b)
              /\ \A i \in Index : i > b.index => files[i] = NoFile
        /\ run[p].pc \in {"exists", "open", "write", "replace", "openhead"} =>
              IF b.index = 0 THEN head \in {NoFile, Torn}
              ELSE head = HeadOf(files[b.index - 1])
        /\ run[p].pc \in {"open", "write", "replace"} => files[b.index] = NoFile
        /\ run[p].pc = "write" => tmp[b.index] = Torn
        /\ run[p].pc = "replace" => tmp[b.index] = b
        /\ run[p].pc \in {"openhead", "writehead"} => files[b.index] = b

HeadCurrent ==
    /\ head \notin {NoFile, Torn}
    /\ files[head.index] # NoFile /\ head = HeadOf(files[head.index])
    /\ \A i \in Index : i > head.index => files[i] = NoFile

HeadWritten ==
    crashes = 0 /\ files[0] # NoFile =>
        HeadCurrent \/ \E p \in Procs : run[p].pc \in {"openhead", "writehead"}

Ordered ==
    /\ OneRuns /\ NoHoles /\ Linked /\ HeadTrue /\ HeadWritten
    /\ \A p \in Procs : Prepared(p)

StoreInv == TypeOK /\ AllGood /\ HeadThere /\ (serial => Ordered)

-----------------------------------------------------------------------------
(* What the provers are told of each step once, rather than at every leaf. *)

LEMMA Kinds ==
    /\ NoFile # Torn /\ NoFile \notin Block /\ Torn \notin Block /\ NoBlock \notin Block
    /\ NoFile \notin [index : Index, hash : Hashes] /\ Torn \notin [index : Index, hash : Hashes]
    /\ Torn \notin Hashes /\ NoKey \notin Keys /\ NoNonce \notin Nonces
    /\ MaxIndex \in Nat /\ MaxBuilt \in Nat /\ MaxTime \in Nat /\ Key \in Validators
    /\ 0 \in Index
BY StoreAssumption, FileAssumption DEF Index

(* The block in a process's hands. *)
LEMMA InHand ==
    ASSUME StoreInv, NEW p \in Procs, run[p].pc # "idle"
    PROVE  /\ run[p].blk \in Block /\ run[p].blk.index \in Index
           /\ Good(run[p].blk, run[p].blk.index)
<1>1. Good(run[p].blk, run[p].blk.index)
  BY DEF StoreInv, AllGood
<1> QED BY <1>1 DEF Good, Block

LEMMA GoneTo ==
    ASSUME TypeOK, NEW p \in Procs, NEW pc, Goto(p, pc)
    PROVE  /\ run'[p].pc = pc /\ run'[p].blk = run[p].blk
           /\ \A q \in Procs \ {p} : run'[q] = run[q]
BY DEF TypeOK, Goto

LEMMA Stopped ==
    ASSUME TypeOK, NEW p \in Procs, Stop(p)
    PROVE  /\ run'[p].pc = "idle"
           /\ \A q \in Procs \ {p} : run'[q] = run[q]
BY DEF TypeOK, Stop, Idle

(* A process with nothing in its hands is prepared for nothing. *)
LEMMA IdlePrepared ==
    ASSUME NEW p \in Procs, run'[p].pc = "idle"
    PROVE  Prepared(p)'
BY DEF Prepared

LEMMA InitStoreInv ==
    ASSUME Init
    PROVE  StoreInv
<1>1. TypeOK
  <2>1. run \in [Procs -> [pc : {"idle", "exists", "open", "write", "replace", "openhead", "writehead"},
                          blk : Block \cup {NoBlock}]]
    BY DEF Init, Idle
  <2>2. files \in [Index -> Block \cup {NoFile, Torn}] /\ tmp \in [Index -> Block \cup {NoFile, Torn}]
    BY DEF Init
  <2>3. built \in 0 .. MaxBuilt /\ crashes \in 0 .. MaxCrashes /\ rotated \in 0 .. MaxRotations
    BY StoreAssumption DEF Init
  <2> QED BY <2>1, <2>2, <2>3 DEF Init, TypeOK
<1>2. AllGood /\ HeadThere
  BY Kinds DEF Init, AllGood, HeadThere, Idle
<1>3. OneRuns /\ NoHoles /\ Linked /\ HeadTrue /\ HeadWritten
  BY Kinds DEF Init, OneRuns, NoHoles, Linked, Readable, HeadTrue, HeadWritten, Idle
<1>4. \A p \in Procs : Prepared(p)
  BY DEF Init, Prepared, Idle
<1> QED BY <1>1, <1>2, <1>3, <1>4 DEF StoreInv, Ordered

-----------------------------------------------------------------------------
(* Types. *)

RunType == [Procs -> [pc : {"idle", "exists", "open", "write", "replace", "openhead", "writehead"},
                      blk : Block \cup {NoBlock}]]

LEMMA StepTyped ==
    ASSUME TypeOK, NEW p \in Procs
    PROVE  /\ \A pc \in {"idle", "exists", "open", "write", "replace", "openhead", "writehead"} :
                  Goto(p, pc) => run' \in RunType
           /\ Stop(p) => run' \in RunType
<1>1. run \in RunType
  BY DEF TypeOK, RunType
<1>2. ASSUME NEW pc \in {"idle", "exists", "open", "write", "replace", "openhead", "writehead"},
             Goto(p, pc)
      PROVE  run' \in RunType
  BY <1>1, <1>2 DEF Goto, RunType
<1>3. ASSUME Stop(p)
      PROVE  run' \in RunType
  BY <1>1, <1>3 DEF Stop, Idle, RunType
<1> QED BY <1>2, <1>3

LEMMA BuiltTyped ==
    ASSUME TypeOK, built < MaxBuilt
    PROVE  /\ \A r \in Requests, now \in 1 .. MaxTime : BlockOf(r, now) \in Block
           /\ \A now \in 1 .. MaxTime : GenesisOf(now) \in Block
           /\ built + 1 \in 0 .. MaxBuilt
<1>1. built + 1 \in Hashes /\ built + 1 \in 0 .. MaxBuilt
  BY Kinds DEF TypeOK, Hashes
<1>2. \A r \in Requests, now \in 1 .. MaxTime : BlockOf(r, now) \in Block
  BY <1>1, Kinds DEF BlockOf, Block, Requests
<1>3. \A now \in 1 .. MaxTime : GenesisOf(now) \in Block
  BY <1>1, Kinds DEF GenesisOf, Block
<1> QED BY <1>1, <1>2, <1>3

LEMMA HeadOfTyped ==
    ASSUME NEW b \in Block
    PROVE  /\ HeadOf(b) \in [index : Index, hash : Hashes]
           /\ HeadOf(b).index = b.index /\ HeadOf(b).hash = b.hash
           /\ HeadOf(b) \notin {NoFile, Torn}
BY Kinds DEF HeadOf, Block

LEMMA NextTypeOK ==
    ASSUME StoreInv, [Next]_vars
    PROVE  TypeOK'
<1> USE Kinds DEF StoreInv
<1>1. CASE UNCHANGED vars
  BY <1>1 DEF TypeOK, vars
<1>2. ASSUME NEW p \in Procs, BuildBlock(p)
      PROVE  TypeOK'
  <2>1. built < MaxBuilt /\ built' = built + 1
    BY <1>2 DEF BuildBlock
  <2>2. PICK r \in Requests, now \in 1 .. MaxTime :
            run' = [run EXCEPT ![p] = [pc |-> "exists", blk |-> BlockOf(r, now)]]
    BY <1>2 DEF BuildBlock
  <2>3. run' \in RunType
    BY <2>1, <2>2, BuiltTyped DEF TypeOK, RunType
  <2> QED BY <1>2, <2>1, <2>3, BuiltTyped DEF BuildBlock, TypeOK, RunType
<1>3. ASSUME NEW p \in Procs, NEW now \in 1 .. MaxTime, BuildGenesis(p, now)
      PROVE  TypeOK'
  <2>1. built < MaxBuilt /\ built' = built + 1
    BY <1>3 DEF BuildGenesis
  <2>2. run' = [run EXCEPT ![p] = [pc |-> "exists", blk |-> GenesisOf(now)]]
    BY <1>3 DEF BuildGenesis
  <2>3. run' \in RunType
    BY <2>1, <2>2, BuiltTyped DEF TypeOK, RunType
  <2> QED BY <1>3, <2>1, <2>3, BuiltTyped DEF BuildGenesis, TypeOK, RunType
<1>4. ASSUME NEW p \in Procs, CheckExists(p)
      PROVE  TypeOK'
  <2>1. run' \in RunType
    BY <1>4, StepTyped DEF CheckExists
  <2> QED BY <1>4, <2>1 DEF CheckExists, TypeOK, RunType
<1>5. ASSUME NEW p \in Procs, OpenTmp(p)
      PROVE  TypeOK'
  <2>1. run' \in RunType
    BY <1>5, StepTyped DEF OpenTmp
  <2>2. tmp' \in [Index -> Block \cup {NoFile, Torn}]
    BY <1>5 DEF OpenTmp, TypeOK
  <2> QED BY <1>5, <2>1, <2>2 DEF OpenTmp, TypeOK, RunType
<1>6. ASSUME NEW p \in Procs, WriteTmp(p)
      PROVE  TypeOK'
  <2>1. run' \in RunType
    BY <1>6, StepTyped DEF WriteTmp
  <2>2. run[p].blk \in Block
    BY <1>6, InHand DEF WriteTmp
  <2>3. \A old : Written(old, run[p].blk) \subseteq Block \cup {Torn}
    BY <2>2 DEF Written
  <2>4. /\ tmp' \in [Index -> Block \cup {NoFile, Torn}]
        /\ files' \in [Index -> Block \cup {NoFile, Torn}]
    BY <1>6, <2>3 DEF WriteTmp, TypeOK
  <2> QED BY <1>6, <2>1, <2>4 DEF WriteTmp, TypeOK, RunType
<1>7. ASSUME NEW p \in Procs, Replace(p)
      PROVE  TypeOK'
  <2>1. run' \in RunType
    BY <1>7, StepTyped DEF Replace
  <2>2. run[p].blk.index \in Index
    BY <1>7, InHand DEF Replace
  <2>3. /\ tmp' \in [Index -> Block \cup {NoFile, Torn}]
        /\ files' \in [Index -> Block \cup {NoFile, Torn}]
    BY <1>7, <2>2 DEF Replace, TypeOK
  <2> QED BY <1>7, <2>1, <2>3 DEF Replace, TypeOK, RunType
<1>8. ASSUME NEW p \in Procs, OpenHead(p)
      PROVE  TypeOK'
  <2>1. run' \in RunType
    BY <1>8, StepTyped DEF OpenHead
  <2> QED BY <1>8, <2>1 DEF OpenHead, TypeOK, RunType
<1>9. ASSUME NEW p \in Procs, WriteHead(p)
      PROVE  TypeOK'
  <2>1. run' \in RunType
    BY <1>9, StepTyped DEF WriteHead
  <2>2. head' \in [index : Index, hash : Hashes]
    BY <1>9, InHand, HeadOfTyped DEF WriteHead
  <2> QED BY <1>9, <2>1, <2>2 DEF WriteHead, TypeOK, RunType
<1>10. ASSUME NEW p \in Procs, Crash(p)
       PROVE  TypeOK'
  <2>1. run' \in RunType
    BY <1>10, StepTyped DEF Crash
  <2>2. crashes' \in 0 .. MaxCrashes
    BY <1>10, StoreAssumption DEF Crash, TypeOK
  <2> QED BY <1>10, <2>1, <2>2 DEF Crash, TypeOK, RunType
<1>11. ASSUME NEW d \in Devices, NEW k \in Keys, Enroll(d, k)
       PROVE  TypeOK'
  <2>1. rotated' \in 0 .. MaxRotations
    BY <1>11, StoreAssumption DEF Enroll, TypeOK
  <2> QED BY <1>11, <2>1 DEF Enroll, TypeOK
<1>12. ASSUME NEW d \in Devices, DropDevice(d)
       PROVE  TypeOK'
  <2>1. rotated' \in 0 .. MaxRotations
    BY <1>12, StoreAssumption DEF DropDevice, TypeOK
  <2> QED BY <1>12, <2>1 DEF DropDevice, TypeOK
<1>13. CASE Next
  <2>1. (\E p \in Procs : BuildBlock(p) \/ AppendStep(p) \/ Crash(p))
        \/ (\E p \in Procs, now \in 1 .. MaxTime : BuildGenesis(p, now))
        \/ (\E d \in Devices, k \in Keys : Enroll(d, k)) \/ (\E d \in Devices : DropDevice(d))
    BY <1>13 DEF Next
  <2> QED BY <2>1, <1>2, <1>3, <1>4, <1>5, <1>6, <1>7, <1>8, <1>9, <1>10, <1>11, <1>12, Zenon DEF AppendStep
<1> QED BY <1>1, <1>13

-----------------------------------------------------------------------------
(* Commands that may race: what can be read is good, and HEAD names a file. *)

(* A block stays good while the registered devices do. *)
LEMMA GoodKept ==
    ASSUME NEW b, NEW i, Good(b, i), trust' = trust, rotated' = rotated
    PROVE  /\ b \in Block /\ b.index = i /\ b.validator = Key
           /\ b.v = 1 => i = 0
           /\ b.v = 2 => b.dev \in Devices /\ b.key \in Keys
                         /\ (rotated' = 0 => b.covers /\ trust'[b.dev] = b.key)
BY DEF Good, Approved

(* Every action but those on the trust file writes files and hands on blocks *)
(* that are good already.                                                    *)
LEMMA AllGoodKept ==
    ASSUME StoreInv, trust' = trust, rotated' = rotated,
           \A i \in Index : files'[i] \in {NoFile, Torn} \/ Good(files'[i], i),
           \A i \in Index : tmp'[i] \in {NoFile, Torn} \/ Good(tmp'[i], i),
           \A p \in Procs : run'[p].pc = "idle" \/ Good(run'[p].blk, run'[p].blk.index)
    PROVE  AllGood'
BY GoodKept DEF AllGood, Good, Approved

LEMMA BuiltIsGood ==
    ASSUME TypeOK, built < MaxBuilt
    PROVE  /\ \A r \in Requests, now \in 1 .. MaxTime :
                  Approved(r) => Good(BlockOf(r, now), BlockOf(r, now).index)
           /\ \A now \in 1 .. MaxTime : Good(GenesisOf(now), GenesisOf(now).index)
<1>1. \A r \in Requests, now \in 1 .. MaxTime : BlockOf(r, now) \in Block
  BY BuiltTyped
<1>2. \A now \in 1 .. MaxTime : GenesisOf(now) \in Block
  BY BuiltTyped
<1>3. \A r \in Requests, now \in 1 .. MaxTime :
          Approved(r) => Good(BlockOf(r, now), BlockOf(r, now).index)
  <2> TAKE r \in Requests, now \in 1 .. MaxTime
  <2> DEFINE b == BlockOf(r, now)
  <2>1. /\ b.v = 2 /\ b.dev = r.dev /\ b.key = r.key /\ b.covers = r.covers /\ b.validator = Key
        /\ r.dev \in Devices /\ r.key \in Keys
    BY DEF BlockOf, Requests
  <2> QED BY <1>1, <2>1 DEF Good, Approved
<1>4. \A now \in 1 .. MaxTime : Good(GenesisOf(now), GenesisOf(now).index)
  BY <1>2 DEF Good, GenesisOf
<1> QED BY <1>3, <1>4

LEMMA NextAllGood ==
    ASSUME StoreInv, [Next]_vars
    PROVE  AllGood'
<1> DEFINE GoodFiles(f) == \A i \in Index : f[i] \in {NoFile, Torn} \/ Good(f[i], i)
           GoodHands(r) == \A p \in Procs : r[p].pc = "idle" \/ Good(r[p].blk, r[p].blk.index)
<1>0. /\ TypeOK /\ GoodFiles(files) /\ GoodFiles(tmp) /\ GoodHands(run)
  BY DEF StoreInv, AllGood
<1>a. ASSUME trust' = trust, rotated' = rotated, GoodFiles(files'), GoodFiles(tmp'), GoodHands(run')
      PROVE  AllGood'
  BY <1>a, AllGoodKept
<1>b. ASSUME NEW p \in Procs, run[p].pc # "idle"
      PROVE  /\ \A pc : Goto(p, pc) => GoodHands(run')
             /\ Stop(p) => GoodHands(run')
  <2>1. Good(run[p].blk, run[p].blk.index)
    BY <1>0, <1>b
  <2>2. ASSUME NEW pc, Goto(p, pc)
        PROVE  GoodHands(run')
    BY <1>0, <2>1, <2>2, GoneTo
  <2>3. ASSUME Stop(p)
        PROVE  GoodHands(run')
    BY <1>0, <2>3, Stopped
  <2> QED BY <2>2, <2>3
<1> HIDE DEF GoodFiles, GoodHands
<1>1. CASE UNCHANGED vars
  BY <1>0, <1>1, <1>a DEF vars
<1>2. ASSUME NEW p \in Procs, BuildBlock(p)
      PROVE  AllGood'
  <2>1. PICK r \in Requests, now \in 1 .. MaxTime :
            /\ Approved(r)
            /\ run' = [run EXCEPT ![p] = [pc |-> "exists", blk |-> BlockOf(r, now)]]
    BY <1>2 DEF BuildBlock
  <2>2. Good(BlockOf(r, now), BlockOf(r, now).index)
    BY <1>0, <1>2, <2>1, BuiltIsGood DEF BuildBlock
  <2>3. GoodHands(run')
    BY <1>0, <2>1, <2>2 DEF GoodHands, TypeOK
  <2> QED BY <1>0, <1>2, <2>3, <1>a DEF BuildBlock
<1>3. ASSUME NEW p \in Procs, NEW now \in 1 .. MaxTime, BuildGenesis(p, now)
      PROVE  AllGood'
  <2>1. run' = [run EXCEPT ![p] = [pc |-> "exists", blk |-> GenesisOf(now)]]
    BY <1>3 DEF BuildGenesis
  <2>2. Good(GenesisOf(now), GenesisOf(now).index)
    BY <1>0, <1>3, BuiltIsGood DEF BuildGenesis
  <2>3. GoodHands(run')
    BY <1>0, <2>1, <2>2 DEF GoodHands, TypeOK
  <2> QED BY <1>0, <1>3, <2>3, <1>a DEF BuildGenesis
<1>4. ASSUME NEW p \in Procs, CheckExists(p)
      PROVE  AllGood'
  BY <1>0, <1>4, <1>a, <1>b DEF CheckExists
<1>5. ASSUME NEW p \in Procs, OpenTmp(p)
      PROVE  AllGood'
  <2>1. GoodFiles(tmp')
    BY <1>0, <1>5 DEF OpenTmp, TypeOK, GoodFiles
  <2> QED BY <1>0, <1>5, <2>1, <1>a, <1>b DEF OpenTmp
<1>6. ASSUME NEW p \in Procs, WriteTmp(p)
      PROVE  AllGood'
  <2>1. Good(run[p].blk, run[p].blk.index)
    BY <1>6, InHand DEF WriteTmp
  <2>2. \A old : Written(old, run[p].blk) \subseteq {run[p].blk, Torn}
    BY DEF Written
  <2>3. GoodFiles(tmp') /\ GoodFiles(files')
    BY <1>0, <1>6, <2>1, <2>2 DEF WriteTmp, TypeOK, GoodFiles
  <2> QED BY <1>0, <1>6, <2>3, <1>a, <1>b DEF WriteTmp
<1>7. ASSUME NEW p \in Procs, Replace(p)
      PROVE  AllGood'
  <2>1. GoodFiles(tmp') /\ GoodFiles(files')
    BY <1>0, <1>7 DEF Replace, TypeOK, GoodFiles
  <2> QED BY <1>0, <1>7, <2>1, <1>a, <1>b DEF Replace
<1>8. ASSUME NEW p \in Procs, OpenHead(p) \/ WriteHead(p) \/ Crash(p)
      PROVE  AllGood'
  BY <1>0, <1>8, <1>a, <1>b DEF OpenHead, WriteHead, Crash
<1>9. ASSUME NEW d \in Devices, NEW k \in Keys, Enroll(d, k)
      PROVE  AllGood'
  <2>1. ASSUME NEW b, NEW i, Good(b, i)
        PROVE  Good(b, i)'
    <3>1. trust' = [trust EXCEPT ![d] = k]
      BY <1>9 DEF Enroll
    <3>2. rotated' = 0 => rotated = 0 /\ trust[d] = NoKey
      BY <1>9, <1>0 DEF Enroll, TypeOK
    <3>3. ASSUME b.v = 2, rotated' = 0
          PROVE  b.covers /\ trust'[b.dev] = b.key
      <4>1. b.dev \in Devices /\ b.key \in Keys /\ b.covers /\ trust[b.dev] = b.key
        BY <2>1, <3>2, <3>3 DEF Good, Approved
      <4>2. b.dev # d
        BY <4>1, <3>2, <3>3, Kinds
      <4> QED BY <4>1, <4>2, <3>1, <1>0 DEF TypeOK
    <3> QED BY <2>1, <3>3 DEF Good, Approved
  <2> QED BY <1>0, <1>9, <2>1 DEF Enroll, AllGood, GoodFiles, GoodHands
<1>10. ASSUME NEW d \in Devices, DropDevice(d)
       PROVE  AllGood'
  <2>1. rotated' # 0
    BY <1>10, <1>0, StoreAssumption DEF DropDevice, TypeOK
  <2>2. ASSUME NEW b, NEW i, Good(b, i)
        PROVE  Good(b, i)'
    BY <2>1, <2>2 DEF Good
  <2> QED BY <1>0, <1>10, <2>2 DEF DropDevice, AllGood, GoodFiles, GoodHands
<1>11. CASE Next
  <2>1. (\E p \in Procs : BuildBlock(p) \/ AppendStep(p) \/ Crash(p))
        \/ (\E p \in Procs, now \in 1 .. MaxTime : BuildGenesis(p, now))
        \/ (\E d \in Devices, k \in Keys : Enroll(d, k)) \/ (\E d \in Devices : DropDevice(d))
    BY <1>11 DEF Next
  <2> QED BY <2>1, <1>2, <1>3, <1>4, <1>5, <1>6, <1>7, <1>8, <1>9, <1>10, Zenon DEF AppendStep
<1> QED BY <1>1, <1>11

(* No file operation removes a block. *)
LEMMA NothingRemoved ==
    ASSUME StoreInv, [Next]_vars
    PROVE  \A i \in Index : files[i] # NoFile => files'[i] # NoFile
<1>0. TypeOK
  BY DEF StoreInv
<1>1. CASE files' = files
  BY <1>1
<1>2. ASSUME NEW p \in Procs, WriteTmp(p)
      PROVE  \A i \in Index : files[i] # NoFile => files'[i] # NoFile
  <2>1. run[p].blk \in Block
    BY <1>2, InHand DEF WriteTmp
  <2>2. \A old : NoFile \notin Written(old, run[p].blk)
    BY <2>1, Kinds DEF Written
  <2> QED BY <1>0, <1>2, <2>2 DEF WriteTmp, TypeOK
<1>3. ASSUME NEW p \in Procs, Replace(p)
      PROVE  \A i \in Index : files[i] # NoFile => files'[i] # NoFile
  BY <1>0, <1>3 DEF Replace, TypeOK
<1> QED
  <2>1. files' = files \/ \E p \in Procs : WriteTmp(p) \/ Replace(p)
    BY DEF Next, AppendStep, vars, BuildBlock, BuildGenesis, CheckExists, OpenTmp, OpenHead,
           WriteHead, Crash, Enroll, DropDevice
  <2> QED BY <1>1, <1>2, <1>3, <2>1

LEMMA NextHeadThere ==
    ASSUME StoreInv, [Next]_vars
    PROVE  HeadThere'
<1> DEFINE Late == {"openhead", "writehead"}
           LateThere(r, f) == \A p \in Procs : r[p].pc \in Late => f[r[p].blk.index] # NoFile
<1>0. /\ TypeOK /\ LateThere(run, files) /\ LateThere(run, files')
      /\ head \notin {NoFile, Torn} => files'[head.index] # NoFile
  <2>1. \A i \in Index : files[i] # NoFile => files'[i] # NoFile
    BY NothingRemoved
  <2>2. head \notin {NoFile, Torn} => head.index \in Index
    BY DEF StoreInv, TypeOK
  <2>3. \A p \in Procs : run[p].pc \in Late => run[p].blk.index \in Index
    BY InHand
  <2> QED BY <2>1, <2>2, <2>3 DEF StoreInv, HeadThere
<1>1. ASSUME NEW p \in Procs, \A q \in Procs \ {p} : run'[q] = run[q], run'[p].pc \notin Late,
             head' \in {head, Torn}
      PROVE  HeadThere'
  <2>1. LateThere(run', files')
    BY <1>0, <1>1
  <2> QED BY <1>0, <1>1, <2>1 DEF HeadThere
<1>2. CASE run' = run /\ head' = head
  BY <1>0, <1>2 DEF HeadThere
<1>3. ASSUME NEW p \in Procs, BuildBlock(p)
      PROVE  HeadThere'
  <2>1. PICK b : run' = [run EXCEPT ![p] = [pc |-> "exists", blk |-> b]]
    BY <1>3 DEF BuildBlock
  <2> QED BY <1>0, <1>1, <1>3, <2>1 DEF BuildBlock, TypeOK
<1>4. ASSUME NEW p \in Procs, NEW now \in 1 .. MaxTime, BuildGenesis(p, now)
      PROVE  HeadThere'
  <2>1. run' = [run EXCEPT ![p] = [pc |-> "exists", blk |-> GenesisOf(now)]]
    BY <1>4 DEF BuildGenesis
  <2> QED BY <1>0, <1>1, <1>4, <2>1 DEF BuildGenesis, TypeOK
<1>5. ASSUME NEW p \in Procs,
             CheckExists(p) \/ OpenTmp(p) \/ WriteTmp(p) \/ Crash(p) \/ (Replace(p) /\ Stop(p))
      PROVE  HeadThere'
  <2>1. head' = head
    BY <1>5 DEF CheckExists, OpenTmp, WriteTmp, Crash, Replace
  <2>2. Stop(p) \/ Goto(p, "open") \/ Goto(p, "write") \/ Goto(p, "replace")
    BY <1>5 DEF CheckExists, OpenTmp, WriteTmp, Crash, Replace
  <2>3. run'[p].pc \notin Late /\ \A q \in Procs \ {p} : run'[q] = run[q]
    BY <1>0, <2>2, Stopped, GoneTo
  <2> QED BY <1>1, <2>1, <2>3
<1>6. ASSUME NEW p \in Procs, Replace(p), ~Stop(p)
      PROVE  HeadThere'
  <2>1. /\ tmp[run[p].blk.index] # NoFile /\ head' = head /\ Goto(p, "openhead")
        /\ files' = [files EXCEPT ![run[p].blk.index] = tmp[run[p].blk.index]]
    BY <1>6 DEF Replace
  <2>2. run[p].blk.index \in Index
    BY <1>6, InHand DEF Replace
  <2>3. files'[run[p].blk.index] # NoFile
    BY <1>0, <2>1, <2>2 DEF TypeOK
  <2>4. run'[p].blk = run[p].blk /\ \A q \in Procs \ {p} : run'[q] = run[q]
    BY <1>0, <2>1, GoneTo
  <2>5. LateThere(run', files')
    BY <1>0, <2>3, <2>4
  <2> QED BY <1>0, <2>1, <2>5 DEF HeadThere
<1>7. ASSUME NEW p \in Procs, OpenHead(p)
      PROVE  HeadThere'
  <2>1. run'[p].blk = run[p].blk /\ \A q \in Procs \ {p} : run'[q] = run[q]
    BY <1>0, <1>7, GoneTo DEF OpenHead
  <2>2. LateThere(run', files')
    BY <1>0, <1>7, <2>1 DEF OpenHead
  <2> QED BY <1>0, <1>7, <2>2 DEF OpenHead, HeadThere
<1>8. ASSUME NEW p \in Procs, WriteHead(p)
      PROVE  HeadThere'
  <2>1. run'[p].pc = "idle" /\ \A q \in Procs \ {p} : run'[q] = run[q]
    BY <1>0, <1>8, Stopped DEF WriteHead
  <2>2. LateThere(run', files')
    BY <1>0, <2>1
  <2>3. head'.index = run[p].blk.index
    BY <1>8 DEF WriteHead, HeadOf
  <2>4. files'[run[p].blk.index] # NoFile
    BY <1>0, <1>8 DEF WriteHead
  <2> QED BY <2>2, <2>3, <2>4 DEF HeadThere
<1>9. CASE Next
  <2>1. (\E p \in Procs : BuildBlock(p) \/ AppendStep(p) \/ Crash(p))
        \/ (\E p \in Procs, now \in 1 .. MaxTime : BuildGenesis(p, now))
        \/ (\E d \in Devices, k \in Keys : Enroll(d, k)) \/ (\E d \in Devices : DropDevice(d))
    BY <1>9 DEF Next
  <2>2. (\E d \in Devices, k \in Keys : Enroll(d, k)) \/ (\E d \in Devices : DropDevice(d))
        => run' = run /\ head' = head
    BY DEF Enroll, DropDevice
  <2> QED BY <2>1, <2>2, <1>2, <1>3, <1>4, <1>5, <1>6, <1>7, <1>8, Zenon DEF AppendStep
<1> QED BY <1>2, <1>9 DEF vars

-----------------------------------------------------------------------------
(* Commands one at a time: each action keeps the directory in order. *)

LEMMA OthersIdle ==
    ASSUME StoreInv, serial, NEW p \in Procs, run[p].pc # "idle"
    PROVE  /\ \A q \in Procs \ {p} : run[q].pc = "idle"
           /\ TypeOK /\ Prepared(p) /\ NoHoles /\ Linked /\ HeadTrue /\ HeadWritten
           /\ Continues(run[p].blk)
           /\ \A i \in Index : i > run[p].blk.index => files[i] = NoFile
           /\ run[p].blk \in Block /\ run[p].blk.index \in Index
BY InHand DEF StoreInv, Ordered, OneRuns, Prepared

LEMMA OrderedAgain ==
    ASSUME NEW p \in Procs, \A q \in Procs \ {p} : run'[q].pc = "idle",
           Prepared(p)', NoHoles', Linked', HeadTrue', HeadWritten'
    PROVE  Ordered'
<1>1. \A q \in Procs : Prepared(q)'
  BY IdlePrepared
<1>2. OneRuns'
  BY DEF OneRuns
<1> QED BY <1>1, <1>2 DEF Ordered

(* Prepared of the next state, for the block `b` then in hand. *)
LEMMA PreparedWith ==
    ASSUME NEW p \in Procs, NEW b, run'[p].blk = b, run'[p].pc # "idle",
           Continues(b)', \A i \in Index : i > b.index => files'[i] = NoFile,
           run'[p].pc \in {"exists", "open", "write", "replace", "openhead"} =>
              IF b.index = 0 THEN head' \in {NoFile, Torn}
              ELSE head' = HeadOf(files'[b.index - 1]),
           run'[p].pc \in {"open", "write", "replace"} => files'[b.index] = NoFile,
           run'[p].pc = "write" => tmp'[b.index] = Torn,
           run'[p].pc = "replace" => tmp'[b.index] = b,
           run'[p].pc \in {"openhead", "writehead"} => files'[b.index] = b
    PROVE  Prepared(p)'
<1>1. Continues(run[p].blk)'
  BY DEF Continues
<1> QED BY <1>1 DEF Prepared, HeadOf

(* What a step that leaves the files alone keeps. *)
LEMMA FilesKept ==
    ASSUME files' = files
    PROVE  /\ NoHoles => NoHoles'
           /\ Linked => Linked'
           /\ \A b : Continues(b) => Continues(b)'
           /\ head' = head /\ HeadTrue => HeadTrue'
<1>1. NoHoles => NoHoles'
  BY DEF NoHoles, Readable
<1>2. ASSUME NEW b, Continues(b)
      PROVE  Continues(b)'
  BY <1>2 DEF Continues
<1>3. Linked => Linked'
  BY <1>2 DEF Linked, Readable
<1>4. head' = head /\ HeadTrue => HeadTrue'
  BY DEF HeadTrue
<1> QED BY <1>1, <1>2, <1>3, <1>4

(* HEAD is current whenever it need not be: nobody died, and nobody is late. *)
LEMMA HeadWrittenKept ==
    ASSUME files' = files, head' = head, crashes' = crashes, HeadWritten,
           \A q \in Procs : run[q].pc \notin {"openhead", "writehead"}
    PROVE  HeadWritten'
BY DEF HeadWritten, HeadCurrent

LEMMA BuildBlockOrdered ==
    ASSUME StoreInv, serial, NEW p \in Procs, BuildBlock(p)
    PROVE  Ordered'
<1>0. /\ TypeOK /\ AllGood /\ NoHoles /\ Linked /\ HeadTrue /\ HeadWritten
      /\ files' = files /\ tmp' = tmp /\ head' = head /\ crashes' = crashes
      /\ \A q \in Procs : run[q].pc = "idle"
  BY DEF StoreInv, Ordered, BuildBlock, MayStart
<1>1. PICK r \in Requests, now \in 1 .. MaxTime :
          /\ Consumable(r) /\ now > files[head.index].when
          /\ run' = [run EXCEPT ![p] = [pc |-> "exists", blk |-> BlockOf(r, now)]]
  BY DEF BuildBlock
<1>b. PICK b : b = BlockOf(r, now)
  OBVIOUS
<1>2. /\ run'[p].pc = "exists" /\ run'[p].blk = b
      /\ \A q \in Procs \ {p} : run'[q].pc = "idle"
  BY <1>0, <1>1, <1>b DEF TypeOK
<1>3. /\ head \in [index : Index, hash : Hashes] /\ head.index \in Index
      /\ files[head.index] \in Block /\ files[head.index].index = head.index
  BY <1>0, <1>1 DEF TypeOK, Consumable, Readable, AllGood, Good
<1>4. b.index = head.index + 1 /\ b.prev = files[head.index].hash /\ b.nonce = r.nonce /\ b.when = now
  BY <1>1, <1>3, <1>b DEF Consumable, BlockOf
<1>5. \A j \in 0 .. head.index : j \in Chain /\ files[j].nonce # r.nonce
  <2>1. files[head.index] # NoFile
    BY <1>3, Kinds
  <2>2. \A j \in 0 .. head.index : j \in Index /\ files[j] # NoFile
    BY <1>0, <1>3, <2>1, Kinds DEF NoHoles, Index
  <2>3. \A j \in 0 .. head.index : j \in Chain
    BY <1>3, <2>2 DEF Chain, Index
  <2> QED BY <1>1, <2>3 DEF Consumable
<1>6. Continues(b)
  <2>1. b.index - 1 = head.index
    BY <1>3, <1>4 DEF Index
  <2>2. files[head.index] \notin {NoFile, Torn}
    BY <1>3, Kinds
  <2> QED BY <1>1, <1>4, <1>5, <2>1, <2>2 DEF Continues
<1>7. head = HeadOf(files[b.index - 1])
  <2>1. head = HeadOf(files[head.index])
    BY <1>0, <1>1 DEF HeadTrue, Consumable
  <2>2. b.index - 1 = head.index
    BY <1>3, <1>4 DEF Index
  <2> QED BY <2>1, <2>2
<1>8. \A i \in Index : i > b.index => files[i] = NoFile
  BY <1>0, <1>1, <1>3, <1>4 DEF HeadTrue, Consumable, Index
<1>9. Continues(b)' /\ NoHoles' /\ Linked' /\ HeadTrue'
  BY <1>0, <1>6, FilesKept
<1>10. b.index # 0
  BY <1>3, <1>4 DEF Index
<1>11. Prepared(p)'
  BY <1>0, <1>2, <1>7, <1>8, <1>9, <1>10, PreparedWith
<1>12. HeadWritten'
  BY <1>0, HeadWrittenKept
<1> QED BY <1>2, <1>9, <1>11, <1>12, OrderedAgain

LEMMA BuildGenesisOrdered ==
    ASSUME StoreInv, serial, NEW p \in Procs, NEW now \in 1 .. MaxTime, BuildGenesis(p, now)
    PROVE  Ordered'
<1>0. /\ TypeOK /\ NoHoles /\ Linked /\ HeadTrue /\ HeadWritten
      /\ files' = files /\ tmp' = tmp /\ head' = head /\ crashes' = crashes /\ files[0] = NoFile
      /\ \A q \in Procs : run[q].pc = "idle"
  BY DEF StoreInv, Ordered, BuildGenesis, MayStart
<1>b. PICK b : b = GenesisOf(now)
  OBVIOUS
<1>1. run'[p].pc = "exists" /\ run'[p].blk = b /\ \A q \in Procs \ {p} : run'[q].pc = "idle"
  BY <1>0, <1>b DEF TypeOK, BuildGenesis
<1>2. b.index = 0
  BY <1>b DEF GenesisOf
<1>3. \A i \in Index : files[i] = NoFile
  BY <1>0 DEF NoHoles, Index
<1>4. head \in {NoFile, Torn}
  BY <1>0, <1>3 DEF HeadTrue, TypeOK
<1>5. Continues(b)'
  BY <1>2 DEF Continues
<1>6. Prepared(p)'
  BY <1>0, <1>1, <1>2, <1>3, <1>4, <1>5, PreparedWith DEF Index
<1> QED BY <1>0, <1>1, <1>6, FilesKept, HeadWrittenKept, OrderedAgain

LEMMA CheckExistsOrdered ==
    ASSUME StoreInv, serial, NEW p \in Procs, CheckExists(p)
    PROVE  Ordered'
<1>0. /\ files' = files /\ tmp' = tmp /\ head' = head /\ crashes' = crashes
      /\ run[p].pc = "exists"
  BY DEF CheckExists
<1>1. /\ \A q \in Procs \ {p} : run[q].pc = "idle"
      /\ TypeOK /\ Prepared(p) /\ NoHoles /\ Linked /\ HeadTrue /\ HeadWritten
      /\ Continues(run[p].blk)
  BY <1>0, OthersIdle
<1>2. NoHoles' /\ Linked' /\ HeadTrue' /\ HeadWritten'
  BY <1>0, <1>1, FilesKept, HeadWrittenKept
<1>3. CASE Stop(p)
  <2>1. run'[p].pc = "idle" /\ \A q \in Procs \ {p} : run'[q] = run[q]
    BY <1>1, <1>3, Stopped
  <2> QED BY <1>1, <1>2, <2>1, IdlePrepared, OrderedAgain
<1>4. CASE files[run[p].blk.index] = NoFile /\ Goto(p, "open")
  <2>1. run'[p].pc = "open" /\ run'[p].blk = run[p].blk /\ \A q \in Procs \ {p} : run'[q] = run[q]
    BY <1>1, <1>4, GoneTo
  <2>2. PICK b : b = run[p].blk
    OBVIOUS
  <2>3. Continues(b)'
    BY <1>0, <1>1, <2>2, FilesKept
  <2>4. Prepared(p)'
    BY <1>0, <1>1, <1>4, <2>1, <2>2, <2>3, PreparedWith DEF Prepared
  <2> QED BY <1>1, <1>2, <2>1, <2>4, OrderedAgain
<1> QED BY <1>3, <1>4 DEF CheckExists

LEMMA OpenTmpOrdered ==
    ASSUME StoreInv, serial, NEW p \in Procs, OpenTmp(p)
    PROVE  Ordered'
<1>0. /\ files' = files /\ head' = head /\ crashes' = crashes
      /\ run[p].pc = "open" /\ Goto(p, "write") /\ tmp' = [tmp EXCEPT ![run[p].blk.index] = Torn]
  BY DEF OpenTmp
<1>1. /\ \A q \in Procs \ {p} : run[q].pc = "idle"
      /\ TypeOK /\ Prepared(p) /\ NoHoles /\ Linked /\ HeadTrue /\ HeadWritten
      /\ Continues(run[p].blk) /\ run[p].blk.index \in Index
  BY <1>0, OthersIdle
<1>2. run'[p].pc = "write" /\ run'[p].blk = run[p].blk /\ \A q \in Procs \ {p} : run'[q] = run[q]
  BY <1>0, <1>1, GoneTo
<1>3. PICK b : b = run[p].blk
  OBVIOUS
<1>4. Continues(b)' /\ NoHoles' /\ Linked' /\ HeadTrue' /\ HeadWritten'
  BY <1>0, <1>1, <1>3, FilesKept, HeadWrittenKept
<1>5. tmp'[b.index] = Torn
  BY <1>0, <1>1, <1>3 DEF TypeOK
<1>6. Prepared(p)'
  BY <1>0, <1>1, <1>2, <1>3, <1>4, <1>5, PreparedWith DEF Prepared
<1> QED BY <1>1, <1>2, <1>4, <1>6, OrderedAgain

LEMMA WriteTmpOrdered ==
    ASSUME StoreInv, serial, NEW p \in Procs, WriteTmp(p)
    PROVE  Ordered'
<1>0. /\ head' = head /\ crashes' = crashes /\ run[p].pc = "write" /\ Goto(p, "replace")
  BY DEF WriteTmp
<1>1. /\ \A q \in Procs \ {p} : run[q].pc = "idle"
      /\ TypeOK /\ Prepared(p) /\ NoHoles /\ Linked /\ HeadTrue /\ HeadWritten
      /\ Continues(run[p].blk) /\ run[p].blk.index \in Index
  BY <1>0, OthersIdle
<1>2. run'[p].pc = "replace" /\ run'[p].blk = run[p].blk /\ \A q \in Procs \ {p} : run'[q] = run[q]
  BY <1>0, <1>1, GoneTo
<1>3. PICK b : b = run[p].blk
  OBVIOUS
<1>4. tmp[b.index] = Torn
  BY <1>0, <1>1, <1>3 DEF Prepared
<1>5. files' = files /\ tmp' = [tmp EXCEPT ![b.index] = b]
  BY <1>3, <1>4, Kinds DEF WriteTmp, Written
<1>6. tmp'[b.index] = b
  BY <1>1, <1>3, <1>5 DEF TypeOK
<1>7. Continues(b)' /\ NoHoles' /\ Linked' /\ HeadTrue' /\ HeadWritten'
  BY <1>0, <1>1, <1>3, <1>5, FilesKept, HeadWrittenKept
<1>8. Prepared(p)'
  BY <1>0, <1>1, <1>2, <1>3, <1>5, <1>6, <1>7, PreparedWith DEF Prepared
<1> QED BY <1>1, <1>2, <1>7, <1>8, OrderedAgain

LEMMA ReplaceOrdered ==
    ASSUME StoreInv, serial, NEW p \in Procs, Replace(p)
    PROVE  Ordered'
<1>0. head' = head /\ run[p].pc = "replace"
  BY DEF Replace
<1>1. /\ \A q \in Procs \ {p} : run[q].pc = "idle"
      /\ TypeOK /\ Prepared(p) /\ NoHoles /\ Linked /\ HeadTrue /\ HeadWritten
  BY <1>0, OthersIdle
<1>2. PICK b : b = run[p].blk
  OBVIOUS
<1>3. /\ b \in Block /\ b.index \in Index /\ Continues(b) /\ tmp[b.index] = b /\ files[b.index] = NoFile
      /\ \A i \in Index : i > b.index => files[i] = NoFile
      /\ IF b.index = 0 THEN head \in {NoFile, Torn} ELSE head = HeadOf(files[b.index - 1])
  BY <1>0, <1>1, <1>2, OthersIdle DEF Prepared
<1>4. files' = [files EXCEPT ![b.index] = b] /\ Goto(p, "openhead")
  BY <1>2, <1>3, Kinds DEF Replace
<1>5. run'[p].pc = "openhead" /\ run'[p].blk = b /\ \A q \in Procs \ {p} : run'[q] = run[q]
  BY <1>1, <1>2, <1>4, GoneTo
<1>6. /\ files'[b.index] = b /\ b \notin {NoFile, Torn}
      /\ \A i \in Index : i # b.index => files'[i] = files[i]
  BY <1>1, <1>3, <1>4, Kinds DEF TypeOK
<1>7. \A i \in Index : files'[i] # NoFile => i <= b.index
  BY <1>3, <1>6, Kinds DEF Index
<1>8. b.index > 0 => b.index - 1 \in Index /\ files[b.index - 1] # NoFile
  BY <1>3, Kinds DEF Index, Continues
<1>9. \A j \in 0 .. b.index : files'[j] \notin {NoFile, Torn}
  <2>1. \A j \in 0 .. b.index - 1 : files[j] \notin {NoFile, Torn}
    <3> SUFFICES ASSUME b.index > 0
                 PROVE  \A j \in 0 .. b.index - 1 : files[j] \notin {NoFile, Torn}
      BY <1>3 DEF Index
    <3>1. \A j \in 0 .. b.index - 1 : j \in Index /\ files[j] # NoFile
      BY <1>1, <1>3, <1>8, Kinds DEF NoHoles, Index
    <3> QED BY <1>1, <3>1 DEF NoHoles, Readable
  <2>2. \A j \in 0 .. b.index : j \in Index /\ (j = b.index \/ j \in 0 .. b.index - 1)
    BY <1>3, Kinds DEF Index
  <2> QED BY <1>6, <2>1, <2>2
<1>10. NoHoles'
  <2>1. ASSUME NEW i \in Index, files'[i] # NoFile
        PROVE  \A j \in 0 .. i : files'[j] \notin {NoFile, Torn}
    <3>1. i <= b.index
      BY <1>7, <2>1
    <3>2. \A j \in 0 .. i : j \in 0 .. b.index
      BY <1>3, <3>1, Kinds DEF Index
    <3> QED BY <1>9, <3>2
  <2>2. \A i \in Index : i \in 0 .. i
    BY Kinds DEF Index
  <2> QED BY <2>1, <2>2 DEF NoHoles, Readable
<1>11. \A c : c.index \in Index /\ c.index <= b.index /\ Continues(c) => Continues(c)'
  <2> SUFFICES ASSUME NEW c, c.index \in Index, c.index <= b.index, Continues(c)
               PROVE  Continues(c)'
    OBVIOUS
  <2>1. \A j \in 0 .. c.index - 1 : files'[j] = files[j]
    BY <1>3, <1>6, Kinds DEF Index
  <2>2. c.index > 0 => c.index - 1 \in 0 .. c.index - 1
    BY Kinds DEF Index
  <2> QED BY <2>1, <2>2 DEF Continues
<1>12. Continues(b)'
  BY <1>3, <1>11 DEF Index
<1>13. Linked'
  <2>1. ASSUME NEW i \in Index, Readable(i)', NEW c, c = files'[i]
        PROVE  Continues(c)'
    <3>1. CASE i = b.index
      BY <1>6, <1>12, <2>1, <3>1
    <3>2. CASE i # b.index
      <4>1. c = files[i] /\ Readable(i) /\ i <= b.index
        BY <1>6, <1>7, <2>1, <3>2 DEF Readable
      <4>2. Continues(c) /\ c.index = i
        BY <1>1, <4>1 DEF Linked, StoreInv, AllGood, Good, Readable
      <4> QED BY <1>11, <4>1, <4>2
    <3> QED BY <3>1, <3>2
  <2> QED BY <2>1 DEF Linked, Continues
<1>14. b.index # 0 => head' = HeadOf(files'[b.index - 1]) /\ head.index = b.index - 1
  <2> SUFFICES ASSUME b.index # 0
               PROVE  head' = HeadOf(files'[b.index - 1]) /\ head.index = b.index - 1
    OBVIOUS
  <2>1. b.index - 1 \in Index /\ files[b.index - 1] \notin {NoFile, Torn} /\ b.index - 1 # b.index
    BY <1>3, Kinds DEF Index, Continues
  <2>2. files[b.index - 1].index = b.index - 1
    BY <2>1 DEF StoreInv, AllGood, Good
  <2> QED BY <1>0, <1>3, <1>6, <2>1, <2>2 DEF HeadOf
<1>15. HeadTrue'
  <2> SUFFICES ASSUME head' \notin {NoFile, Torn}
               PROVE  /\ files'[head'.index] # NoFile
                      /\ head' = HeadOf(files'[head'.index])
                      /\ \A i \in Index : i >= head'.index + 2 => files'[i] = NoFile
    BY DEF HeadTrue
  <2>1. b.index # 0
    BY <1>0, <1>3
  <2>2. head'.index = b.index - 1 /\ head' = HeadOf(files'[b.index - 1])
    BY <1>0, <1>14, <2>1
  <2>3. b.index - 1 \in 0 .. b.index
    BY <1>3, <2>1, Kinds DEF Index
  <2>4. \A i \in Index : i >= b.index + 1 => files'[i] = NoFile
    BY <1>3, <1>7, Kinds DEF Index
  <2> QED BY <1>3, <1>9, <2>2, <2>3, <2>4, Kinds DEF Index
<1>16. Prepared(p)'
  <2>1. IF b.index = 0 THEN head' \in {NoFile, Torn} ELSE head' = HeadOf(files'[b.index - 1])
    BY <1>0, <1>3, <1>14
  <2>2. \A i \in Index : i > b.index => files'[i] = NoFile
    BY <1>3, <1>7, Kinds DEF Index
  <2> QED BY <1>5, <1>6, <1>12, <2>1, <2>2, PreparedWith
<1>17. HeadWritten'
  BY <1>5 DEF HeadWritten
<1> QED BY <1>1, <1>5, <1>10, <1>13, <1>15, <1>16, <1>17, OrderedAgain

LEMMA OpenHeadOrdered ==
    ASSUME StoreInv, serial, NEW p \in Procs, OpenHead(p)
    PROVE  Ordered'
<1>0. files' = files /\ head' = Torn /\ run[p].pc = "openhead" /\ Goto(p, "writehead")
  BY DEF OpenHead
<1>1. /\ \A q \in Procs \ {p} : run[q].pc = "idle"
      /\ TypeOK /\ Prepared(p) /\ NoHoles /\ Linked /\ Continues(run[p].blk)
  BY <1>0, OthersIdle
<1>2. run'[p].pc = "writehead" /\ run'[p].blk = run[p].blk /\ \A q \in Procs \ {p} : run'[q] = run[q]
  BY <1>0, <1>1, GoneTo
<1>3. PICK b : b = run[p].blk
  OBVIOUS
<1>4. Continues(b)' /\ NoHoles' /\ Linked'
  BY <1>0, <1>1, <1>3, FilesKept
<1>5. HeadTrue' /\ HeadWritten'
  BY <1>0, <1>2 DEF HeadTrue, HeadWritten
<1>6. Prepared(p)'
  BY <1>0, <1>1, <1>2, <1>3, <1>4, PreparedWith DEF Prepared
<1> QED BY <1>1, <1>2, <1>4, <1>5, <1>6, OrderedAgain

LEMMA WriteHeadOrdered ==
    ASSUME StoreInv, serial, NEW p \in Procs, WriteHead(p)
    PROVE  Ordered'
<1>0. files' = files /\ head' = HeadOf(run[p].blk) /\ run[p].pc = "writehead" /\ Stop(p)
  BY DEF WriteHead
<1>1. /\ \A q \in Procs \ {p} : run[q].pc = "idle"
      /\ TypeOK /\ Prepared(p) /\ NoHoles /\ Linked
      /\ run[p].blk \in Block /\ run[p].blk.index \in Index
  BY <1>0, OthersIdle
<1>2. run'[p].pc = "idle" /\ \A q \in Procs \ {p} : run'[q] = run[q]
  BY <1>0, <1>1, Stopped
<1>3. PICK b : b = run[p].blk
  OBVIOUS
<1>4. files[b.index] = b /\ \A i \in Index : i > b.index => files[i] = NoFile
  BY <1>0, <1>1, <1>3 DEF Prepared
<1>5. head' = HeadOf(b) /\ head'.index = b.index /\ head' \notin {NoFile, Torn} /\ b # NoFile
  BY <1>0, <1>1, <1>3, HeadOfTyped, Kinds
<1>6. HeadTrue' /\ HeadWritten'
  BY <1>0, <1>1, <1>3, <1>4, <1>5, Kinds DEF HeadTrue, HeadWritten, HeadCurrent, Index
<1> QED BY <1>0, <1>1, <1>2, <1>6, FilesKept, IdlePrepared, OrderedAgain

LEMMA CrashOrdered ==
    ASSUME StoreInv, serial, NEW p \in Procs, Crash(p)
    PROVE  Ordered'
<1>0. files' = files /\ head' = head /\ crashes' # 0 /\ run[p].pc # "idle" /\ Stop(p)
  BY DEF Crash, StoreInv, TypeOK
<1>1. /\ \A q \in Procs \ {p} : run[q].pc = "idle"
      /\ TypeOK /\ NoHoles /\ Linked /\ HeadTrue
  BY <1>0, OthersIdle
<1>2. run'[p].pc = "idle" /\ \A q \in Procs \ {p} : run'[q] = run[q]
  BY <1>0, <1>1, Stopped
<1>3. HeadWritten'
  BY <1>0 DEF HeadWritten
<1> QED BY <1>0, <1>1, <1>2, <1>3, FilesKept, IdlePrepared, OrderedAgain

(* A step on the trust file, or none at all. *)
LEMMA TrustOrdered ==
    ASSUME StoreInv, serial, UNCHANGED <<files, tmp, head, run, crashes>>
    PROVE  Ordered'
<1>1. Ordered
  BY DEF StoreInv
<1>2. NoHoles' /\ Linked' /\ HeadTrue'
  BY <1>1, FilesKept DEF Ordered
<1>3. OneRuns' /\ HeadWritten'
  BY <1>1 DEF Ordered, OneRuns, HeadWritten, HeadCurrent
<1>4. ASSUME NEW p \in Procs
      PROVE  Prepared(p)'
  BY <1>1 DEF Ordered, Prepared, Continues
<1> QED BY <1>2, <1>3, <1>4 DEF Ordered

LEMMA NextOrdered ==
    ASSUME StoreInv, [Next]_vars, serial
    PROVE  Ordered'
<1>1. CASE UNCHANGED vars
  BY <1>1, TrustOrdered DEF vars
<1>2. CASE Next
  <2>1. (\E p \in Procs : BuildBlock(p) \/ AppendStep(p) \/ Crash(p))
        \/ (\E p \in Procs, now \in 1 .. MaxTime : BuildGenesis(p, now))
        \/ (\E d \in Devices, k \in Keys : Enroll(d, k)) \/ (\E d \in Devices : DropDevice(d))
    BY <1>2 DEF Next
  <2>2. (\E d \in Devices, k \in Keys : Enroll(d, k)) \/ (\E d \in Devices : DropDevice(d))
        => UNCHANGED <<files, tmp, head, run, crashes>>
    BY DEF Enroll, DropDevice
  <2> QED
    BY <2>1, <2>2, BuildBlockOrdered, BuildGenesisOrdered, CheckExistsOrdered, OpenTmpOrdered,
       WriteTmpOrdered, ReplaceOrdered, OpenHeadOrdered, WriteHeadOrdered, CrashOrdered,
       TrustOrdered, Zenon DEF AppendStep
<1> QED BY <1>1, <1>2

LEMMA NextStoreInv ==
    ASSUME StoreInv, [Next]_vars
    PROVE  StoreInv'
<1>1. serial' = serial
  BY DEF Next, AppendStep, vars, BuildBlock, BuildGenesis, CheckExists, OpenTmp, WriteTmp, Replace,
         OpenHead, WriteHead, Crash, Enroll, DropDevice
<1> QED BY <1>1, NextTypeOK, NextAllGood, NextHeadThere, NextOrdered DEF StoreInv

-----------------------------------------------------------------------------
(* What the invariant says in the words of verify_chain. *)

(* The block at each index of the chain is whole, good, and linked. *)
LEMMA InChain ==
    ASSUME StoreInv, serial, NEW i \in Chain
    PROVE  /\ i \in Index /\ Readable(i) /\ Good(files[i], i) /\ Continues(files[i])
           /\ \A j \in 0 .. i : j \in Chain
<1>1. i \in Index /\ \A j \in 0 .. i : files[j] # NoFile
  BY DEF Chain
<1>2. files[i] # NoFile /\ \A j \in 0 .. i : j \in Index /\ \A k \in 0 .. j : k \in 0 .. i
  BY <1>1, Kinds DEF Index
<1>3. Readable(i)
  BY <1>1, <1>2 DEF StoreInv, Ordered, NoHoles
<1>4. Good(files[i], i) /\ Continues(files[i])
  BY <1>1, <1>3 DEF StoreInv, AllGood, Ordered, Linked, Readable
<1>5. \A j \in 0 .. i : j \in Chain
  BY <1>1, <1>2 DEF Chain
<1> QED BY <1>1, <1>3, <1>4, <1>5

(* With no holes, what is there is in the chain. *)
LEMMA ThereIsChained ==
    ASSUME StoreInv, serial, NEW i \in Index, files[i] # NoFile
    PROVE  i \in Chain
BY DEF StoreInv, Ordered, NoHoles, Chain

LEMMA StructureHolds ==
    ASSUME StoreInv, serial
    PROVE  StructureOK
<1> SUFFICES ASSUME NEW i \in Chain
             PROVE  /\ Readable(i)
                    /\ i = 0 => files[i].index = 0
                    /\ files[i].validator = Key
                    /\ LinkOK(i)
                    /\ NonceOK(i)
  BY DEF StructureOK
<1>1. /\ Readable(i) /\ files[i].index = i /\ files[i].validator = Key /\ Continues(files[i])
      /\ i \in Index
  BY InChain DEF Good
<1>2. LinkOK(i)
  <2> SUFFICES ASSUME i > 0
               PROVE  /\ files[i].index = files[i - 1].index + 1
                      /\ files[i].prev = files[i - 1].hash
                      /\ files[i].when > files[i - 1].when
    BY DEF LinkOK
  <2>1. i - 1 \in 0 .. i
    BY <1>1 DEF Index
  <2>2. files[i - 1].index = i - 1
    BY <2>1, InChain DEF Good
  <2> QED BY <1>1, <2>2 DEF Continues, Index
<1>3. NonceOK(i)
  <2> SUFFICES ASSUME NEW j \in Chain, j # i
               PROVE  files[j].nonce # files[i].nonce
    BY DEF NonceOK
  <2>1. j \in Index /\ files[j].index = j /\ Continues(files[j])
    BY InChain DEF Good
  <2>2. CASE j < i
    <3>1. j \in 0 .. i - 1 /\ i > 0
      BY <1>1, <2>1, <2>2 DEF Index
    <3> QED BY <1>1, <3>1 DEF Continues
  <2>3. CASE i < j
    <3>1. i \in 0 .. j - 1 /\ j > 0
      BY <1>1, <2>1, <2>3 DEF Index
    <3> QED BY <2>1, <3>1 DEF Continues
  <2> QED BY <1>1, <2>1, <2>2, <2>3 DEF Index
<1> QED BY <1>1, <1>2, <1>3

LEMMA BlocksAreSound ==
    ASSUME StoreInv
    PROVE  BlocksSound
<1>1. ASSUME NEW i \in Index, Readable(i)
      PROVE  files[i].validator = Key /\ (rotated = 0 => ApprovalOK(i))
  <2>1. Good(files[i], i)
    BY <1>1 DEF StoreInv, AllGood, Readable
  <2>2. files[i].v \in {1, 2}
    BY <2>1 DEF Good, Block
  <2> QED BY <2>1, <2>2 DEF Good, ApprovalOK
<1> QED BY <1>1, StructureHolds DEF BlocksSound

LEMMA HeadIsBehind ==
    ASSUME StoreInv
    PROVE  HeadLags
<1> SUFFICES ASSUME head \notin {NoFile, Torn}
             PROVE  /\ files[head.index] # NoFile
                    /\ serial => /\ head.index \in Chain
                                 /\ head = HeadOf(files[head.index])
                                 /\ head.index + 2 \notin Chain
  BY DEF HeadLags
<1>1. files[head.index] # NoFile /\ head.index \in Index
  BY DEF StoreInv, HeadThere, TypeOK
<1>2. ASSUME serial
      PROVE  /\ head.index \in Chain
             /\ head = HeadOf(files[head.index])
             /\ head.index + 2 \notin Chain
  <2>1. head.index \in Chain
    BY <1>1, <1>2, ThereIsChained
  <2>2. HeadTrue
    BY <1>2 DEF StoreInv, Ordered
  <2>3. ASSUME head.index + 2 \in Chain
        PROVE  FALSE
    <3>1. files[head.index + 2] # NoFile /\ head.index + 2 \in Index
      BY <2>3, <1>2, InChain DEF Readable
    <3> QED BY <1>1, <2>2, <3>1 DEF HeadTrue, Index
  <2> QED BY <2>1, <2>2, <2>3 DEF HeadTrue
<1> QED BY <1>1, <1>2

LEMMA WriterIsAccepted ==
    ASSUME StoreInv
    PROVE  WriterPassesVerify
<1> SUFFICES ASSUME serial, AllIdle, crashes = 0, rotated = 0, Chain # {}
             PROVE  VerifyChain
  BY DEF WriterPassesVerify
<1>1. StructureOK
  BY StructureHolds
<1>2. ApprovalsOK
  BY BlocksAreSound DEF ApprovalsOK, BlocksSound, Chain
<1>3. files[0] # NoFile
  BY Kinds DEF Chain, Index
<1>4. HeadCurrent
  BY <1>3 DEF StoreInv, Ordered, HeadWritten, AllIdle
<1>5. head.index \in Index
  BY <1>4 DEF HeadCurrent, StoreInv, TypeOK
<1>6. head.index \in Chain
  BY <1>4, <1>5, ThereIsChained DEF HeadCurrent
<1>7. head.index + 1 \notin Chain
  <2> SUFFICES ASSUME head.index + 1 \in Chain
               PROVE  FALSE
    OBVIOUS
  <2>1. files[head.index + 1] # NoFile /\ head.index + 1 \in Index
    BY InChain DEF Readable
  <2> QED BY <1>4, <1>5, <2>1 DEF HeadCurrent, Index
<1> QED BY <1>1, <1>2, <1>4, <1>6, <1>7 DEF VerifyChain, HeadMatches, HeadCurrent

-----------------------------------------------------------------------------
(* The directory's inductive invariant, its types first: the block in hand, *)
(* the .tmp file and the files agree as _append's file operations have them  *)
(* agree, whichever of them a command was killed between.                    *)
THEOREM StoreInvariant == Spec => [](TypeOK /\ StoreInv)
<1>1. StoreInv => TypeOK
  BY DEF StoreInv
<1> QED BY <1>1, InitStoreInv, NextStoreInv, PTL DEF Spec

(* Every block that can be read was written by the validator, with the       *)
(* approval of a registered device; and when commands come one at a time the *)
(* blocks are whole, linked, in time order and of distinct nonces, also when *)
(* a command dies between any two of _append's file operations.              *)
THEOREM StoreBlocksSound == Spec => []BlocksSound
BY StoreInvariant, BlocksAreSound, PTL

(* HEAD names a block that is there, also after a race; one at a time, it is *)
(* never ahead of the blocks and at most one behind.                         *)
THEOREM StoreHeadLags == Spec => []HeadLags
BY StoreInvariant, HeadIsBehind, PTL

(* What append_from_request and init leave, verify_chain accepts. *)
THEOREM StoreWriterPassesVerify == Spec => []WriterPassesVerify
BY StoreInvariant, WriterIsAccepted, PTL

-----------------------------------------------------------------------------
(* The append-only log. *)

(* A function that agrees with a log on the log's indices and has one more *)
(* entry at the end is the log with that entry appended.                   *)
LEMMA GrownByOne ==
    ASSUME NEW S, NEW n \in Nat, NEW e \in S,
           NEW f \in [1 .. n -> S], NEW g \in [1 .. n + 1 -> S],
           g[n + 1] = e, \A k \in 1 .. n : g[k] = f[k]
    PROVE  g = Append(f, e)
<1>1. f \in Seq(S) /\ Len(f) = n
  OBVIOUS
<1>2. g \in Seq(S) /\ Len(g) = n + 1
  OBVIOUS
<1>3. /\ Append(f, e) \in Seq(S)
      /\ Len(Append(f, e)) = n + 1
      /\ \A k \in 1 .. n : Append(f, e)[k] = f[k]
      /\ Append(f, e)[n + 1] = e
  BY <1>1, AppendProperties
<1>4. \A k \in 1 .. n + 1 : g[k] = Append(f, e)[k]
  <2>1. \A k \in 1 .. n + 1 : k \in 1 .. n \/ k = n + 1
    OBVIOUS
  <2> QED BY <2>1, <1>3
<1> QED BY <1>2, <1>3, <1>4, SeqEqual

LEMMA LogOfChain ==
    ASSUME NEW n \in Nat, Chain = 0 .. n - 1, serial,
           \A i \in 0 .. n - 1 : Readable(i)
    PROVE  BlockLog = [k \in 1 .. n |-> files[k - 1].hash]
<1>1. Height = n - 1
  <2>1. CASE n = 0
    BY <2>1 DEF Height
  <2>2. CASE n > 0
    <3>1. n - 1 \in Chain /\ \A j \in Chain : j <= n - 1
      BY <2>2
    <3>2. \A i \in Chain : (\A j \in Chain : j <= i) => i = n - 1
      BY <2>2
    <3> QED BY <3>1, <3>2 DEF Height
  <2> QED BY <2>1, <2>2
<1>2. \A k \in 1 .. n : k - 1 \in 0 .. n - 1
  OBVIOUS
<1> QED BY <1>1, <1>2 DEF BlockLog

LEMMA InitLog == Init => Log!Init
<1> SUFFICES ASSUME Init
             PROVE  Log!Init
  OBVIOUS
<1>1. Chain = {}
  <2>1. \A i \in Index : 0 \in 0 .. i /\ files[0] = NoFile
    BY Kinds DEF Init, Index
  <2> QED BY <2>1 DEF Chain
<1>2. serial => BlockLog = << >>
  <2>1. serial => BlockLog = [k \in 1 .. 0 |-> files[k - 1].hash]
    BY <1>1, LogOfChain
  <2> QED BY <2>1
<1>3. ~serial => BlockLog = << >>
  BY DEF BlockLog
<1> QED BY <1>2, <1>3 DEF Log!Init

(* The step that moves a block to its name appends it; no other touches the log. *)
LEMMA ReplaceGrows ==
    ASSUME StoreInv, serial, serial', NEW p \in Procs, Replace(p)
    PROVE  Log!Grow
<1>0. run[p].pc = "replace"
  BY DEF Replace
<1>1. TypeOK /\ Prepared(p) /\ NoHoles
  BY <1>0, OthersIdle
<1>2. PICK b : b = run[p].blk
  OBVIOUS
<1>3. /\ b \in Block /\ b.index \in Index /\ Continues(b) /\ tmp[b.index] = b /\ files[b.index] = NoFile
      /\ \A i \in Index : i > b.index => files[i] = NoFile
  BY <1>0, <1>1, <1>2, OthersIdle DEF Prepared
<1>4. files' = [files EXCEPT ![b.index] = b]
  BY <1>2, <1>3, Kinds DEF Replace
<1>5. b.hash \in Hashes /\ b \notin {NoFile, Torn} /\ b.index \in Nat
  BY <1>3, Kinds DEF Block, Index
<1>6. /\ files'[b.index] = b
      /\ \A i \in Index : i # b.index => files'[i] = files[i]
  BY <1>1, <1>3, <1>4 DEF TypeOK
<1>7. \A j \in 0 .. b.index - 1 : j \in Index /\ Readable(j) /\ files[j] \in Block
  <2> SUFFICES ASSUME b.index > 0
               PROVE  \A j \in 0 .. b.index - 1 : j \in Index /\ Readable(j) /\ files[j] \in Block
    BY <1>5
  <2>1. b.index - 1 \in Index /\ files[b.index - 1] # NoFile
    BY <1>3, Kinds DEF Index, Continues
  <2>2. \A j \in 0 .. b.index - 1 : j \in Index /\ files[j] # NoFile
    BY <1>1, <1>3, <2>1, Kinds DEF NoHoles, Index
  <2> QED BY <1>1, <2>2 DEF NoHoles, Readable, TypeOK
<1>8. Chain = 0 .. b.index - 1
  <2>1. \A i \in Chain : i \in 0 .. b.index - 1
    BY <1>3, <1>5, Kinds DEF Chain, Index
  <2>2. \A i \in 0 .. b.index - 1 : i \in Chain
    BY <1>5, <1>7, Kinds DEF Chain, Index, Readable
  <2> QED BY <2>1, <2>2
<1>9. \A j \in 0 .. b.index : Readable(j)'
  <2>1. \A j \in 0 .. b.index : j = b.index \/ (j \in 0 .. b.index - 1 /\ j # b.index)
    BY <1>5
  <2> QED BY <1>5, <1>6, <1>7, <2>1 DEF Readable
<1>10. Chain' = 0 .. b.index
  <2>1. \A i \in Index : i > b.index => files'[i] = NoFile
    BY <1>3, <1>5, <1>6 DEF Index
  <2>2. \A i \in Chain' : i \in 0 .. b.index
    BY <1>3, <1>5, <2>1, Kinds DEF Chain, Index
  <2>3. \A i \in 0 .. b.index : i \in Chain'
    BY <1>3, <1>5, <1>9, Kinds DEF Chain, Index, Readable
  <2> QED BY <2>2, <2>3
<1>11. PICK n \in Nat : n = b.index
  BY <1>5
<1>12. BlockLog = [k \in 1 .. n |-> files[k - 1].hash]
  BY <1>7, <1>8, <1>11, LogOfChain
<1>13. BlockLog' = [k \in 1 .. n + 1 |-> files'[k - 1].hash]
  <2>1. (n + 1) - 1 = n
    BY <1>11
  <2>2. Chain' = 0 .. (n + 1) - 1 /\ \A i \in 0 .. (n + 1) - 1 : Readable(i)'
    BY <1>9, <1>10, <1>11, <2>1
  <2>3. ASSUME NEW m \in Nat, Chain' = 0 .. m - 1, \A i \in 0 .. m - 1 : Readable(i)'
        PROVE  BlockLog' = [k \in 1 .. m |-> files'[k - 1].hash]
    <3>1. Height' = m - 1
      <4>1. CASE m = 0
        BY <2>3, <4>1 DEF Height
      <4>2. CASE m > 0
        <5>1. m - 1 \in Chain' /\ \A j \in Chain' : j <= m - 1
          BY <2>3, <4>2
        <5>2. \A i \in Chain' : (\A j \in Chain' : j <= i) => i = m - 1
          BY <2>3, <4>2
        <5> QED BY <5>1, <5>2 DEF Height
      <4> QED BY <4>1, <4>2
    <3>2. \A k \in 1 .. m : k - 1 \in 0 .. m - 1
      OBVIOUS
    <3> QED BY <2>3, <3>1, <3>2 DEF BlockLog
  <2> QED BY <1>11, <2>2, <2>3
<1>14. \A k \in 1 .. n : k - 1 \in 0 .. n - 1 /\ k - 1 # n
  BY <1>11
<1>15. \A k \in 1 .. n : files[k - 1].hash \in Hashes /\ files'[k - 1] = files[k - 1]
  BY <1>6, <1>7, <1>11, <1>14 DEF Block
<1>16. BlockLog \in [1 .. n -> Hashes]
  BY <1>12, <1>15
<1>17. /\ \A k \in 1 .. n : BlockLog'[k] = BlockLog[k]
       /\ BlockLog'[n + 1] = b.hash
       /\ BlockLog' \in [1 .. n + 1 -> Hashes]
  <2>1. \A k \in 1 .. n + 1 : k \in 1 .. n \/ k = n + 1
    BY <1>11
  <2>2. files'[(n + 1) - 1].hash = b.hash
    BY <1>6, <1>11
  <2> QED BY <1>5, <1>12, <1>13, <1>15, <2>1, <2>2
<1>18. BlockLog' = Append(BlockLog, b.hash)
  BY <1>5, <1>16, <1>17, GrownByOne
<1> QED BY <1>5, <1>18 DEF Log!Grow

LEMMA NextLog ==
    ASSUME StoreInv, [Next]_vars
    PROVE  [Log!Grow]_BlockLog
<1>1. serial' = serial /\ (files' = files \/ \E p \in Procs : WriteTmp(p) \/ Replace(p))
  BY DEF Next, AppendStep, vars, BuildBlock, BuildGenesis, CheckExists, OpenTmp, WriteTmp, Replace,
         OpenHead, WriteHead, Crash, Enroll, DropDevice
<1>2. CASE ~serial
  BY <1>1, <1>2 DEF BlockLog
<1>3. CASE files' = files
  <2>1. Chain' = Chain
    BY <1>3 DEF Chain
  <2>2. Height' = Height
    BY <2>1 DEF Height
  <2> QED BY <1>1, <1>3, <2>2 DEF BlockLog, Readable
<1>4. ASSUME serial, NEW p \in Procs, WriteTmp(p)
      PROVE  files' = files
  <2>1. run[p].pc = "write"
    BY <1>4 DEF WriteTmp
  <2>2. Prepared(p)
    BY <1>4, <2>1, OthersIdle
  <2>3. tmp[run[p].blk.index] = Torn
    BY <2>1, <2>2 DEF Prepared
  <2> QED BY <1>4, <2>3, Kinds DEF WriteTmp
<1>5. ASSUME serial, NEW p \in Procs, Replace(p)
      PROVE  Log!Grow
  BY <1>1, <1>5, ReplaceGrows
<1> QED BY <1>1, <1>2, <1>3, <1>4, <1>5

(* Commands that come one at a time implement the log: one killed between any *)
(* two file operations, and the next one, never rewrite or drop a block.      *)
THEOREM StoreImplementsLog == Spec => ImplementsLog
<1>1. StoreInv /\ [Next]_vars => [Log!Grow]_BlockLog
  BY NextLog
<1> QED BY <1>1, InitLog, InitStoreInv, NextStoreInv, PTL DEF Spec, ImplementsLog, Log!Spec
=============================================================================
