---------------------------- MODULE LedgerStore ----------------------------
(***************************************************************************)
(* The block directory: Ledger.init, append_from_request and _append        *)
(* (chain.py), run by one or several `aikiri-ledger block` processes that    *)
(* may be killed between any two file operations, the trust file `enroll`    *)
(* writes, and verify_chain (verify.py), the judge of what they leave.       *)
(*                                                                          *)
(* A file is absent (NoFile), was created or truncated and not yet written  *)
(* (Torn), or holds what was written.  A hash is a number drawn afresh for   *)
(* every block that is built (SHA-256 over contents that hold a timestamp    *)
(* and a nonce: no two builds collide); 0 is the hash of the genesis text.   *)
(* Abstracted: roots, signatures, encodings.  A file that was written whole  *)
(* parses, hashes to its own hash and carries its validator's signature.     *)
(***************************************************************************)
EXTENDS Integers

CONSTANTS
    Procs,        \* the processes
    MaxIndex,     \* bound on the block indices
    MaxBuilt,     \* bound on the blocks built, and so on the hashes
    MaxTime,      \* bound on the clock's readings
    Nonces, NoNonce,
    Devices, Keys, NoKey,     \* approval devices and their public keys
    Validators, Key,          \* validator keys; the one the processes hold
    MaxCrashes,
    MaxRotations, \* bound on the devices given a new key, or dropped
    NoFile, Torn, NoBlock

ASSUME StoreAssumption ==
    /\ MaxIndex \in Nat /\ MaxBuilt \in Nat /\ MaxTime \in Nat
    /\ MaxCrashes \in Nat /\ MaxRotations \in Nat
    /\ Key \in Validators
    /\ NoNonce \notin Nonces
    /\ NoKey \notin Keys
    /\ NoFile # Torn

VARIABLES
    serial,    \* whether commands run one at a time, as block.yml's concurrency group has it
    files,     \* index -> blocks/NNNNNN.json
    tmp,       \* index -> blocks/NNNNNN.tmp
    head,      \* HEAD
    trust,     \* the trust file's approval keys: device -> its key
    run,       \* process -> how far its command is, and the block it built
    built,     \* blocks built so far
    crashes,
    rotated    \* devices given a new key, or dropped, so far

vars == <<serial, files, tmp, head, trust, run, built, crashes, rotated>>

Index == 0 .. MaxIndex
Hashes == 1 .. MaxBuilt

(* A sealed request, as Request.parse lets it through: any index from 1, any   *)
(* 64 hex digits, and an approval by some device and key.  `covers` says       *)
(* whether the signature is over this index, prev_hash, nonce and validator.   *)
Requests == [index : Index \ {0}, prev : 0 .. MaxBuilt, nonce : Nonces, dev : Devices,
             key : Keys, covers : BOOLEAN, validator : Validators]

Block == [v : {1, 2}, index : Index, prev : 0 .. MaxBuilt, nonce : Nonces \cup {NoNonce},
          dev : Devices \cup {NoKey}, key : Keys \cup {NoKey}, covers : BOOLEAN,
          validator : Validators, when : 1 .. MaxTime, hash : Hashes]

ASSUME FileAssumption ==
    /\ {NoFile, Torn} \cap Block = {} /\ NoBlock \notin Block
    /\ {NoFile, Torn} \cap [index : Index, hash : Hashes] = {} /\ Torn \notin Hashes

BlockOf(r, now) ==
    [v |-> 2, index |-> r.index, prev |-> r.prev, nonce |-> r.nonce, dev |-> r.dev,
     key |-> r.key, covers |-> r.covers, validator |-> Key, when |-> now, hash |-> built + 1]

GenesisOf(now) ==
    [v |-> 1, index |-> 0, prev |-> 0, nonce |-> NoNonce, dev |-> NoKey,
     key |-> NoKey, covers |-> FALSE, validator |-> Key, when |-> now, hash |-> built + 1]

(* A bug: the two words of HEAD the wrong way round. *)
HeadOfSwapped(b) == [index |-> b.hash, hash |-> b.index]
HeadOf(b) == [index |-> b.index, hash |-> b.hash]

Idle == [pc |-> "idle", blk |-> NoBlock]

TypeOK ==
    /\ serial \in BOOLEAN
    /\ files \in [Index -> Block \cup {NoFile, Torn}]
    /\ tmp \in [Index -> Block \cup {NoFile, Torn}]
    /\ head \in [index : Index, hash : Hashes] \cup {NoFile, Torn}
    /\ trust \in [Devices -> Keys \cup {NoKey}]
    /\ run \in [Procs -> [pc : {"idle", "exists", "open", "write", "replace",
                                "openhead", "writehead"},
                          blk : Block \cup {NoBlock}]]
    /\ built \in 0 .. MaxBuilt
    /\ crashes \in 0 .. MaxCrashes
    /\ rotated \in 0 .. MaxRotations

Init ==
    /\ serial \in BOOLEAN
    /\ files = [i \in Index |-> NoFile]
    /\ tmp = [i \in Index |-> NoFile]
    /\ head = NoFile
    /\ trust = [d \in Devices |-> NoKey]
    /\ run = [p \in Procs |-> Idle]
    /\ built = 0
    /\ crashes = 0
    /\ rotated = 0

-----------------------------------------------------------------------------
(* What blocks() and height() walk over: the files up to the first absent one. *)
Readable(i) == files[i] # NoFile /\ files[i] # Torn
Chain == {i \in Index : \A j \in 0 .. i : files[j] # NoFile}

(* verify_approval, against the registered devices. *)
Approved(r) == r.covers /\ trust[r.dev] = r.key

(* A bug: the nonce is not looked at. *)
ConsumableTwice(r) ==
    /\ head \notin {NoFile, Torn}
    /\ \A i \in Chain : Readable(i)
    /\ Readable(head.index)
    /\ r.index = files[head.index].index + 1
    /\ r.prev = files[head.index].hash

(* consume(): head() reads the block HEAD names, nonces() every block. *)
Consumable(r) ==
    /\ head \notin {NoFile, Torn}
    /\ \A i \in Chain : Readable(i)
    /\ Readable(head.index)
    /\ LET last == files[head.index]
       IN  /\ r.index = last.index + 1
           /\ r.prev = last.hash
    /\ \A i \in Chain : files[i].nonce # r.nonce

(* A command starts. *)
MayStart(p) ==
    /\ run[p].pc = "idle"
    /\ serial => \A q \in Procs : run[q].pc = "idle"

(* A bug: the registered devices are not handed on, and any key will do. *)
BuildBlockUnregistered(p) ==
    /\ MayStart(p)
    /\ built < MaxBuilt
    /\ built' = built + 1
    /\ \E r \in Requests, now \in 1 .. MaxTime :
          /\ Consumable(r)
          /\ r.validator = Key
          /\ r.covers
          /\ now > files[head.index].when
          /\ run' = [run EXCEPT ![p] = [pc |-> "exists", blk |-> BlockOf(r, now)]]
    /\ UNCHANGED <<serial, files, tmp, head, trust, crashes, rotated>>

(* append_from_request up to the point where the block is built and signed.  *)
(* A request that fails any check, or a clock that is behind, ends the run.  *)
BuildBlock(p) ==
    /\ MayStart(p)
    /\ \E d \in Devices : trust[d] # NoKey      \* `block` refuses with no device registered
    /\ built < MaxBuilt
    /\ built' = built + 1
    /\ \E r \in Requests, now \in 1 .. MaxTime :
          /\ Consumable(r)
          /\ r.validator = Key
          /\ Approved(r)
          /\ now > files[head.index].when
          /\ run' = [run EXCEPT ![p] = [pc |-> "exists", blk |-> BlockOf(r, now)]]
    /\ UNCHANGED <<serial, files, tmp, head, trust, crashes, rotated>>

(* init, which refuses when block 0 is there. *)
BuildGenesis(p, now) ==
    /\ MayStart(p)
    /\ files[0] = NoFile
    /\ built < MaxBuilt
    /\ built' = built + 1
    /\ run' = [run EXCEPT ![p] = [pc |-> "exists", blk |-> GenesisOf(now)]]
    /\ UNCHANGED <<serial, files, tmp, head, trust, crashes, rotated>>

Goto(p, pc) == run' = [run EXCEPT ![p].pc = pc]
Stop(p) == run' = [run EXCEPT ![p] = Idle]

(* A bug: a block that is there is not an error. *)
CheckExistsSkipped(p) ==
    /\ run[p].pc = "exists"
    /\ Goto(p, "open")
    /\ UNCHANGED <<serial, files, tmp, head, trust, built, crashes, rotated>>

(* _append, file operation by file operation; two runs share the .tmp name. *)
CheckExists(p) ==
    /\ run[p].pc = "exists"
    /\ \/ files[run[p].blk.index] = NoFile /\ Goto(p, "open")
       \/ files[run[p].blk.index] # NoFile /\ Stop(p)        \* FileExistsError
    /\ UNCHANGED <<serial, files, tmp, head, trust, built, crashes, rotated>>

(* Bugs: the block is written under its own name, or HEAD before the block. *)
OpenInPlace(p) ==
    /\ run[p].pc = "open"
    /\ files' = [files EXCEPT ![run[p].blk.index] = Torn]
    /\ Goto(p, "write")
    /\ UNCHANGED <<serial, tmp, head, trust, built, crashes, rotated>>
OpenHeadFirst(p) ==
    /\ run[p].pc = "open"
    /\ tmp' = [tmp EXCEPT ![run[p].blk.index] = Torn]
    /\ head' = HeadOf(run[p].blk)
    /\ Goto(p, "write")
    /\ UNCHANGED <<serial, files, trust, built, crashes, rotated>>

OpenTmp(p) ==
    /\ run[p].pc = "open"
    /\ tmp' = [tmp EXCEPT ![run[p].blk.index] = Torn]
    /\ Goto(p, "write")
    /\ UNCHANGED <<serial, files, head, trust, built, crashes, rotated>>

(* Writing from the start of a file that holds `old`: over a longer text of the *)
(* other run, the end of that text stays.                                       *)
Written(old, b) == {b} \cup (IF old = Torn THEN {} ELSE {Torn})

(* The open file may have been moved to the block's name by the other run.    *)
WriteTmp(p) ==
    /\ run[p].pc = "write"
    /\ LET b == run[p].blk
       IN  \/ /\ tmp[b.index] # NoFile
              /\ \E new \in Written(tmp[b.index], b) : tmp' = [tmp EXCEPT ![b.index] = new]
              /\ UNCHANGED files
           \/ /\ tmp[b.index] = NoFile
              /\ \E new \in Written(files[b.index], b) : files' = [files EXCEPT ![b.index] = new]
              /\ UNCHANGED tmp
    /\ Goto(p, "replace")
    /\ UNCHANGED <<serial, head, trust, built, crashes, rotated>>

(* os.replace moves whatever is under the .tmp name by now, or finds nothing. *)
Replace(p) ==
    /\ run[p].pc = "replace"
    /\ LET i == run[p].blk.index
       IN  \/ /\ tmp[i] # NoFile
              /\ files' = [files EXCEPT ![i] = tmp[i]]
              /\ tmp' = [tmp EXCEPT ![i] = NoFile]
              /\ Goto(p, "openhead")
           \/ /\ tmp[i] = NoFile
              /\ Stop(p)
              /\ UNCHANGED <<serial, files, tmp>>
    /\ UNCHANGED <<serial, head, trust, built, crashes, rotated>>

(* HEAD is written in place. *)
OpenHead(p) ==
    /\ run[p].pc = "openhead"
    /\ head' = Torn
    /\ Goto(p, "writehead")
    /\ UNCHANGED <<serial, files, tmp, trust, built, crashes, rotated>>

WriteHead(p) ==
    /\ run[p].pc = "writehead"
    /\ head' = HeadOf(run[p].blk)
    /\ Stop(p)
    /\ UNCHANGED <<serial, files, tmp, trust, built, crashes, rotated>>

Crash(p) ==
    /\ run[p].pc # "idle"
    /\ crashes < MaxCrashes
    /\ crashes' = crashes + 1
    /\ Stop(p)
    /\ UNCHANGED <<serial, files, tmp, head, trust, built, rotated>>

(* `enroll`: the device's entry is added, or replaced. *)
Enroll(d, k) ==
    /\ \/ trust[d] = NoKey /\ UNCHANGED rotated
       \/ trust[d] # NoKey /\ rotated < MaxRotations /\ rotated' = rotated + 1
    /\ trust' = [trust EXCEPT ![d] = k]
    /\ UNCHANGED <<serial, files, tmp, head, run, built, crashes>>

(* A new trust anchor is published without a lost device (docs/approval.md:82). *)
DropDevice(d) ==
    /\ trust[d] # NoKey
    /\ rotated < MaxRotations
    /\ rotated' = rotated + 1
    /\ trust' = [trust EXCEPT ![d] = NoKey]
    /\ UNCHANGED <<serial, files, tmp, head, run, built, crashes>>

AppendStep(p) ==
    \/ CheckExists(p)
    \/ OpenTmp(p)
    \/ WriteTmp(p)
    \/ Replace(p)
    \/ OpenHead(p)
    \/ WriteHead(p)

Next ==
    \/ \E p \in Procs : BuildBlock(p)
    \/ \E p \in Procs, now \in 1 .. MaxTime : BuildGenesis(p, now)
    \/ \E p \in Procs : AppendStep(p)
    \/ \E p \in Procs : Crash(p)
    \/ \E d \in Devices, k \in Keys : Enroll(d, k)
    \/ \E d \in Devices : DropDevice(d)

Spec == Init /\ [][Next]_vars

-----------------------------------------------------------------------------
(* verify_chain, with the validator and the genesis block pinned.  It judges  *)
(* the files alone; the pinned hash of block 0 is that of the genesis there.  *)

LinkOK(i) ==
    i > 0 => /\ files[i].index = files[i - 1].index + 1
             /\ files[i].prev = files[i - 1].hash
             /\ files[i].when > files[i - 1].when

NonceOK(i) ==
    files[i].v = 2 => \A j \in Chain : j # i /\ files[j].v = 2 => files[j].nonce # files[i].nonce

ApprovalOK(i) ==
    IF files[i].v = 1 THEN i = 0 ELSE Approved(files[i])

HeadMatches ==
    /\ head \notin {NoFile, Torn}
    /\ head.index \in Chain /\ head.index + 1 \notin Chain
    /\ head = HeadOf(files[head.index])

StructureOK ==
    \A i \in Chain :
        /\ Readable(i)
        /\ i = 0 => files[i].index = 0
        /\ files[i].validator = Key
        /\ LinkOK(i)
        /\ NonceOK(i)

ApprovalsOK == \A i \in Chain : Readable(i) => ApprovalOK(i)

VerifyChain == Chain # {} /\ StructureOK /\ ApprovalsOK /\ HeadMatches

-----------------------------------------------------------------------------
AllIdle == \A p \in Procs : run[p].pc = "idle"

(* What append_from_request writes, verify_chain accepts, as long as commands  *)
(* come one at a time and the registered devices stay what they were: the two  *)
(* state the same rules twice, in different words, and a rule the writer lacks *)
(* makes the ledger INVALID for good, since nothing is ever rewritten.         *)
WriterPassesVerify ==
    serial /\ AllIdle /\ crashes = 0 /\ rotated = 0 /\ Chain # {} => VerifyChain

(* A crash harms HEAD at most: every block that can be seen is whole, linked,  *)
(* later than the one before, and consumed its own nonce; and approved, unless *)
(* a device was rotated since.  When two commands race, one may overwrite what *)
(* the other wrote; but also then no block that can be read was written by     *)
(* another validator or without the approval of a registered device.           *)
BlocksSound ==
    /\ serial => StructureOK
    /\ \A i \in Index : Readable(i) =>
          files[i].validator = Key /\ (rotated = 0 => ApprovalOK(i))

(* HEAD is never ahead of the blocks, and never more than one block behind,   *)
(* so that a reader who trusts it misses the block being written at most; and  *)
(* when two commands race it names a block that is there all the same, so that *)
(* head(), which every later command starts from, finds a file.                *)
HeadLags ==
    head \notin {NoFile, Torn} =>
        /\ files[head.index] # NoFile
        /\ serial => /\ head.index \in Chain
                     /\ head = HeadOf(files[head.index])
                     /\ head.index + 2 \notin Chain

(* The blocks that can be seen, as a log of their hashes. *)
Height == IF Chain = {} THEN -1 ELSE CHOOSE i \in Chain : \A j \in Chain : j <= i
BlockLog ==
    IF serial THEN [n \in 1 .. Height + 1 |-> IF Readable(n - 1) THEN files[n - 1].hash ELSE Torn]
    ELSE <<>>

Log == INSTANCE AppendOnlyLog WITH Entries <- Hashes, log <- BlockLog

(* Under commands that come one at a time the directory is an append-only log  *)
(* of block hashes, also when one is killed at any point and another takes     *)
(* over.  (Two at once may replace each other's block: no log.)                *)
ImplementsLog == Log!Spec

(* "blocks already approved by it stay valid" (docs/approval.md:83): a ledger  *)
(* that verified still does after a device is dropped from the trust anchor.  *)
DroppedDeviceHarmless ==
    [][VerifyChain /\ files' = files /\ head' = head => VerifyChain']_vars
=============================================================================
