---------------------------- MODULE OtsProofProofs ----------------------------
(***************************************************************************)
(* For any number of stamps, levels of a proof and kills: no proof file is   *)
(* lost, no backup lies beside a proof it did not come from, no command that *)
(* is not killed leaves half a stamp, what `upgrade` reports is so, and no   *)
(* merge takes a proof from main or puts an earlier one there.               *)
(*                                                                          *)
(* OtsInv says what lies on the disk at each step of a command; every step is *)
(* taken apart by the place it is at, so that what it finds there is known.  *)
(* NightInv adds where the files came from: what a night has made of the     *)
(* proof it checked out, and what its request would make of it on main.      *)
(***************************************************************************)
EXTENDS Nightly, TLAPS

(* The places of a command, by what it has on the disk there. *)
Stamping == {"digest", "stamp", "stampwrite", "stamped", "clean"}
Upgrading == {"ots", "create", "write", "resettle", "judge"}

(* The exit status of ots agrees with the proof f it left; "failed" says nothing. *)
ExitTrue(f) ==
    /\ run.exit = "ok" => f.level = Complete
    /\ run.exit = "incomplete" => f.level < Complete

DiskWhileStamping ==
    run.pc \in Stamping =>
        /\ run.cmd = "stamp" /\ bak = Absent
        /\ run.pc \in {"digest", "stamp"} => ots = Absent
        /\ run.pc = "stampwrite" => ots = Torn
        /\ run.pc = "stamped" => IsProof(ots)

DiskWhileUpgrading ==
    run.pc \in Upgrading =>
        /\ run.cmd = "upgrade" /\ IsProof(run.before)
        /\ run.pc = "ots" => ots = run.before /\ bak = Absent
        /\ run.pc = "create" => ots = Absent /\ bak = run.before
        /\ run.pc = "write" => ots = Torn /\ bak = run.before
        /\ run.pc = "resettle" =>
              /\ run.exit # "none"
              /\ IsProof(ots) => ExitTrue(ots)
              /\ \/ bak = Absent /\ ots = run.before
                 \/ bak = run.before /\ run.exit = "failed" /\ ~IsProof(ots)
                 \/ bak = run.before /\ IsProof(ots)
        /\ run.pc = "judge" => IsProof(ots) /\ bak = Absent /\ ExitTrue(ots) /\ run.exit # "none"

(* The .hash of a run that was never killed: it lies beside a proof, or this  *)
(* run made it and knows that.                                               *)
HashKept ==
    /\ run.pc \in {"settle", "look", "digest"} => run.hadHash = (hash # "absent")
    /\ crashes = 0 =>
          /\ run.pc \in {"idle", "settle", "look"} => ots # Torn /\ (hash = "made" => IsProof(ots))
          /\ run.pc = "digest" => hash # "made"
          /\ run.pc \in Stamping => (hash = "made" => ~run.hadHash)

OtsInv ==
    /\ TypeOK
    /\ BackupIsOlder
    /\ AnswerTrue
    /\ run.pc # "idle" => said = "none" /\ run.cmd # "none"
    /\ run.pc = "look" => bak = Absent
    /\ DiskWhileStamping
    /\ DiskWhileUpgrading
    /\ HashKept

-----------------------------------------------------------------------------
(* The kinds of files told apart, and that a proof is told by its three fields. *)
LEMMA FileKinds ==
    /\ Absent \in Files /\ Link \in Files /\ Junk \in Files /\ Torn \in Files
    /\ ~IsProof(Absent) /\ ~IsProof(Torn) /\ ~IsProof(Link) /\ ~IsProof(Junk)
    /\ Torn # Absent /\ Link # Absent /\ Junk # Absent
  BY DEF Files, File, Absent, Link, Junk, Torn, IsProof

LEMMA ProofFile ==
    ASSUME NEW id \in 0 .. MaxStamps, NEW l \in 0 .. Complete
    PROVE  /\ Proof(id, l) \in Files /\ IsProof(Proof(id, l))
           /\ Proof(id, l).id = id /\ Proof(id, l).level = l
           /\ Proof(id, l) # Absent /\ Proof(id, l) # Torn
  BY DEF Files, Proof, IsProof, File, Absent, Torn

LEMMA ProofFields ==
    ASSUME NEW f \in Files, IsProof(f)
    PROVE  f.id \in 0 .. MaxStamps /\ f.level \in 0 .. Complete /\ f # Absent /\ f # Torn
  BY DEF Files, File, Proof, Absent, Link, Junk, Torn, IsProof

LEMMA InitOtsInv == Init => OtsInv
<1> SUFFICES ASSUME Init PROVE OtsInv
  OBVIOUS
<1>1. 0 \in 0 .. MaxStamps /\ 0 \in 0 .. Complete /\ 0 \in 0 .. MaxCrashes
  BY OtsAssumption
<1>2. ots \in Files /\ bak \in Files
  BY <1>1, FileKinds, ProofFile DEF Init
<1>3. IsProof(ots) /\ IsProof(bak) => ots.id = bak.id /\ ots.level >= bak.level
  BY <1>1, FileKinds, ProofFile DEF Init
<1>4. ots # Torn
  BY <1>1, ProofFile DEF Init, Absent, Link, Junk, Torn, File
<1> QED
  BY <1>1, <1>2, <1>3, <1>4, FileKinds
     DEF Init, OtsInv, TypeOK, BackupIsOlder, AnswerTrue, DiskWhileStamping, DiskWhileUpgrading, HashKept,
         Idle, Words, Stamping, Upgrading

LEMMA StartStep == ASSUME OtsInv, NEW cmd \in {"stamp", "upgrade"}, Start(cmd) PROVE OtsInv'
  BY FileKinds
     DEF OtsInv, Start, TypeOK, BackupIsOlder, AnswerTrue, DiskWhileStamping, DiskWhileUpgrading, HashKept,
         Idle, Words, Stamping, Upgrading

(* A command that ends leaves nothing to know but what lies on the disk. *)
LEMMA EndStep ==
    ASSUME OtsInv, NEW word \in Words, Ends(word),
           ots' \in Files, bak' \in Files, hash' \in {"absent", "found", "made"},
           crashes' \in 0 .. MaxCrashes,
           IsProof(ots') /\ IsProof(bak') => ots'.id = bak'.id /\ ots'.level >= bak'.level,
           word \in {"complete", "upgraded, complete"} => IsProof(ots') /\ ots'.level = Complete,
           word \in {"pending", "upgraded, still pending"} => IsProof(ots') /\ ots'.level < Complete,
           crashes' = 0 => ots' # Torn /\ (hash' = "made" => IsProof(ots'))
    PROVE  OtsInv'
<1>1. run' = Idle /\ said' = word
  BY DEF Ends
<1>2. TypeOK' /\ AnswerTrue'
  BY <1>1, FileKinds DEF TypeOK, Idle, AnswerTrue, IsProof
<1>3. BackupIsOlder' /\ DiskWhileStamping' /\ DiskWhileUpgrading' /\ HashKept'
  BY <1>1 DEF Idle, BackupIsOlder, DiskWhileStamping, DiskWhileUpgrading, HashKept, Stamping, Upgrading, IsProof
<1> QED BY <1>1, <1>2, <1>3 DEF OtsInv, Idle

(* A backup that is settled is gone, and what is left is a proof if one was there. *)
LEMMA SettledDisk ==
    ASSUME OtsInv, Settled
    PROVE  /\ ots' \in Files /\ bak' = Absent
           /\ IsProof(ots) => ots' = ots
           /\ IsProof(bak) /\ ~IsProof(ots) => ots' = bak
           /\ ~IsProof(bak) => ots' = ots
           /\ ~IsProof(bak) /\ ~IsProof(ots) => bak = Absent
  BY FileKinds DEF OtsInv, TypeOK, Settled

LEMMA SettleStep == ASSUME OtsInv, Settle PROVE OtsInv'
<1>1. CASE Settled /\ Goto("look") /\ UNCHANGED said
  <2>1. ots' \in Files /\ bak' = Absent /\ (IsProof(ots) => ots' = ots)
        /\ (~IsProof(bak) => ots' = ots) /\ (IsProof(bak) /\ ~IsProof(ots) => ots' = bak)
    BY <1>1, SettledDisk
  <2>2. TypeOK'
    BY <1>1, <2>1, FileKinds DEF OtsInv, Settle, Goto, TypeOK
  <2>3. BackupIsOlder' /\ AnswerTrue' /\ DiskWhileStamping' /\ DiskWhileUpgrading'
    BY <1>1, <2>1, FileKinds
       DEF OtsInv, Settle, Goto, TypeOK, BackupIsOlder, AnswerTrue, DiskWhileStamping, DiskWhileUpgrading,
           Stamping, Upgrading
  <2>4. HashKept'
    BY <1>1, <2>1, FileKinds DEF OtsInv, Settle, Goto, TypeOK, HashKept, Stamping
  <2>5. run'.pc = "look" /\ run'.cmd = run.cmd /\ run.cmd # "none" /\ said' = "none" /\ bak' = Absent
    BY <1>1, <2>1 DEF OtsInv, Settle, Goto, TypeOK
  <2> QED BY <2>2, <2>3, <2>4, <2>5 DEF OtsInv
<1>2. CASE Blocked /\ Ends("blocked") /\ UNCHANGED <<ots, bak>>
  BY <1>2, EndStep DEF OtsInv, Settle, TypeOK, BackupIsOlder, HashKept, Words
<1> QED BY <1>1, <1>2 DEF Settle

LEMMA LookStep == ASSUME OtsInv, Look PROVE OtsInv'
<1> USE DEF OtsInv, Look
<1>1. CASE \E word \in {"skipped", "refused"} : Ends(word)
  BY <1>1, EndStep DEF TypeOK, BackupIsOlder, HashKept, Words
<1>2. CASE run.cmd = "stamp" /\ ots = Absent /\ Goto("digest") /\ UNCHANGED said
  BY <1>2, FileKinds
     DEF Goto, TypeOK, BackupIsOlder, AnswerTrue, DiskWhileStamping, DiskWhileUpgrading, HashKept,
         Stamping, Upgrading
<1>3. CASE run.cmd = "upgrade" /\ IsProof(ots) /\ UNCHANGED said /\ run' = [run EXCEPT !.pc = "ots", !.before = ots]
  BY <1>3, FileKinds
     DEF TypeOK, BackupIsOlder, AnswerTrue, DiskWhileStamping, DiskWhileUpgrading, HashKept,
         Stamping, Upgrading
<1> QED BY <1>1, <1>2, <1>3

LEMMA InfoFailsStep == ASSUME OtsInv, InfoFails PROVE OtsInv'
<1> USE DEF OtsInv, InfoFails
<1>1. CASE run.pc # "resettle" /\ UNCHANGED <<ots, bak>>
  BY <1>1, FileKinds, EndStep DEF TypeOK, BackupIsOlder, HashKept, Words, DiskWhileUpgrading, Upgrading
<1>2. CASE run.pc = "resettle" /\ ots' = bak /\ bak' = Absent /\ Exists(bak)
  <2>1. IsProof(ots') /\ ~IsProof(bak')
    BY <1>2, FileKinds DEF DiskWhileUpgrading, Upgrading, Exists
  <2> QED BY <1>2, <2>1, FileKinds, EndStep DEF TypeOK, Words
<1> QED BY <1>1, <1>2

-----------------------------------------------------------------------------
(* stamp *)

LEMMA DigestStep == ASSUME OtsInv, Digest PROVE OtsInv'
  BY FileKinds
     DEF OtsInv, Digest, Goto, TypeOK, BackupIsOlder, AnswerTrue, DiskWhileStamping, DiskWhileUpgrading,
         HashKept, Stamping, Upgrading

LEMMA OtsCreatesStep == ASSUME OtsInv, OtsCreates PROVE OtsInv'
  BY FileKinds
     DEF OtsInv, OtsCreates, Goto, TypeOK, BackupIsOlder, AnswerTrue, DiskWhileStamping, DiskWhileUpgrading,
         HashKept, Stamping, Upgrading

LEMMA OtsStampsStep == ASSUME OtsInv, OtsStamps PROVE OtsInv'
<1>1. PICK id \in 1 .. MaxStamps : ots' = Proof(id, 0)
  BY DEF OtsStamps
<1>2. ots' \in Files /\ IsProof(ots') /\ ots' # Torn
  <2>1. id \in 0 .. MaxStamps /\ 0 \in 0 .. Complete
    BY OtsAssumption
  <2> QED BY <1>1, <2>1, ProofFile
<1> QED
  BY <1>2, FileKinds
     DEF OtsInv, OtsStamps, Goto, TypeOK, BackupIsOlder, AnswerTrue, DiskWhileStamping, DiskWhileUpgrading,
         HashKept, Stamping, Upgrading

LEMMA StampedStep == ASSUME OtsInv, Stamped PROVE OtsInv'
  BY FileKinds, EndStep
     DEF OtsInv, Stamped, TypeOK, BackupIsOlder, DiskWhileStamping, Stamping, Words

LEMMA StampFailsStep == ASSUME OtsInv, StampFails PROVE OtsInv'
  BY FileKinds
     DEF OtsInv, StampFails, Goto, TypeOK, BackupIsOlder, AnswerTrue, DiskWhileStamping, DiskWhileUpgrading,
         HashKept, Stamping, Upgrading

LEMMA CleanStep == ASSUME OtsInv, Clean PROVE OtsInv'
<1>1. crashes = 0 => hash' # "made"
  BY DEF OtsInv, Clean, HashKept, Stamping, TypeOK
<1> QED
  BY <1>1, FileKinds, EndStep DEF OtsInv, Clean, TypeOK, Words

-----------------------------------------------------------------------------
(* upgrade *)

LEMMA NothingNewStep == ASSUME OtsInv, NothingNew PROVE OtsInv'
  BY FileKinds
     DEF OtsInv, NothingNew, Exits, TypeOK, BackupIsOlder, AnswerTrue, DiskWhileStamping, DiskWhileUpgrading,
         ExitTrue, HashKept, Stamping, Upgrading

LEMMA RenameStep == ASSUME OtsInv, Rename PROVE OtsInv'
  BY FileKinds
     DEF OtsInv, Rename, Goto, TypeOK, BackupIsOlder, AnswerTrue, DiskWhileStamping, DiskWhileUpgrading,
         HashKept, Stamping, Upgrading

LEMMA CreateStep == ASSUME OtsInv, Create PROVE OtsInv'
  BY FileKinds
     DEF OtsInv, Create, Goto, TypeOK, BackupIsOlder, AnswerTrue, DiskWhileStamping, DiskWhileUpgrading,
         HashKept, Stamping, Upgrading

LEMMA UpgradeStep == ASSUME OtsInv, NEW level \in 0 .. Complete, Upgrade(level) PROVE OtsInv'
<1>1. bak \in Files /\ IsProof(bak) /\ bak = run.before
  BY DEF OtsInv, Upgrade, TypeOK, DiskWhileUpgrading, Upgrading
<1>2. /\ ots' \in Files /\ IsProof(ots') /\ ots' # Torn
      /\ ots'.id = bak.id /\ ots'.level = level /\ level >= bak.level
  <2>1. bak.id \in 0 .. MaxStamps /\ bak.level \in 0 .. Complete
    BY <1>1, ProofFields
  <2> QED BY <2>1, ProofFile DEF Upgrade
<1> QED
  BY <1>1, <1>2, FileKinds
     DEF OtsInv, Upgrade, Exits, TypeOK, BackupIsOlder, AnswerTrue, DiskWhileStamping, DiskWhileUpgrading,
         ExitTrue, HashKept, Stamping, Upgrading

LEMMA UpgradeFailsStep == ASSUME OtsInv, UpgradeFails PROVE OtsInv'
  BY FileKinds
     DEF OtsInv, UpgradeFails, Exits, TypeOK, BackupIsOlder, AnswerTrue, DiskWhileStamping, DiskWhileUpgrading,
         ExitTrue, HashKept, Stamping, Upgrading

(* After ots there is a proof: the upgraded one, or the one it was made from. *)
LEMMA ResettleStep == ASSUME OtsInv, Resettle PROVE OtsInv'
<1>1. Settled
  BY FileKinds DEF OtsInv, Resettle, Blocked, DiskWhileUpgrading, Upgrading
<1>2. ots' \in Files /\ bak' = Absent /\ IsProof(ots') /\ ExitTrue(ots')
  BY <1>1, SettledDisk DEF OtsInv, Resettle, DiskWhileUpgrading, Upgrading, ExitTrue
<1> QED
  BY <1>2, FileKinds
     DEF OtsInv, Resettle, Goto, TypeOK, BackupIsOlder, AnswerTrue, DiskWhileStamping, DiskWhileUpgrading,
         ExitTrue, HashKept, Stamping, Upgrading

LEMMA JudgeStep == ASSUME OtsInv, Judge PROVE OtsInv'
<1>1. IsProof(ots) /\ bak = Absent /\ ExitTrue(ots)
  BY DEF OtsInv, Judge, DiskWhileUpgrading, Upgrading
<1>2. PICK word \in Words :
         /\ Ends(word)
         /\ word \in {"complete", "upgraded, complete"} => run.exit = "ok"
         /\ word \in {"pending", "upgraded, still pending"} => run.exit = "incomplete"
  BY DEF Judge, Words
<1> QED
  BY <1>1, <1>2, FileKinds, EndStep DEF OtsInv, Judge, TypeOK, ExitTrue

-----------------------------------------------------------------------------
LEMMA NextOtsInv == OtsInv /\ [Next]_vars => OtsInv'
<1> SUFFICES ASSUME OtsInv, [Next]_vars PROVE OtsInv'
  OBVIOUS
<1>1. CASE UNCHANGED vars
  <2> USE <1>1 DEF vars, OtsInv
  <2>1. TypeOK'
    BY DEF TypeOK
  <2>5. BackupIsOlder' /\ AnswerTrue'
    BY DEF BackupIsOlder, AnswerTrue, IsProof
  <2>2. DiskWhileStamping'
    BY DEF DiskWhileStamping, IsProof
  <2>3. DiskWhileUpgrading'
    BY DEF DiskWhileUpgrading, ExitTrue, IsProof
  <2>4. HashKept'
    BY DEF HashKept, IsProof
  <2> QED BY <2>1, <2>2, <2>3, <2>4, <2>5
<1>2. CASE Crash
  <2>1. crashes' \in 0 .. MaxCrashes /\ crashes' # 0
    BY <1>2, OtsAssumption DEF Crash, OtsInv, TypeOK
  <2>2. /\ Ends("none") /\ ots' \in Files /\ bak' \in Files
        /\ hash' \in {"absent", "found", "made"}
        /\ IsProof(ots') /\ IsProof(bak') => ots'.id = bak'.id /\ ots'.level >= bak'.level
    BY <1>2 DEF Crash, OtsInv, TypeOK, BackupIsOlder
  <2> QED BY <2>1, <2>2, EndStep DEF Words
<1>3. CASE Step
  BY <1>3, SettleStep, LookStep, InfoFailsStep, DigestStep, OtsCreatesStep, OtsStampsStep, StampedStep,
     StampFailsStep, CleanStep, NothingNewStep, RenameStep, CreateStep, UpgradeStep, UpgradeFailsStep,
     ResettleStep, JudgeStep
     DEF Step
<1> QED BY <1>1, <1>2, <1>3, StartStep DEF Next

-----------------------------------------------------------------------------
(* Kept, by what it is in each of its three cases. *)
LEMMA KeptCases ==
    /\ IsProof(bak) => Kept = bak.level + 1
    /\ ~IsProof(bak) /\ IsProof(ots) /\ run.pc \notin {"stamped", "clean"} => Kept = ots.level + 1
    /\ ~IsProof(bak) /\ (IsProof(ots) => run.pc \in {"stamped", "clean"}) => Kept = 0
  BY DEF Kept

LEMMA KeptCasesAfter ==
    /\ IsProof(bak') => Kept' = bak'.level + 1
    /\ ~IsProof(bak') /\ IsProof(ots') /\ run'.pc \notin {"stamped", "clean"} => Kept' = ots'.level + 1
    /\ ~IsProof(bak') /\ (IsProof(ots') => run'.pc \in {"stamped", "clean"}) => Kept' = 0
  BY DEF Kept, IsProof

LEMMA KeptType == OtsInv => Kept \in Nat
  BY KeptCases, ProofFields, OtsAssumption DEF OtsInv, TypeOK

(* What is enough to keep the proof: the backup stays, or goes over into the .ots *)
(* that counts from then on; or there was none that counted.                     *)
LEMMA KeptStep ==
    ASSUME OtsInv, OtsInv',
           \/ Kept = 0
           \/ bak' = bak /\ IsProof(bak)
           \/ bak' = bak /\ ots' = ots /\ run'.pc \notin {"stamped", "clean"}
           \/ IsProof(bak) /\ IsProof(ots') /\ ots'.level >= bak.level /\ bak' = Absent
                 /\ run'.pc \notin {"stamped", "clean"}
           \/ ~IsProof(bak) /\ IsProof(ots) /\ bak' = Absent /\ ots' = ots
                 /\ run'.pc \notin {"stamped", "clean"}
           \/ ~IsProof(bak) /\ bak' = ots
    PROVE  Kept' >= Kept
<1> USE DEF OtsInv, TypeOK
<1>1. Kept \in Nat /\ Kept' \in Nat
  BY KeptType, KeptCasesAfter, ProofFields, OtsAssumption
<1>2. CASE Kept = 0
  BY <1>1, <1>2
<1>3. CASE bak' = bak /\ IsProof(bak)
  BY <1>1, <1>3, KeptCases, KeptCasesAfter
<1>4. CASE bak' = bak /\ ots' = ots /\ run'.pc \notin {"stamped", "clean"}
  BY <1>1, <1>4, KeptCases, KeptCasesAfter
<1>5. CASE IsProof(bak) /\ IsProof(ots') /\ ots'.level >= bak.level /\ bak' = Absent
           /\ run'.pc \notin {"stamped", "clean"}
  BY <1>1, <1>5, FileKinds, KeptCases, KeptCasesAfter, ProofFields, OtsAssumption
<1>6. CASE ~IsProof(bak) /\ IsProof(ots) /\ bak' = Absent /\ ots' = ots
           /\ run'.pc \notin {"stamped", "clean"}
  BY <1>1, <1>6, FileKinds, KeptCases, KeptCasesAfter
<1>7. CASE ~IsProof(bak) /\ bak' = ots
  BY <1>1, <1>7, KeptCases, KeptCasesAfter
<1> QED BY <1>2, <1>3, <1>4, <1>5, <1>6, <1>7

(* No step of either command, and no kill, takes away a proof or puts an      *)
(* earlier one in its place.                                                 *)
LEMMA NextKeeps == OtsInv /\ OtsInv' /\ [Next]_vars => Kept' >= Kept
<1> SUFFICES ASSUME OtsInv, OtsInv', [Next]_vars PROVE Kept' >= Kept
  OBVIOUS
<1> USE DEF OtsInv
<1>1. CASE UNCHANGED <<ots, bak>> /\ run'.pc \notin {"stamped", "clean"}
  BY <1>1, KeptStep
<1>2. CASE run.pc \in Stamping
  <2>1. run.pc \notin {"digest", "stamp", "stampwrite"} => run.pc \in {"stamped", "clean"}
    BY <1>2 DEF Stamping
  <2>2. Kept = 0
    BY <1>2, <2>1, FileKinds, KeptCases DEF DiskWhileStamping, Stamping
  <2> QED BY <2>2, KeptStep
<1>3. CASE Settle
  <2>1. run'.pc \notin {"stamped", "clean"}
    BY <1>3 DEF Settle, Goto, Ends, Idle, TypeOK
  <2>2. CASE Settled
    <3>1. CASE IsProof(ots) /\ IsProof(bak)
      BY <2>1, <2>2, <3>1, KeptStep, SettledDisk DEF BackupIsOlder
    <3>2. CASE IsProof(ots) /\ ~IsProof(bak)
      BY <2>1, <2>2, <3>2, KeptStep, SettledDisk
    <3>3. CASE ~IsProof(ots) /\ IsProof(bak)
      <4>1. ots' = bak /\ bak' = Absent /\ bak.level \in 0 .. Complete
        BY <2>2, <3>3, SettledDisk, ProofFields DEF TypeOK
      <4>2. ots'.level >= bak.level /\ IsProof(ots')
        BY <3>3, <4>1, OtsAssumption
      <4> QED BY <2>1, <3>3, <4>1, <4>2, KeptStep
    <3>4. CASE ~IsProof(ots) /\ ~IsProof(bak)
      BY <3>4, KeptStep, KeptCases
    <3> QED BY <3>1, <3>2, <3>3, <3>4
  <2>3. CASE UNCHANGED <<ots, bak>>
    BY <2>1, <2>3, <1>1
  <2> QED BY <1>3, <2>2, <2>3 DEF Settle
<1>4. CASE InfoFails \/ Resettle
  <2>1. run'.pc \notin {"stamped", "clean"}
    BY <1>4 DEF InfoFails, Resettle, Goto, Ends, Idle, TypeOK
  <2>2. CASE UNCHANGED <<ots, bak>>
    BY <2>1, <2>2, <1>1
  <2>3. CASE InfoFails /\ run.pc = "resettle"
    <3>1. IsProof(bak) /\ ots' = bak /\ bak' = Absent
      BY <2>3, FileKinds DEF InfoFails, Exists, DiskWhileUpgrading, Upgrading
    <3>2. bak.level \in 0 .. Complete
      BY <3>1, ProofFields DEF TypeOK
    <3>3. ots'.level >= bak.level /\ IsProof(ots')
      BY <3>1, <3>2, OtsAssumption
    <3> QED BY <2>1, <3>1, <3>3, KeptStep
  <2>4. CASE Resettle /\ Settled
    <3>1. CASE IsProof(bak) /\ ~IsProof(ots)
      <4>1. ots' = bak /\ bak' = Absent /\ bak.level \in 0 .. Complete
        BY <2>4, <3>1, SettledDisk, ProofFields DEF TypeOK
      <4>2. ots'.level >= bak.level /\ IsProof(ots')
        BY <3>1, <4>1, OtsAssumption
      <4> QED BY <2>1, <3>1, <4>1, <4>2, KeptStep
    <3>2. CASE IsProof(bak) /\ IsProof(ots)
      BY <2>1, <2>4, <3>2, KeptStep, SettledDisk DEF BackupIsOlder
    <3>3. CASE ~IsProof(bak)
      BY <2>1, <2>4, <3>3, KeptStep, SettledDisk, KeptCases
    <3> QED BY <3>1, <3>2, <3>3
  <2> QED BY <1>4, <2>2, <2>3, <2>4 DEF InfoFails, Resettle
<1>5. CASE Rename
  BY <1>5, FileKinds, KeptStep DEF Rename, DiskWhileUpgrading, Upgrading
<1>6. CASE Create \/ \E l \in 0 .. Complete : Upgrade(l)
  BY <1>6, KeptStep DEF Create, Upgrade, DiskWhileUpgrading, Upgrading
<1>7. CASE Look \/ NothingNew \/ UpgradeFails \/ Judge \/ Crash \/ \E cmd \in {"stamp", "upgrade"} : Start(cmd)
  <2>1. CASE Look \/ Judge \/ Crash
    <3>1. \/ run' = Idle
          \/ run' = [run EXCEPT !.pc = "digest"]
          \/ run' = [run EXCEPT !.pc = "ots", !.before = ots]
      BY <2>1 DEF Look, Judge, Crash, Goto, Ends
    <3>2. UNCHANGED <<ots, bak>>
      BY <2>1 DEF Look, Judge, Crash
    <3>3. CASE run' = Idle
      BY <3>3, <3>2, <1>1 DEF Idle
    <3>4. CASE run' = [run EXCEPT !.pc = "digest"]
      BY <3>4, <3>2, <1>1 DEF TypeOK
    <3>5. CASE run' = [run EXCEPT !.pc = "ots", !.before = ots]
      BY <3>5, <3>2, <1>1 DEF TypeOK
    <3> QED BY <3>1, <3>3, <3>4, <3>5
  <2>2. CASE NothingNew \/ UpgradeFails
    BY <2>2, <1>1 DEF NothingNew, UpgradeFails, Exits, TypeOK
  <2>3. ASSUME NEW cmd \in {"stamp", "upgrade"}, Start(cmd) PROVE Kept' >= Kept
    BY <2>3, <1>1 DEF Start, Idle
  <2> QED BY <1>7, <2>1, <2>2, <2>3
<1>8. CASE UNCHANGED vars
  <2>1. UNCHANGED <<ots, bak, run>>
    BY <1>8 DEF vars
  <2> QED BY <2>1, <1>1, <1>2 DEF Stamping
<1>9. Digest \/ OtsCreates \/ OtsStamps \/ Stamped \/ StampFails \/ Clean => run.pc \in Stamping
  BY DEF Digest, OtsCreates, OtsStamps, Stamped, StampFails, Clean, Stamping
<1> QED BY <1>2, <1>3, <1>4, <1>5, <1>6, <1>7, <1>8, <1>9 DEF Next, Step

-----------------------------------------------------------------------------
(* A night and its request *)

(* What a night that is not killed has made of the proof it checked out. *)
NightKeeps ==
    night.pc \in Working /\ crashes = 0 /\ IsProof(night.base.ots) =>
        /\ run.pc \notin Stamping
        /\ run.pc \notin {"create", "write", "resettle"} => bak = Absent /\ Later(ots, night.base.ots)
        /\ run.pc \in {"create", "write"} => Later(bak, night.base.ots)
        /\ run.pc = "resettle" =>
              \/ bak = Absent /\ Later(ots, night.base.ots)
              \/ Later(bak, night.base.ots) /\ (IsProof(ots) => Later(ots, night.base.ots))

RequestKeeps ==
    crashes = 0 =>
        /\ main.ots # Torn /\ pr.files.ots # Torn
        /\ pr.open /\ IsProof(pr.base.ots) => Later(pr.files.ots, pr.base.ots)

NightInv ==
    /\ NightTypeOK
    /\ OtsInv
    /\ night.pc = "none" => run = Idle /\ said = "none" /\ ots = Absent /\ bak = Absent
    /\ NightKeeps
    /\ RequestKeeps

LEMMA LaterSelf == ASSUME NEW f \in Files, IsProof(f) PROVE Later(f, f)
<1>1. f.level \in Nat
  BY ProofFields, OtsAssumption
<1> QED BY <1>1 DEF Later

LEMMA InitNightInv == NightInit => NightInv
<1> SUFFICES ASSUME NightInit PROVE NightInv
  OBVIOUS
<1>1. 0 \in 0 .. MaxStamps /\ 0 \in 0 .. Complete /\ 0 \in 0 .. MaxCrashes
  BY OtsAssumption
<1>2. Proof(0, 0) \in Files /\ Proof(0, 0) # Torn
  BY <1>1, ProofFile
<1>3. main \in Trees /\ main.ots # Torn /\ pr = NoPR /\ NoPR \in [open : BOOLEAN, base : Trees, files : Trees]
      /\ pr.files.ots # Torn /\ ~pr.open
  <2>1. Bare \in Trees /\ Bare.ots # Torn
    BY FileKinds DEF Trees, Bare
  <2>2. NoPR \in [open : BOOLEAN, base : Trees, files : Trees] /\ NoPR.files = Bare /\ ~NoPR.open
    BY <2>1 DEF NoPR
  <2>3. [ots |-> Proof(0, 0), hash |-> TRUE] \in Trees
    BY <1>2 DEF Trees
  <2>4. main \in {Bare, [ots |-> Proof(0, 0), hash |-> TRUE]}
    BY DEF NightInit
  <2>5. main \in Trees /\ main.ots # Torn
    <3>1. CASE main = Bare
      BY <2>1, <3>1
    <3>2. CASE main = [ots |-> Proof(0, 0), hash |-> TRUE]
      BY <1>2, <2>3, <3>2
    <3> QED BY <2>4, <3>1, <3>2
  <2>6. pr = NoPR
    BY DEF NightInit
  <2> QED BY <2>1, <2>2, <2>5, <2>6
<1>4. CASE night = AtHome /\ Init
  BY <1>3, <1>4, InitOtsInv, FileKinds
     DEF NightInv, NightTypeOK, OtsInv, AtHome, Bare, Trees, Working, NightKeeps, RequestKeeps
<1>5. CASE /\ night = NoNight
           /\ ots = Absent /\ bak = Absent /\ hash = "absent"
           /\ run = Idle /\ said = "none" /\ crashes = 0
  <2>1. Init
    BY <1>5 DEF Init
  <2> QED
    BY <1>3, <1>5, <2>1, InitOtsInv, FileKinds
       DEF NightInv, NightTypeOK, OtsInv, NoNight, Bare, Trees, Working, NightKeeps, RequestKeeps
<1> QED BY <1>4, <1>5 DEF NightInit

(* Every step of a night is a step of its command, but these: the directory is *)
(* made anew, or goes.                                                        *)
LEMMA FreshStep ==
    ASSUME OtsInv, run' = Idle, said' = "none", ots' \in Files, bak' = Absent,
           hash' \in {"absent", "found"}, crashes' = crashes, crashes = 0 => ots' # Torn
    PROVE  OtsInv'
<1>1. Ends("none") /\ ~IsProof(bak')
  BY FileKinds DEF Ends
<1> QED BY <1>1, FileKinds, EndStep DEF OtsInv, TypeOK, Words

(* A killed or failed command, too, leaves crashes as they are or more. *)
LEMMA CrashesGrow == ASSUME OtsInv, [Next]_vars, crashes' = 0 PROVE crashes = 0
<1>1. CASE Crash
  BY <1>1, OtsAssumption DEF Crash, OtsInv, TypeOK
<1>2. CASE Step \/ UNCHANGED vars
  BY <1>2
     DEF Step, vars, Settle, Look, InfoFails, Digest, OtsCreates, OtsStamps, Stamped, StampFails, Clean,
         NothingNew, Rename, Create, Upgrade, UpgradeFails, Resettle, Judge
<1>3. ASSUME NEW cmd \in {"stamp", "upgrade"}, Start(cmd) PROVE crashes = 0
  BY <1>3 DEF Start
<1> QED BY <1>1, <1>2, <1>3 DEF Next

(* No step of a command that is not killed takes the checked-out proof away.  *)
LEMMA StepNightKeeps ==
    ASSUME OtsInv, NightKeeps, night.pc \in Working,
           Step \/ \E cmd \in {"stamp", "upgrade"} : Start(cmd),
           crashes' = 0, IsProof(night.base.ots), night.base.ots \in Files
    PROVE  /\ run'.pc \notin Stamping
           /\ run'.pc \notin {"create", "write", "resettle"} => bak' = Absent /\ Later(ots', night.base.ots)
           /\ run'.pc \in {"create", "write"} => Later(bak', night.base.ots)
           /\ run'.pc = "resettle" =>
                 \/ bak' = Absent /\ Later(ots', night.base.ots)
                 \/ Later(bak', night.base.ots) /\ (IsProof(ots') => Later(ots', night.base.ots))
<1> DEFINE b == night.base.ots
<1>1. crashes = 0
  BY CrashesGrow DEF Next
<1>2. /\ run.pc \notin Stamping
      /\ run.pc \notin {"create", "write", "resettle"} => bak = Absent /\ Later(ots, b)
      /\ run.pc \in {"create", "write"} => Later(bak, b)
      /\ run.pc = "resettle" =>
            \/ bak = Absent /\ Later(ots, b)
            \/ Later(bak, b) /\ (IsProof(ots) => Later(ots, b))
  BY <1>1 DEF NightKeeps
<1>3. b.level \in Nat /\ b.id \in Nat
  BY ProofFields, OtsAssumption
<1> HIDE DEF b
<1>t. TypeOK
  BY DEF OtsInv
<1>4. ASSUME NEW cmd \in {"stamp", "upgrade"}, Start(cmd)
      PROVE  /\ run'.pc \notin Stamping \cup {"create", "write", "resettle"}
             /\ bak' = Absent /\ Later(ots', b)
  BY <1>2, <1>4 DEF Start, Idle, Stamping
<1>5. CASE Settle \/ Look \/ Judge \/ NothingNew
  <2>1. bak = Absent /\ Later(ots, b) /\ run.pc \notin Stamping
    BY <1>2, <1>5 DEF Settle, Look, Judge, NothingNew
  <2>2. ots' = ots /\ bak' = bak
    BY <1>5, <2>1 DEF Settle, Settled, Look, Judge, NothingNew
  <2>3. run'.pc \in {"look", "idle", "ots", "resettle"}
    <3>1. ots # Absent
      BY <2>1, FileKinds DEF Later
    <3>2. \/ run' = Idle
          \/ run' = [run EXCEPT !.pc = "look"]
          \/ run' = [run EXCEPT !.pc = "ots", !.before = ots]
          \/ \E code \in {"ok", "incomplete", "failed"} : run' = [run EXCEPT !.pc = "resettle", !.exit = code]
      BY <1>5, <3>1 DEF Settle, Look, Judge, NothingNew, Goto, Ends, Exits
    <3>3. Idle.pc = "idle"
      BY DEF Idle
    <3>4. CASE run' = [run EXCEPT !.pc = "ots", !.before = ots]
      BY <3>4, <1>t DEF TypeOK
    <3>5. CASE run' = [run EXCEPT !.pc = "look"]
      BY <3>5, <1>t DEF TypeOK
    <3>6. ASSUME NEW code \in {"ok", "incomplete", "failed"}, run' = [run EXCEPT !.pc = "resettle", !.exit = code]
          PROVE  run'.pc = "resettle"
      BY <3>6, <1>t DEF TypeOK
    <3> QED BY <3>2, <3>3, <3>4, <3>5, <3>6
  <2> QED BY <2>1, <2>2, <2>3 DEF b, Stamping
<1>6. CASE InfoFails
  <2>1. run' = Idle
    BY <1>6 DEF InfoFails, Ends
  <2>2. bak' = Absent /\ Later(ots', b)
    BY <1>2, <1>6 DEF InfoFails, Exists
  <2> QED BY <2>1, <2>2 DEF b, Idle, Stamping
<1>7. CASE Rename \/ Create \/ UpgradeFails
  BY <1>2, <1>7, <1>t, FileKinds
     DEF b, Rename, Create, UpgradeFails, Goto, Exits, Stamping, TypeOK, DiskWhileUpgrading, Upgrading, OtsInv
<1>8. ASSUME NEW l \in 0 .. Complete, Upgrade(l)
      PROVE  run'.pc = "resettle" /\ Later(bak', b) /\ Later(ots', b)
  <2>1. run.pc = "write" /\ Later(bak, b) /\ bak' = bak /\ bak \in Files /\ run'.pc = "resettle"
    BY <1>2, <1>8, <1>t DEF Upgrade, Exits, TypeOK
  <2>2. bak.id \in 0 .. MaxStamps /\ bak.level \in Nat /\ l > bak.level
    BY <1>8, <2>1, ProofFields, OtsAssumption DEF Upgrade, Later
  <2>3. IsProof(ots') /\ ots'.id = bak.id /\ ots'.level = l
    BY <1>8, <2>2, ProofFile DEF Upgrade
  <2> QED BY <2>1, <2>2, <2>3, <1>3, OtsAssumption DEF Later
<1>9. CASE Resettle
  <2>1. run'.pc = "judge" /\ run.pc = "resettle"
    BY <1>9, <1>t DEF Resettle, Goto, TypeOK
  <2>2. IsProof(ots) \/ IsProof(bak)
    BY <1>2, <2>1 DEF Later
  <2>3. Settled
    BY <1>9, <2>2 DEF Resettle, Blocked
  <2>4. ots' = ots \/ (ots' = bak /\ IsProof(bak) /\ ~IsProof(ots))
    BY <2>3 DEF Settled
  <2>5. bak' = Absent /\ Later(ots', b)
    <3>1. bak' = Absent
      BY <2>3, SettledDisk
    <3>2. Later(ots, b) \/ (Later(bak, b) /\ ~IsProof(ots))
      BY <1>2, <2>1
    <3>3. IsProof(bak) /\ ~IsProof(ots) => ots' = bak
      BY <2>3, SettledDisk
    <3> QED BY <3>1, <3>2, <3>3, <2>4 DEF Later
  <2> QED BY <2>1, <2>5 DEF b, Stamping
<1>10. Digest \/ OtsCreates \/ OtsStamps \/ Stamped \/ StampFails \/ Clean => run.pc \in Stamping
  BY DEF Digest, OtsCreates, OtsStamps, Stamped, StampFails, Clean, Stamping
<1> QED
  BY <1>2, <1>4, <1>5, <1>6, <1>7, <1>8, <1>9, <1>10 DEF b, Step, Stamping

LEMMA SmoothIsStep == Smooth => Step
<1>1. Complete \in 0 .. Complete
  BY OtsAssumption
<1> QED BY <1>1 DEF Smooth, Step

LEMMA NextNightInv == NightInv /\ [NightNext]_nightVars => NightInv'
<1> SUFFICES ASSUME NightInv, [NightNext]_nightVars PROVE NightInv'
  OBVIOUS
<1>t. /\ NightTypeOK /\ TypeOK /\ OtsInv /\ NightKeeps /\ RequestKeeps
      /\ main \in Trees /\ main.ots \in Files /\ main.hash \in BOOLEAN
      /\ pr \in [open : BOOLEAN, base : Trees, files : Trees]
      /\ night.base \in Trees /\ night.base.ots \in Files
  BY DEF NightInv, NightTypeOK, Trees
<1>0. Bare \in Trees
  BY FileKinds DEF Trees, Bare
<1>1. CASE UNCHANGED nightVars
  <2>1. OtsInv'
    BY <1>1, <1>t, NextOtsInv DEF nightVars
  <2>2. UNCHANGED <<ots, bak, run, said, hash, crashes, main, pr, night>>
    BY <1>1 DEF nightVars, vars
  <2>3. NightTypeOK' /\ RequestKeeps'
    BY <2>1, <2>2, <1>t DEF NightTypeOK, RequestKeeps, OtsInv, IsProof, Later
  <2>4. NightKeeps'
    BY <2>2, <1>t DEF NightKeeps, IsProof, Later
  <2> QED BY <2>1, <2>2, <2>3, <2>4 DEF NightInv
<1>2. CASE Home
  <2>1. OtsInv' /\ (crashes' = 0 => crashes = 0)
    BY <1>2, <1>t, NextOtsInv, CrashesGrow DEF Home
  <2>2. UNCHANGED <<main, pr, night>> /\ night.pc = "home"
    BY <1>2 DEF Home, AtHome
  <2>3. NightTypeOK' /\ NightKeeps' /\ RequestKeeps'
    BY <2>1, <2>2, <1>t DEF NightTypeOK, NightKeeps, RequestKeeps, OtsInv, Working
  <2> QED BY <2>1, <2>2, <2>3 DEF NightInv
<1>3. ASSUME NEW calm \in BOOLEAN, Checkout(calm) PROVE NightInv'
  <2>1. /\ run = Idle /\ said = "none" /\ UNCHANGED <<run, said, crashes, main, pr>>
        /\ night' = [pc |-> "upgrade", base |-> main, calm |-> calm]
        /\ ots' = main.ots /\ bak' = Absent /\ hash' \in {"absent", "found"}
    BY <1>3 DEF Checkout, NightInv
  <2>2. OtsInv'
    BY <2>1, <1>t, FreshStep DEF RequestKeeps
  <2>3. NightTypeOK' /\ RequestKeeps'
    BY <2>1, <2>2, <1>t DEF NightTypeOK, RequestKeeps, OtsInv, Working
  <2>4. NightKeeps'
    BY <2>1, <1>t, LaterSelf DEF NightKeeps, Idle, Stamping
  <2> QED BY <2>1, <2>2, <2>3, <2>4 DEF NightInv
<1>4. CASE StartUpgrade \/ StartStamp \/ CommandStep
  <2>1. /\ Step \/ \E cmd \in {"stamp", "upgrade"} : Start(cmd)
        /\ night.pc \in Working /\ night' = [night EXCEPT !.pc = night'.pc] /\ night'.pc \in Working
        /\ UNCHANGED <<main, pr>>
    <3>1. CASE StartUpgrade \/ StartStamp
      BY <1>t, <3>1 DEF StartUpgrade, StartStamp, Working, NightTypeOK
    <3>2. CASE CommandStep
      <4>1. Step /\ night' = night /\ night.pc \in Working /\ UNCHANGED <<main, pr>>
        BY <3>2, SmoothIsStep DEF CommandStep
      <4> QED BY <4>1, <1>t DEF NightTypeOK
    <3> QED BY <1>4, <3>1, <3>2
  <2>2. OtsInv' /\ (crashes' = 0 => crashes = 0)
    BY <2>1, <1>t, NextOtsInv, CrashesGrow DEF Next
  <2>3. night'.base = night.base /\ NightTypeOK' /\ RequestKeeps'
    BY <2>1, <2>2, <1>t DEF NightTypeOK, RequestKeeps, OtsInv
  <2>4. NightKeeps'
    BY <2>1, <2>3, <1>t, StepNightKeeps DEF NightKeeps, IsProof
  <2>5. night'.pc # "none"
    BY <2>1 DEF Working
  <2> QED BY <2>2, <2>3, <2>4, <2>5 DEF NightInv
<1>5. CASE CommandKilled
  <2>1. /\ UNCHANGED <<main, pr, night>> /\ night.pc \in Working /\ Crash
    BY <1>5 DEF CommandKilled
  <2>2. OtsInv' /\ crashes' # 0
    BY <2>1, <1>t, NextOtsInv, OtsAssumption DEF Next, Crash, TypeOK
  <2>3. NightTypeOK' /\ NightKeeps' /\ RequestKeeps' /\ night'.pc # "none"
    BY <2>1, <2>2, <1>t DEF NightTypeOK, NightKeeps, RequestKeeps, OtsInv, Working
  <2> QED BY <2>2, <2>3 DEF NightInv
<1>6. ASSUME RunnerGone, main' = main,
             /\ pr' \in [open : BOOLEAN, base : Trees, files : Trees]
             /\ crashes = 0 =>
                   /\ pr'.files.ots # Torn
                   /\ pr'.open /\ IsProof(pr'.base.ots) => Later(pr'.files.ots, pr'.base.ots)
      PROVE  NightInv'
  <2>1. /\ night' = NoNight /\ ots' = Absent /\ bak' = Absent /\ hash' = "absent"
        /\ run' = Idle /\ said' = "none" /\ crashes' = crashes
    BY <1>6 DEF RunnerGone
  <2>2. OtsInv'
    BY <2>1, <1>t, FreshStep, FileKinds
  <2>3. NightTypeOK'
    BY <1>6, <2>1, <2>2, <1>t, <1>0 DEF NightTypeOK, OtsInv, NoNight
  <2>4. NightKeeps' /\ RequestKeeps'
    BY <1>6, <2>1, <1>t DEF NightKeeps, RequestKeeps, NoNight, Working, IsProof, Later
  <2> QED BY <2>1, <2>2, <2>3, <2>4 DEF NightInv
<1>7. CASE JobLost
  BY <1>6, <1>7, <1>t DEF JobLost, RequestKeeps
<1>8. CASE Propose
  <2>1. RunnerGone /\ main' = main /\ night.pc = "propose" /\ run.pc = "idle"
    BY <1>8 DEF Propose
  <2>2. NoPR.files.ots # Torn /\ ~NoPR.open /\ NoPR \in [open : BOOLEAN, base : Trees, files : Trees]
    BY <1>0, FileKinds DEF NoPR, Bare
  <2>3. Here \in Trees /\ Here.ots = ots
    BY <1>t DEF Here, Trees, TypeOK
  <2>4. Proposal \in [open : BOOLEAN, base : Trees, files : Trees]
        /\ Proposal.files.ots = ots /\ Proposal.base.ots = night.base.ots
    BY <2>3, <1>t DEF Proposal
  <2>5. crashes = 0 => ots # Torn
    BY <2>1, <1>t DEF OtsInv, HashKept
  <2>6. crashes = 0 /\ IsProof(night.base.ots) => Later(ots, night.base.ots)
    BY <2>1, <1>t DEF NightKeeps, Working
  <2>7. pr' = NoPR \/ pr' = Proposal
    BY <1>8 DEF Propose
  <2>8. CASE pr' = NoPR
    BY <1>6, <2>1, <2>2, <2>8
  <2>9. CASE pr' = Proposal
    BY <1>6, <2>1, <2>4, <2>5, <2>6, <2>9
  <2> QED BY <2>7, <2>8, <2>9
<1>9. CASE Merge
  <2>1. pr.open /\ main = pr.base /\ main' = pr.files /\ pr' = NoPR /\ UNCHANGED <<vars, night>>
    BY <1>9 DEF Merge
  <2>2. NoPR.files.ots # Torn /\ ~NoPR.open /\ NoPR \in [open : BOOLEAN, base : Trees, files : Trees]
    BY <1>0, FileKinds DEF NoPR, Bare
  <2>3. OtsInv' /\ UNCHANGED <<ots, bak, hash, run, said, crashes, night>>
    BY <2>1, <1>t, NextOtsInv DEF vars
  <2>4. NightTypeOK' /\ RequestKeeps'
    BY <2>1, <2>2, <2>3, <1>t DEF NightTypeOK, RequestKeeps, OtsInv
  <2>5. NightKeeps'
    BY <2>3, <1>t DEF NightKeeps, IsProof, Later
  <2> QED BY <2>3, <2>4, <2>5 DEF NightInv
<1> QED BY <1>1, <1>2, <1>3, <1>4, <1>5, <1>7, <1>8, <1>9 DEF NightNext

(* Wherever the commands run, at every step of them and after a kill at any   *)
(* of them: what the invariant says lies on the disk, and what the night has  *)
(* made of the proof that main holds.                                        *)
THEOREM OtsInvariant == NightSpec => [](NightTypeOK /\ NightInv)
<1>1. NightInv => NightTypeOK
  BY DEF NightInv
<1> QED BY <1>1, InitNightInv, NextNightInv, PTL DEF NightSpec

(* settle_backup may delete the backup unread.                               *)
THEOREM OtsBackupIsOlder == NightSpec => []BackupIsOlder
  BY OtsInvariant, PTL DEF NightInv, OtsInv

(* stamp leaves no cut-short .ots and no lone .hash behind, unless killed.    *)
THEOREM OtsFailureLeavesNothing == NightSpec => []FailureLeavesNothing
<1>1. NightInv => FailureLeavesNothing
  BY DEF NightInv, OtsInv, HashKept, FailureLeavesNothing
<1> QED BY <1>1, OtsInvariant, PTL

(* `upgrade` calls a proof complete, or pending, only if it is.              *)
THEOREM OtsAnswerTrue == NightSpec => []AnswerTrue
  BY OtsInvariant, PTL DEF NightInv, OtsInv

(* A proof is never lost and never replaced by an earlier one, but with the   *)
(* whole directory of a runner that is gone.                                 *)
THEOREM OtsNoProofLost == NightSpec => NoProofLost
<1>1. ASSUME NightInv, NightInv', [NightNext]_nightVars
      PROVE  [Kept' >= Kept \/ night'.pc = "none"]_nightVars
  <2>1. Kept \in Nat /\ OtsInv /\ OtsInv'
    BY <1>1, KeptType DEF NightInv
  <2>2. Kept' \in Nat
    BY <2>1, KeptCasesAfter, ProofFields, OtsAssumption DEF OtsInv, TypeOK
  <2>3. CASE Home \/ StartUpgrade \/ StartStamp \/ CommandStep \/ CommandKilled \/ Merge
    <3>1. [Next]_vars
      BY <2>3, SmoothIsStep DEF Home, StartUpgrade, StartStamp, CommandStep, CommandKilled, Merge, Next
    <3> QED BY <2>1, <3>1, NextKeeps
  <2>4. ASSUME NEW calm \in BOOLEAN, Checkout(calm) PROVE Kept' >= Kept
    <3>1. Kept = 0
      BY <1>1, <2>4, KeptCases, FileKinds DEF NightInv, Checkout
    <3> QED BY <2>2, <3>1
  <2>5. CASE Propose \/ JobLost
    BY <2>5 DEF Propose, JobLost, RunnerGone, NoNight
  <2> QED BY <1>1, <2>3, <2>4, <2>5 DEF NightNext
<1> QED BY <1>1, OtsInvariant, PTL DEF NightSpec, NoProofLost

(* No merge takes a proof from main, or puts an earlier or another one there, *)
(* while no command was killed.                                              *)
THEOREM NightMainProofKept == NightSpec => MainProofKept
<1>1. ASSUME NightInv, [NightNext]_nightVars
      PROVE  [crashes = 0 /\ IsProof(main.ots) => Later(main'.ots, main.ots)]_nightVars
  <2>1. main.ots \in Files /\ RequestKeeps
    BY <1>1 DEF NightInv, NightTypeOK, Trees
  <2>2. CASE main' = main
    BY <2>1, <2>2, LaterSelf
  <2>3. CASE Merge
    BY <2>1, <2>3 DEF Merge, RequestKeeps
  <2>4. UNCHANGED nightVars => main' = main
    BY DEF nightVars
  <2>5. NightNext => main' = main \/ Merge
    BY DEF NightNext, Home, Checkout, StartUpgrade, StartStamp, CommandStep, CommandKilled, Propose, JobLost
  <2> QED BY <1>1, <2>2, <2>3, <2>4, <2>5
<1> QED BY <1>1, OtsInvariant, PTL DEF NightSpec, MainProofKept
=============================================================================
