------------------------------ MODULE OtsProof ------------------------------
(***************************************************************************)
(* The Bitcoin proof of one block: the files NNNNNN.hash, NNNNNN.hash.ots  *)
(* and NNNNNN.hash.ots.bak, under the commands `stamp` and `upgrade`       *)
(* (cli.py; `witness` stamps in the same way) and the methods of           *)
(* BitcoinWitness they call (witness.py).  A command runs the `ots` tool,  *)
(* which is external: its steps are those the comments of witness.py name. *)
(* Either may fail at any step, and both may be killed between two.        *)
(* Nightly says whose directory it is, and what becomes of its files.      *)
(*                                                                         *)
(* A proof is known by the stamp it came from and by how far its upgrades  *)
(* have got; Complete is a Bitcoin attestation.  Abstracted: the bytes, a  *)
(* proof of another block (it is junk), and the temporary file of .hash.   *)
(***************************************************************************)
EXTENDS Naturals

CONSTANTS
    MaxStamps,    \* bound on the stamps told apart
    Complete,     \* the last level of a proof; the first is 0
    MaxCrashes

ASSUME OtsAssumption ==
    /\ MaxStamps \in Nat \ {0, 1}
    /\ Complete \in Nat \ {0}
    /\ MaxCrashes \in Nat

VARIABLES
    ots, bak,     \* the two proof files
    hash,         \* .hash: absent, found before the first command, or made by one
    run,          \* the command, how far it is, and what it remembers
    said,         \* what the last command that ended reported
    crashes

vars == <<ots, bak, hash, run, said, crashes>>

File(kind) == [st |-> kind, id |-> 0, level |-> 0]
Absent == File("absent")
Link == File("link")       \* a symbolic link, dangling or not
Junk == File("junk")       \* found there, and not a proof of this block
Torn == File("torn")       \* created by ots and not, or not wholly, written
Proof(id, level) == [st |-> "proof", id |-> id, level |-> level]

Files == {Absent, Link, Junk, Torn} \cup {Proof(id, l) : id \in 0 .. MaxStamps, l \in 0 .. Complete}

IsProof(f) == f.st = "proof"
Exists(f) == f # Absent                       \* os.path.lexists
OtsAnswers(f) == f \notin {Absent, Link}      \* proof_of asks `ots info` about it

Idle == [pc |-> "idle", cmd |-> "none", before |-> Absent, exit |-> "none", hadHash |-> FALSE]

Words == {"none", "blocked", "refused", "error", "stamped", "failed", "skipped", "complete", "pending",
          "upgraded, complete", "upgraded, still pending", "upgraded, not called complete"}

TypeOK ==
    /\ ots \in Files /\ bak \in Files
    /\ hash \in {"absent", "found", "made"}
    /\ run \in [pc : {"idle", "settle", "look", "digest", "stamp", "stampwrite", "stamped", "clean",
                      "ots", "create", "write", "resettle", "judge"},
                cmd : {"none", "stamp", "upgrade"}, before : Files,
                exit : {"none", "ok", "incomplete", "failed"}, hadHash : BOOLEAN]
    /\ said \in Words
    /\ crashes \in 0 .. MaxCrashes

(* Anything may lie there, but a backup beside a proof is one it came from. *)
Init ==
    /\ ots \in {Absent, Link, Junk, Proof(0, 0)}
    /\ bak \in {Absent, Link, Junk, Proof(0, 0)}
    /\ hash \in {"absent", "found"}
    /\ run = Idle
    /\ said = "none"
    /\ crashes = 0

-----------------------------------------------------------------------------
Goto(pc) == run' = [run EXCEPT !.pc = pc]
Ends(word) == run' = Idle /\ said' = word
Exits(code) == run' = [run EXCEPT !.pc = "resettle", !.exit = code]

Start(cmd) ==
    /\ run.pc = "idle"
    /\ run' = [Idle EXCEPT !.pc = "settle", !.cmd = cmd, !.hadHash = (hash # "absent")]
    /\ said' = "none"
    /\ UNCHANGED <<ots, bak, hash, crashes>>

(* settle_backup: the backup goes, is put back, or is left and blocks.  It is  *)
(* the first thing either command does, and upgrade does it again after ots.   *)
Settled ==
    \/ bak = Absent /\ UNCHANGED <<ots, bak>>
    \/ bak # Absent /\ IsProof(ots) /\ bak' = Absent /\ UNCHANGED ots
    \/ bak # Absent /\ ~IsProof(ots) /\ IsProof(bak) /\ ots' = bak /\ bak' = Absent

Blocked == Exists(bak) /\ ~IsProof(ots) /\ ~IsProof(bak)

(* Bugs: the backup is taken for the older copy whatever is beside it, or is not *)
(* settled at all.                                                               *)
SettleSkipped ==
    /\ run.pc = "settle"
    /\ Goto("look")
    /\ UNCHANGED <<ots, bak, hash, said, crashes>>
SettleDrops ==
    /\ run.pc = "settle"
    /\ bak' = Absent
    /\ Goto("look")
    /\ UNCHANGED <<ots, hash, said, crashes>>

Settle ==
    /\ run.pc = "settle"
    /\ \/ Settled /\ Goto("look") /\ UNCHANGED said
       \/ Blocked /\ Ends("blocked") /\ UNCHANGED <<ots, bak>>
    /\ UNCHANGED <<hash, crashes>>

(* Then the .ots itself: stamp wants none there, upgrade a proof of this block. *)
Look ==
    /\ run.pc = "look"
    /\ \/ run.cmd = "stamp" /\ ots = Absent /\ Goto("digest") /\ UNCHANGED said
       \/ run.cmd = "stamp" /\ IsProof(ots) /\ Ends("skipped")
       \/ run.cmd = "upgrade" /\ ots = Absent /\ Ends("skipped")
       \/ run.cmd = "upgrade" /\ IsProof(ots) /\ UNCHANGED said
          /\ run' = [run EXCEPT !.pc = "ots", !.before = ots]
       \/ Exists(ots) /\ ~IsProof(ots) /\ Ends("refused")
    /\ UNCHANGED <<ots, bak, hash, crashes>>

(* `ots info` does not run: OtsError.  In upgrade, after ots, the proof that ots *)
(* renamed goes back over what cannot be checked.                               *)
InfoFails ==
    /\ \/ /\ run.pc = "settle"
          /\ Exists(bak) /\ (OtsAnswers(ots) \/ OtsAnswers(bak))
          /\ UNCHANGED <<ots, bak>>
       \/ /\ run.pc = "look" /\ OtsAnswers(ots)
          /\ UNCHANGED <<ots, bak>>
       \/ /\ run.pc = "resettle" /\ Exists(bak)
          /\ ots' = bak /\ bak' = Absent
       \/ /\ run.pc = "judge" /\ OtsAnswers(ots) /\ ots # run.before
          /\ UNCHANGED <<ots, bak>>
    /\ Ends("error")
    /\ UNCHANGED <<hash, crashes>>

-----------------------------------------------------------------------------
(* stamp *)

(* _digest_file: written beside and moved over, or it raises. *)
Digest ==
    /\ run.pc = "digest"
    /\ \/ /\ hash' = (IF hash = "absent" THEN "made" ELSE hash)
          /\ Goto("stamp")
       \/ /\ UNCHANGED hash
          /\ Goto("clean")
    /\ UNCHANGED <<ots, bak, said, crashes>>

(* `ots stamp` creates the .ots, unless it fails first ... *)
OtsCreates ==
    /\ run.pc = "stamp"
    /\ ots' = Torn
    /\ Goto("stampwrite")
    /\ UNCHANGED <<bak, hash, said, crashes>>

(* ... and writes the proof into it. *)
OtsStamps ==
    /\ run.pc = "stampwrite"
    /\ \E id \in 1 .. MaxStamps : id # bak.id /\ ots' = Proof(id, 0)
    /\ Goto("stamped")
    /\ UNCHANGED <<bak, hash, said, crashes>>

Stamped ==
    /\ run.pc = "stamped"
    /\ Ends("stamped")
    /\ UNCHANGED <<ots, bak, hash, crashes>>

(* ots exits non-zero, at whatever step. *)
StampFails ==
    /\ run.pc \in {"stamp", "stampwrite", "stamped"}
    /\ Goto("clean")
    /\ UNCHANGED <<ots, bak, hash, said, crashes>>

(* A bug: what ots left is not removed. *)
CleanHashOnly ==
    /\ run.pc = "clean"
    /\ hash' = (IF run.hadHash THEN hash ELSE "absent")
    /\ Ends("failed")
    /\ UNCHANGED <<ots, bak, crashes>>

(* What this run made goes; the .ots was not there when it started. *)
Clean ==
    /\ run.pc = "clean"
    /\ ots' = Absent
    /\ hash' = (IF run.hadHash THEN hash ELSE "absent")
    /\ Ends("failed")
    /\ UNCHANGED <<bak, crashes>>

-----------------------------------------------------------------------------
(* upgrade *)

(* ots has nothing new, or fails before it renames anything. *)
NothingNew ==
    /\ run.pc = "ots"
    /\ \/ ots.level = Complete /\ Exits("ok")
       \/ ots.level < Complete /\ Exits("incomplete")
       \/ Exits("failed")
    /\ UNCHANGED <<ots, bak, hash, said, crashes>>

Rename ==
    /\ run.pc = "ots"
    /\ ots.level < Complete
    /\ bak' = ots
    /\ ots' = Absent
    /\ Goto("create")
    /\ UNCHANGED <<hash, said, crashes>>

Create ==
    /\ run.pc = "create"
    /\ ots' = Torn
    /\ Goto("write")
    /\ UNCHANGED <<bak, hash, said, crashes>>

(* The upgraded proof holds every attestation the renamed one had, and more. *)
Upgrade(level) ==
    /\ run.pc = "write"
    /\ level > bak.level
    /\ ots' = Proof(bak.id, level)
    /\ \/ level = Complete /\ Exits("ok")
       \/ level < Complete /\ Exits("incomplete")
       \/ Exits("failed")
    /\ UNCHANGED <<bak, hash, said, crashes>>

UpgradeFails ==
    /\ run.pc \in {"create", "write"}
    /\ Exits("failed")
    /\ UNCHANGED <<ots, bak, hash, said, crashes>>

(* settle_backup again; what it answers is not looked at. *)
Resettle ==
    /\ run.pc = "resettle"
    /\ \/ Settled
       \/ Blocked /\ UNCHANGED <<ots, bak>>
    /\ Goto("judge")
    /\ UNCHANGED <<hash, said, crashes>>

(* Bugs: the exit status is handed on as the answer, or the answer goes by whether *)
(* the file changed alone.                                                         *)
JudgeExit ==
    /\ run.pc = "judge"
    /\ Ends(run.exit)
    /\ UNCHANGED <<ots, bak, hash, crashes>>
JudgeByChange ==
    /\ run.pc = "judge"
    /\ Ends(IF ots # run.before THEN "upgraded, complete" ELSE "pending")
    /\ UNCHANGED <<ots, bak, hash, crashes>>

(* What is on disk decides first, then how ots exited. *)
Judge ==
    /\ run.pc = "judge"
    /\ LET changed == ots # run.before /\ IsProof(ots)
       IN  \/ changed /\ run.exit = "ok" /\ Ends("upgraded, complete")
           \/ changed /\ run.exit = "incomplete" /\ Ends("upgraded, still pending")
           \/ changed /\ run.exit = "failed" /\ Ends("upgraded, not called complete")
           \/ ~changed /\ run.exit = "ok" /\ Ends("complete")
           \/ ~changed /\ run.exit = "incomplete" /\ Ends("pending")
           \/ ~changed /\ run.exit = "failed" /\ Ends("error")
    /\ UNCHANGED <<ots, bak, hash, crashes>>

-----------------------------------------------------------------------------
(* The command is killed, and ots with it. *)
Crash ==
    /\ run.pc # "idle"
    /\ crashes < MaxCrashes
    /\ crashes' = crashes + 1
    /\ Ends("none")
    /\ UNCHANGED <<ots, bak, hash>>

Step ==
    \/ Settle \/ Look \/ InfoFails
    \/ Digest \/ OtsCreates \/ OtsStamps \/ Stamped \/ StampFails \/ Clean
    \/ NothingNew \/ Rename \/ Create \/ UpgradeFails
    \/ \E l \in 0 .. Complete : Upgrade(l)
    \/ Resettle \/ Judge

Next ==
    \/ \E cmd \in {"stamp", "upgrade"} : Start(cmd)
    \/ Step
    \/ Crash

-----------------------------------------------------------------------------
(* The proof that would be left if what ots is writing came to nothing: the   *)
(* backup, or the .ots once no stamp can still take it away.  0 for none.     *)
Kept ==
    CASE IsProof(bak) -> bak.level + 1
      [] ~IsProof(bak) /\ IsProof(ots) /\ run.pc \notin {"stamped", "clean"} -> ots.level + 1
      [] OTHER -> 0

(* "a .bak is never left beside a proof it did not come from"                *)
(* (witness.py:374): settle_backup deletes the backup unread on the strength  *)
(* of it.  And as nobody reads it, nor can say where a backup that cannot be  *)
(* read came from, no new proof is made beside any backup at all.             *)
BackupIsOlder ==
    /\ IsProof(ots) /\ IsProof(bak) => ots.id = bak.id /\ ots.level >= bak.level
    /\ run.cmd = "stamp" /\ run.pc \notin {"idle", "settle"} => bak = Absent

(* "a cut-short .ots is not a proof ... and the block would never be stamped   *)
(* again; a lone .hash would ride into a commit on its own" (stamp's           *)
(* docstring): unless it is killed, no command leaves either.                 *)
FailureLeavesNothing ==
    run.pc = "idle" /\ crashes = 0 => ots # Torn /\ (hash = "made" => IsProof(ots))

(* What `upgrade` says of the proof is so: complete only if it names a Bitcoin *)
(* block, and pending only while it does not.                                 *)
AnswerTrue ==
    /\ said \in {"complete", "upgraded, complete"} => IsProof(ots) /\ ots.level = Complete
    /\ said \in {"pending", "upgraded, still pending"} => IsProof(ots) /\ ots.level < Complete
=============================================================================
