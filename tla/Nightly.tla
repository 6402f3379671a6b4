------------------------------ MODULE Nightly -------------------------------
(***************************************************************************)
(* Where the proof files of one block lie, and how a proof comes to main:   *)
(* .github/workflows/nightly.yml.  A night works in a fresh checkout of     *)
(* main, runs `upgrade` and then `stamp`, and proposes what changed under   *)
(* ledger/proofs as a pull request.  The request's branch is made anew each *)
(* night, and a night with nothing to propose deletes it.  Only a person's  *)
(* merge changes main; the checkout, any backup in it included              *)
(* (.gitignore), goes with the runner.                                      *)
(*                                                                          *)
(* The same commands run in a person's own directory, which stays from one  *)
(* command to the next.  Which of the two places it is, is chosen at the    *)
(* start.                                                                  *)
(***************************************************************************)
EXTENDS OtsProof

VARIABLES
    main,      \* the block's files on main
    pr,        \* the open pull request: what it was made from, and what it proposes
    night      \* how far the nightly run is, the commit it checked out, and whether
               \* this is a night on which everything works

nightVars == <<vars, main, pr, night>>

Trees == [ots : Files, hash : BOOLEAN]
Bare == [ots |-> Absent, hash |-> FALSE]     \* the block was committed, its stamp had failed

NoPR == [open |-> FALSE, base |-> Bare, files |-> Bare]
NoNight == [pc |-> "none", base |-> Bare, calm |-> FALSE]
AtHome == [pc |-> "home", base |-> Bare, calm |-> FALSE]

Working == {"upgrade", "stamp", "propose"}   \* each names what the run does next

NightTypeOK ==
    /\ TypeOK
    /\ main \in Trees
    /\ pr \in [open : BOOLEAN, base : Trees, files : Trees]
    /\ night \in [pc : {"home", "none"} \cup Working, base : Trees, calm : BOOLEAN]

(* block.yml commits a block with a pending proof or, if the stamp failed, with none. *)
NightInit ==
    /\ \/ night = AtHome /\ main = Bare /\ Init
       \/ /\ night = NoNight
          /\ main \in {Bare, [ots |-> Proof(0, 0), hash |-> TRUE]}
          /\ ots = Absent /\ bak = Absent /\ hash = "absent"
          /\ run = Idle /\ said = "none" /\ crashes = 0
    /\ pr = NoPR

-----------------------------------------------------------------------------
Home ==
    /\ night = AtHome
    /\ Next
    /\ UNCHANGED <<main, pr, night>>

Checkout(calm) ==
    /\ night.pc = "none"
    /\ night' = [pc |-> "upgrade", base |-> main, calm |-> calm]
    /\ ots' = main.ots /\ bak' = Absent
    /\ hash' = (IF main.hash THEN "found" ELSE "absent")
    /\ UNCHANGED <<run, said, crashes, main, pr>>

(* `upgrade || true`, then `stamp || true`: how the first ended does not matter. *)
StartUpgrade ==
    /\ night.pc = "upgrade" /\ Start("upgrade")
    /\ night' = [night EXCEPT !.pc = "stamp"]
    /\ UNCHANGED <<main, pr>>
StartStamp ==
    /\ night.pc = "stamp" /\ Start("stamp")
    /\ night' = [night EXCEPT !.pc = "propose"]
    /\ UNCHANGED <<main, pr>>

(* What a command does when nothing fails and the calendars know of a Bitcoin block. *)
Smooth ==
    \/ Settle \/ Look \/ Resettle \/ Judge
    \/ Digest /\ run'.pc = "stamp"
    \/ OtsCreates \/ OtsStamps \/ Stamped
    \/ NothingNew /\ ots.level = Complete /\ run'.exit = "ok"
    \/ Rename \/ Create
    \/ Upgrade(Complete) /\ run'.exit = "ok"

CommandStep ==
    /\ night.pc \in Working
    /\ IF night.calm THEN Smooth ELSE Step
    /\ UNCHANGED <<main, pr, night>>

(* The command is killed, and the run goes on with the next. *)
CommandKilled ==
    /\ night.pc \in Working /\ ~night.calm
    /\ Crash
    /\ UNCHANGED <<main, pr, night>>

RunnerGone ==
    /\ night' = NoNight
    /\ ots' = Absent /\ bak' = Absent /\ hash' = "absent"
    /\ run' = Idle /\ said' = "none"
    /\ UNCHANGED crashes

(* Of the files of this block, git takes those that are not ignored. *)
Here == [ots |-> ots, hash |-> hash # "absent"]
Proposal == [open |-> TRUE, base |-> night.base, files |-> Here]

(* A bug: a request that is open already is left as it is. *)
ProposeOnce ==
    /\ night.pc = "propose" /\ run.pc = "idle"
    /\ pr' = IF Here = night.base \/ pr.open THEN pr ELSE Proposal
    /\ RunnerGone
    /\ UNCHANGED main

Propose ==
    /\ night.pc = "propose" /\ run.pc = "idle"
    /\ pr' = IF Here = night.base THEN NoPR ELSE Proposal
    /\ RunnerGone
    /\ UNCHANGED main

(* The run is cancelled, or its runner is lost. *)
JobLost ==
    /\ night.pc \in Working /\ ~night.calm
    /\ RunnerGone
    /\ UNCHANGED <<main, pr>>

(* A bug: the branch wins over main. *)
MergeOver ==
    /\ pr.open
    /\ main' = pr.files
    /\ pr' = NoPR
    /\ UNCHANGED <<vars, night>>

(* A person merges.  If the files have changed on main since the run checked   *)
(* them out, both sides have changed them, and git merges nothing.             *)
Merge ==
    /\ pr.open
    /\ main = pr.base
    /\ main' = pr.files
    /\ pr' = NoPR
    /\ UNCHANGED <<vars, night>>

NightNext ==
    \/ Home
    \/ \E calm \in BOOLEAN : Checkout(calm)
    \/ StartUpgrade
    \/ StartStamp
    \/ CommandStep
    \/ CommandKilled
    \/ Propose
    \/ JobLost
    \/ Merge

NightSpec == NightInit /\ [][NightNext]_nightVars

(* A run goes on until it ends.  Again and again there is a night on which ots  *)
(* and the calendars work and Bitcoin has gone on; and a request that can be    *)
(* merged again and again is merged: "Merging is the only step left ~ nothing   *)
(* in this workflow does it for you" (nightly.yml:58).                         *)
NightFairness ==
    /\ WF_nightVars(StartUpgrade \/ StartStamp \/ CommandStep \/ Propose)
    /\ SF_nightVars(Checkout(TRUE))
    /\ SF_nightVars(Merge)

FairNightSpec == NightSpec /\ NightFairness

-----------------------------------------------------------------------------
(* No step of stamp, upgrade or ots, failing or cut short, loses a proof or     *)
(* puts an earlier one in its place: what only a calendar remembers may be gone *)
(* by the time anyone would stamp again (settle_backup's docstring).  Only the  *)
(* runner's end takes its files away, which is why Propose comes first.         *)
NoProofLost == [][Kept' >= Kept \/ night'.pc = "none"]_nightVars

(* f is the proof b, or made from it by upgrades. *)
Later(f, b) == IsProof(f) /\ f.id = b.id /\ f.level >= b.level

(* A proof that is on main stays there, and only grows, however the request was *)
(* made that a person merges: on an old night, from a main that has moved since, *)
(* by a command that failed in the middle.  Only a killed command's files are   *)
(* hers to look at: its .bak is not in the request.                             *)
MainProofKept ==
    [][crashes = 0 /\ IsProof(main.ots) => Later(main'.ots, main.ots)]_nightVars

(* Every block gets a complete proof on main in the end, though each night that  *)
(* is not merged is lost, stamps anew what main does not have, and may close    *)
(* the request of the night before ("stamps any block with no .ots yet",        *)
(* "a later night upgrades it like any other", docs/setup.md:200-208).  The one  *)
(* exception: a person merged the cut-short .ots of a command that was killed,   *)
(* which every later command refuses and leaves to her.                         *)
WitnessedInTheEnd ==
    <>[](\/ night = AtHome
         \/ IsProof(main.ots) /\ main.ots.level = Complete
         \/ main.ots = Torn /\ crashes > 0)
=============================================================================
