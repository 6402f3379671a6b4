----------------------------- MODULE VerifyAll -----------------------------
(***************************************************************************)
(* `aikiri-ledger verify --rpc a --rpc b ...`: verify_all (verify.py) asks *)
(* several nodes about the contract through a QuorumBase (witness.py) and  *)
(* comes to one of the four states, while Base grows and the nodes follow  *)
(* it, each at its own pace.  Any call to any node may go unanswered, and  *)
(* up to MaxFaulty of the nodes answer what they like.                     *)
(*                                                                         *)
(* The chain on disk does not change meanwhile.  What verify_chain said of *)
(* it, whether the pins hold, which block Base holds another hash for and  *)
(* so on is chosen at the start and is the `world`.  Base does not reorg.  *)
(***************************************************************************)
EXTENDS Naturals, FiniteSets

CONSTANTS
    Nodes,
    MaxFaulty,    \* how many of the nodes may lie
    MaxHeight,    \* bound on Base's height
    MaxIndex,     \* bound on the block indices
    Silence       \* a call that raised: too few answers, or answers that differ

ASSUME VerifyAssumption ==
    /\ IsFiniteSet(Nodes) /\ Nodes # {} /\ MaxFaulty \in Nat
    /\ MaxHeight \in Nat \ {0} /\ MaxIndex \in Nat
    /\ Silence \notin Nat \cup BOOLEAN

VARIABLES
    height,       \* Base's height
    base,         \* height -> latestIndex in that block of Base
    final, head,  \* node -> the last block it holds final, the last it has
    world,        \* what there is to find out
    run,          \* where verify_all is, and what it has read
    floor,        \* latestIndex that every node held final when it started
    disagreed,    \* answers differed in some call so far
    verdict

vars == <<height, base, final, head, world, run, floor, disagreed, verdict>>

Heights == 1 .. MaxHeight
Index == 0 .. MaxIndex
Reasons == {"unread", "pins", "truncated", "differs", "record"}
States == {"none", "crash", "INVALID", "VALID_LOCALLY", "BASE_VERIFIED", "FULLY_VERIFIED"}
Verified == {"BASE_VERIFIED", "FULLY_VERIFIED"}

(* local is the last index on disk; from block `fork` on, Base's hashes are    *)
(* others; block `stray` was anchored late or by another account; bitcoin is   *)
(* the worst that BitcoinWitness.verify says of a block; faulty nodes lie.     *)
Worlds == [sound : BOOLEAN, external : BOOLEAN, pins : BOOLEAN, local : Index,
           fork : 1 .. MaxIndex + 1, stray : 1 .. MaxIndex + 1,
           bitcoin : {"complete", "pending", "failed"},
           faulty : {S \in SUBSET Nodes : Cardinality(S) <= MaxFaulty}]

Start == [pc |-> "chain", latest |-> 0, i |-> 0, wrong |-> {}, capped |-> FALSE]

TypeOK ==
    /\ height \in Heights
    /\ base \in [Heights -> Index]
    /\ final \in [Nodes -> Heights] /\ head \in [Nodes -> Heights]
    /\ world \in Worlds
    /\ run \in [pc : {"chain", "pins", "latest", "match", "record", "judge", "done"},
                latest : Index, i : 0 .. MaxIndex + 1, wrong : SUBSET Reasons, capped : BOOLEAN]
    /\ floor \in Index
    /\ disagreed \in BOOLEAN
    /\ verdict \in States

Init ==
    /\ height = 1
    /\ base = [h \in Heights |-> 0]
    /\ final = [n \in Nodes |-> 1] /\ head = [n \in Nodes |-> 1]
    /\ world \in Worlds
    /\ run = [Start EXCEPT !.pc = "done"]
    /\ floor = 0
    /\ disagreed = FALSE
    /\ verdict = "none"

-----------------------------------------------------------------------------
(* Base and its nodes *)

(* A block of Base, with the next anchor in it or not. *)
Grow ==
    /\ height < MaxHeight
    /\ height' = height + 1
    /\ \E up \in {0, 1} :
          /\ base[height] + up \in Index
          /\ base' = [base EXCEPT ![height + 1] = base[height] + up]
    /\ UNCHANGED <<final, head, world, run, floor, disagreed, verdict>>

Follow(n) ==
    /\ \/ head[n] < height /\ head' = [head EXCEPT ![n] = @ + 1] /\ UNCHANGED final
       \/ final[n] < head[n] /\ final' = [final EXCEPT ![n] = @ + 1] /\ UNCHANGED head
    /\ UNCHANGED <<height, base, world, run, floor, disagreed, verdict>>

-----------------------------------------------------------------------------
(* QuorumBase *)

(* A bug: half of the nodes is taken for a majority. *)
QuorumHalf == Cardinality(Nodes) \div 2
Quorum == Cardinality(Nodes) \div 2 + 1

Majorities == {S \in SUBSET Nodes : Cardinality(S) >= Quorum}

(* common_block: the lowest of the finalized heights that were reported. *)
CommonBlocks ==
    {h \in Heights : \E S \in Majorities :
        /\ \E n \in S : n \in world.faulty \/ final[n] = h
        /\ \A n \in S \ world.faulty : final[n] >= h}

(* _gather: what a majority can have answered as one.  `able` are the nodes    *)
(* that can answer, `says` what they answer.                                  *)
Answers(able, says, domain) ==
    {v \in domain : \E S \in Majorities :
        S \ world.faulty \subseteq able /\ \A n \in S \ world.faulty : says[n] = v}

Differ(able, says) ==
    /\ Cardinality(able \cup world.faulty) >= Quorum
    /\ \/ \E m, n \in able \ world.faulty : says[m] # says[n]
       \/ world.faulty # {} /\ Cardinality(able \cup world.faulty) >= 2

(* The call comes back with an answer, or raises. *)
Gather(answer, able, says, domain) ==
    \/ answer \in Answers(able, says, domain) /\ UNCHANGED disagreed
    \/ answer = Silence /\ UNCHANGED disagreed
    \/ answer = Silence /\ Differ(able, says) /\ disagreed' = TRUE

Has(h) == {n \in Nodes : head[n] >= h}        \* the nodes that have block h of Base

LatestIndex(answer) ==
    \/ answer = Silence /\ UNCHANGED disagreed                       \* no common block
    \/ \E h \in CommonBlocks : Gather(answer, Has(h), [n \in Nodes |-> base[h]], Index)

MatchesAt(i, h) == i <= base[h] /\ i < world.fork

Matches(i, answer) ==
    \/ answer = Silence /\ UNCHANGED disagreed
    \/ \E h \in CommonBlocks : Gather(answer, Has(h), [n \in Nodes |-> MatchesAt(i, h)], BOOLEAN)

(* record() is asked of each node at its own head.  One that has no record yet *)
(* answers zeros, whose sender is not the owner either.                        *)
RecordGood(i, n) == i <= base[head[n]] /\ i # world.stray

Record(i, answer) ==
    Gather(answer, Nodes, [n \in Nodes |-> RecordGood(i, n)], BOOLEAN)

-----------------------------------------------------------------------------
(* verify_all *)

Least(S) == CHOOSE x \in S : \A y \in S : x <= y

Goto(pc) == run' = [run EXCEPT !.pc = pc]
Blame(reason, pc) == run' = [run EXCEPT !.pc = pc, !.wrong = @ \cup {reason}]
Ends(state) == verdict' = state /\ Goto("done")

(* verify is run, again or for the first time. *)
Begin ==
    /\ run.pc = "done"
    /\ run' = Start
    /\ floor' = base[Least({final[n] : n \in Nodes})]
    /\ verdict' = "none"
    /\ disagreed' = FALSE
    /\ UNCHANGED <<height, base, final, head, world>>

(* verify_chain, and the cap for an anchor that came with the repository. *)
CheckChain ==
    /\ run.pc = "chain"
    /\ \/ ~world.sound /\ Ends("INVALID")
       \/ world.sound /\ UNCHANGED verdict
          /\ run' = [run EXCEPT !.pc = "pins", !.capped = ~world.external]
    /\ UNCHANGED <<height, base, final, head, world, floor, disagreed>>

(* The contract's address, genesis hash, owner and code against their pins. *)
ReadPins ==
    /\ run.pc = "pins"
    /\ \E answer \in BOOLEAN \cup {Silence} :
          /\ Gather(answer, Nodes, [n \in Nodes |-> world.pins], BOOLEAN)
          /\ \/ answer = TRUE /\ Goto("latest")
             \/ answer = FALSE /\ Blame("pins", "latest")
             \/ answer = Silence /\ Blame("unread", "latest")
    /\ UNCHANGED <<height, base, final, head, world, floor, verdict>>

(* A bug: a copy that ends early is not looked for. *)
ReadLatestOnly ==
    /\ run.pc = "latest"
    /\ \E answer \in Index \cup {Silence} :
          /\ LatestIndex(answer)
          /\ \/ answer = Silence /\ Blame("unread", "judge")
             \/ answer \in Index /\ run' = [run EXCEPT !.pc = "match", !.latest = answer]
    /\ UNCHANGED <<height, base, final, head, world, floor, verdict>>

ReadLatest ==
    /\ run.pc = "latest"
    /\ \E answer \in Index \cup {Silence} :
          /\ LatestIndex(answer)
          /\ \/ answer = Silence /\ Blame("unread", "judge")
             \/ answer \in 0 .. world.local
                /\ run' = [run EXCEPT !.pc = "match", !.latest = answer]
             \/ answer \in world.local + 1 .. MaxIndex
                /\ run' = [run EXCEPT !.pc = "match", !.latest = answer, !.wrong = @ \cup {"truncated"}]
    /\ UNCHANGED <<height, base, final, head, world, floor, verdict>>

InLoop == run.i <= run.latest /\ run.i <= world.local
NextBlock(wrong) == run' = [run EXCEPT !.pc = "match", !.i = @ + 1, !.wrong = @ \cup wrong]

(* matches() of the next block.  Nothing catches a call that raises here. *)
MatchBlock ==
    /\ run.pc = "match"
    /\ InLoop
    /\ \E answer \in BOOLEAN \cup {Silence} :
          /\ Matches(run.i, answer)
          /\ \/ answer = TRUE /\ Goto("record") /\ UNCHANGED verdict
             \/ answer = FALSE /\ NextBlock({"differs"}) /\ UNCHANGED verdict
             \/ answer = Silence /\ Ends("crash")
    /\ UNCHANGED <<height, base, final, head, world, floor>>

(* The record of the block; here a call that raises is passed over. *)
ReadRecord ==
    /\ run.pc = "record"
    /\ \E answer \in BOOLEAN \cup {Silence} :
          /\ Record(run.i, answer)
          /\ NextBlock(IF answer = FALSE THEN {"record"} ELSE {})
    /\ UNCHANGED <<height, base, final, head, world, floor, verdict>>

LoopEnds ==
    /\ run.pc = "match"
    /\ ~InLoop
    /\ Goto("judge")
    /\ UNCHANGED <<height, base, final, head, world, floor, disagreed, verdict>>

(* A bug: the cap is looked at before Base and Bitcoin, not after. *)
JudgeUncapped ==
    /\ run.pc = "judge"
    /\ \/ run.wrong # {} /\ Ends("INVALID")
       \/ /\ run.wrong = {}
          /\ \/ world.bitcoin = "failed" /\ Ends("INVALID")
             \/ world.bitcoin = "complete" /\ Ends("FULLY_VERIFIED")
             \/ world.bitcoin = "pending" /\ Ends("BASE_VERIFIED")
    /\ UNCHANGED <<height, base, final, head, world, floor, disagreed>>

(* The state Base allows, then Bitcoin's word, then the lower of state and cap. *)
Judge ==
    /\ run.pc = "judge"
    /\ LET anchored == world.local <= run.latest
       IN  \/ run.wrong # {} /\ Ends("INVALID")
           \/ /\ run.wrong = {}
              /\ \/ world.bitcoin = "failed" /\ Ends("INVALID")
                 \/ /\ world.bitcoin # "failed"
                    /\ ~anchored \/ run.capped
                    /\ Ends("VALID_LOCALLY")
                 \/ /\ anchored /\ ~run.capped
                    /\ world.bitcoin = "complete" /\ Ends("FULLY_VERIFIED")
                 \/ /\ anchored /\ ~run.capped
                    /\ world.bitcoin = "pending" /\ Ends("BASE_VERIFIED")
    /\ UNCHANGED <<height, base, final, head, world, floor, disagreed>>

Next ==
    \/ Grow
    \/ \E n \in Nodes : Follow(n)
    \/ Begin
    \/ CheckChain \/ ReadPins \/ ReadLatest \/ MatchBlock \/ ReadRecord \/ LoopEnds \/ Judge

Spec == Init /\ [][Next]_vars

-----------------------------------------------------------------------------
(* A verified verdict is true of Base: every block on disk is anchored there   *)
(* with its own hash, by then.  It must hold though the reads are of several   *)
(* heights and of whichever nodes answered, and as long as the nodes that lie  *)
(* are no majority.  "Only the top state may be described as verified"         *)
(* (verify.py:13): that one takes Bitcoin as well, and an anchor from outside   *)
(* the repository.                                                            *)
VerifiedIsAnchored ==
    /\ verdict \in Verified =>
          /\ world.sound /\ world.pins
          /\ world.local <= base[height]
          /\ world.local < world.fork
    /\ verdict = "FULLY_VERIFIED" => world.external /\ world.bitcoin = "complete"

(* A verified verdict is not older than the slowest node was when verify       *)
(* began, if no node lies: a copy that ended before that is caught as          *)
(* truncated.                                                                  *)
VerdictFresh == verdict \in Verified /\ world.faulty = {} => floor <= world.local

(* "disagreement is never success" (README.md:72, witness.py:711). *)
DisagreementNeverSuccess == disagreed => verdict \notin Verified
=============================================================================
