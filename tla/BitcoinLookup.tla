--------------------------- MODULE BitcoinLookup ---------------------------
(***************************************************************************)
(* The Bitcoin half of one `aikiri-ledger verify`: BitcoinWitness.verify,   *)
(* _check, _header, _look_up, _from_public and _within (witness.py), block   *)
(* after block as verify_all asks (verify.py).  The header of every Bitcoin  *)
(* block a proof names is looked up once per run, from the person's own node *)
(* while it answers, else from public sources that must agree; all lookups  *)
(* share one budget of time, and a call that outlasts it is left behind in   *)
(* its thread.                                                              *)
(*                                                                          *)
(* A genuine header is named by the height of its block.  Forged is a header *)
(* made for the occasion, with too little work: its author gives it          *)
(* the Merkle root he likes.  A source in `liars` answers anything at all.   *)
(***************************************************************************)
EXTENDS Naturals, FiniteSets

CONSTANTS
    LastBlock,    \* verify goes through blocks 1 .. LastBlock of the ledger
    MaxHeight,    \* Bitcoin's blocks
    MaxSource,    \* the public sources, asked in this order
    MaxNamed,     \* _BITCOIN_BLOCKS_MAX
    Budget,       \* _LOOKUP_BUDGET, in ticks
    Forged, Error, Empty, Unknown, Unanswered, Unset

ASSUME LookupAssumption ==
    /\ LastBlock \in Nat \ {0} /\ MaxHeight \in Nat /\ MaxSource \in Nat \ {0}
    /\ MaxNamed \in Nat /\ Budget \in Nat \ {0}
    /\ Forged \notin Nat
    /\ \A x \in {Error, Empty, Unknown, Unanswered, Unset} : x \notin Nat \cup {Forged}
    /\ Error # Empty /\ Unknown # Unanswered

VARIABLES
    proofs, public, liars,   \* the world: chosen at the start
    node,      \* the own Bitcoin node: not yet looked for, asked, or given up
    cache,     \* height -> the header, or that none was to be had
    left,      \* time left for lookups; Unset before the first
    box,       \* what came back from the call that is waited for
    behind,    \* a call whose thread was left running, or Empty
    run,       \* where verify is
    verdict    \* block -> what verify said of its proof

world == <<proofs, public, liars>>
vars == <<proofs, public, liars, node, cache, left, box, behind, run, verdict>>

Blocks == 1 .. LastBlock
Heights == 1 .. MaxHeight
Sources == 1 .. MaxSource
Headers == Heights \cup {Forged}

(* What a proof says: its message is the Merkle root of Bitcoin block `height`. *)
(* It is that of block `in`, or of none (0).                                   *)
Attestations == [height : Heights, in : Heights \cup {0}]

(* What _check makes of the file, before any lookup: no attestation yet, not a  *)
(* proof of this block's hash (or too long), or a proof that names blocks.     *)
Proofs == {[st |-> "pending", named |-> {}], [st |-> "bad", named |-> {}]}
          \cup {[st |-> "attested", named |-> A] :
                   A \in {X \in SUBSET Attestations : Cardinality(X) \in 1 .. MaxNamed}}

NoCall == [to |-> 0, what |-> "none", of |-> 0]
Calls == [to : Sources \cup {0}, what : {"none", "header", "hash", "raw"}, of : Headers \cup {0}]
Verdicts == {"unread", "pending", "complete", "unchecked", "failed"}

TypeOK ==
    /\ proofs \in [Blocks -> Proofs]
    /\ public \in BOOLEAN
    /\ liars \in SUBSET Sources
    /\ node \in {"untried", "up", "down"}
    /\ cache \in [Heights -> Headers \cup {Unknown, Unanswered}]
    /\ left \in 0 .. Budget \cup {Unset}
    /\ box \in Headers \cup {Error, Empty}
    /\ behind \in Calls \cup {Empty}
    /\ run \in [pc : {"open", "ask", "wait", "done"}, blk : Blocks,
                todo : SUBSET Attestations, contradicted : BOOLEAN, height : Heights \cup {0},
                call : Calls, started : BOOLEAN, got : SUBSET (Headers \X Headers)]
    /\ verdict \in [Blocks -> Verdicts]

Init ==
    /\ proofs \in [Blocks -> Proofs]
    /\ public \in BOOLEAN
    /\ liars \in SUBSET Sources
    /\ node = "untried"
    /\ cache = [h \in Heights |-> Unknown]
    /\ left = Unset
    /\ box = Empty
    /\ behind = Empty
    /\ run = [pc |-> "open", blk |-> 1, todo |-> {}, contradicted |-> FALSE, height |-> 0,
              call |-> NoCall, started |-> FALSE, got |-> {}]
    /\ verdict = [b \in Blocks |-> "unread"]

-----------------------------------------------------------------------------
(* BitcoinBlockHeaderAttestation.verify_against_blockheader *)
Carries(header, att) == header = att.in \/ header = Forged

(* _worked: the header hashes to the block it was given for, with enough work. *)
Worked(raw, hash) == raw = hash /\ raw # Forged

(* What the one asked may answer: the own node its block, or an error when it  *)
(* is behind or warming up; an honest source what it holds; a liar anything.   *)
Answers(call) ==
    IF call.to \in liars THEN Headers \cup {Error} ELSE {call.of, Error}

(* The verdict on a block; verify_all stops at the first proof that fails. *)
Conclude(v) ==
    /\ verdict' = [verdict EXCEPT ![run.blk] = v]
    /\ run' = IF v = "failed" \/ run.blk = LastBlock
              THEN [run EXCEPT !.pc = "done", !.todo = {}]
              ELSE [run EXCEPT !.pc = "open", !.todo = {}, !.blk = @ + 1]

(* _check, up to the attestations. *)
OpenProof ==
    /\ run.pc = "open"
    /\ LET p == proofs[run.blk]
       IN  \/ p.st = "pending" /\ Conclude("pending")
           \/ p.st = "bad" /\ Conclude("failed")
           \/ /\ p.st = "attested"
              /\ run' = [run EXCEPT !.pc = "ask", !.todo = p.named, !.contradicted = FALSE]
              /\ UNCHANGED verdict
    /\ UNCHANGED <<world, node, cache, left, box, behind>>

(* The loop's attestations, in ascending order of height. *)
Lowest(a) == a \in run.todo /\ \A b \in run.todo : a.height <= b.height

(* A header that was had: it carries the proof, or contradicts it. *)
Compare ==
    /\ run.pc = "ask"
    /\ \E a \in run.todo :
          /\ Lowest(a)
          /\ cache[a.height] \in Headers
          /\ IF Carries(cache[a.height], a) THEN Conclude("complete")
             ELSE IF run.todo = {a} THEN Conclude("failed")
             ELSE /\ run' = [run EXCEPT !.todo = @ \ {a}, !.contradicted = TRUE]
                  /\ UNCHANGED verdict
    /\ UNCHANGED <<world, node, cache, left, box, behind>>

(* A bug: a block that could not be looked up fails the proof. *)
GiveUpFailed ==
    /\ run.pc = "ask"
    /\ \E a \in run.todo : Lowest(a) /\ cache[a.height] = Unanswered
    /\ Conclude("failed")
    /\ UNCHANGED <<world, node, cache, left, box, behind>>

(* A header that is not to be had: the attestations after it are not asked for. *)
GiveUp ==
    /\ run.pc = "ask"
    /\ \E a \in run.todo : Lowest(a) /\ cache[a.height] = Unanswered
    /\ Conclude(IF run.contradicted THEN "failed" ELSE "unchecked")
    /\ UNCHANGED <<world, node, cache, left, box, behind>>

(* The start of _within: the clock of the run starts with its first call, and  *)
(* a call for which no time is left is not made.                              *)
Begin(call, h, got) ==
    LET time == IF left = Unset THEN Budget ELSE left
    IN  /\ left' = time
        /\ box' = Empty
        /\ run' = [run EXCEPT !.pc = "wait", !.call = call, !.height = h, !.got = got,
                              !.started = time > 0]

(* _look_up: the node first, and once it has failed the public sources.  The    *)
(* node counts as there (`up`) as soon as its configuration is found.          *)
LookUp ==
    /\ run.pc = "ask"
    /\ \E a \in run.todo :
          /\ Lowest(a)
          /\ cache[a.height] = Unknown
          /\ \/ /\ node = "untried"
                /\ node' \in {"up", "down"}
                /\ UNCHANGED <<cache, left, box, run>>
             \/ /\ node = "up"
                /\ Begin([to |-> 0, what |-> "header", of |-> a.height], a.height, {})
                /\ UNCHANGED <<node, cache>>
             \/ /\ node = "down" /\ ~public
                /\ cache' = [cache EXCEPT ![a.height] = Unanswered]
                /\ UNCHANGED <<node, left, box, run>>
             \/ /\ node = "down" /\ public
                /\ Begin([to |-> 1, what |-> "hash", of |-> a.height], a.height, {})
                /\ UNCHANGED <<node, cache>>
    /\ UNCHANGED <<world, behind, verdict>>

(* Back from _within, and in the loop again. *)
Back ==
    /\ run' = [run EXCEPT !.pc = "ask", !.call = NoCall, !.height = 0, !.started = FALSE, !.got = {}]
    /\ box' = Empty

Cached(x) == cache' = [cache EXCEPT ![run.height] = x] /\ Back

(* The thread of the call puts its answer, or its error, into the call's own box. *)
Answer ==
    /\ run.pc = "wait" /\ run.started /\ box = Empty
    /\ box' \in Answers(run.call)
    /\ UNCHANGED <<world, node, cache, left, behind, run, verdict>>

(* The node's answer.  An error, and it is not asked again this run. *)
NodeAnswered ==
    /\ run.pc = "wait" /\ run.call.what = "header" /\ box # Empty
    /\ \/ /\ box = Error
          /\ node' = "down"
          /\ Back
          /\ UNCHANGED cache
       \/ /\ box # Error
          /\ Cached(box)
          /\ UNCHANGED node
    /\ UNCHANGED <<world, left, behind, verdict>>

(* A source's first answer: the hash of its block at the height. *)
HashAnswered ==
    /\ run.pc = "wait" /\ run.call.what = "hash" /\ box # Empty
    /\ \/ /\ box = Error
          /\ Cached(Unanswered)
          /\ UNCHANGED left
       \/ /\ box # Error
          /\ Begin([to |-> run.call.to, what |-> "raw", of |-> box], run.height, run.got)
          /\ UNCHANGED cache
    /\ UNCHANGED <<world, node, behind, verdict>>

(* The header all of them gave, if they did and it is one. *)
Agreed(got) == {g[1] : g \in {x \in got : got = {x} /\ Worked(x[1], x[2])}}

(* A source's second answer: the header itself.  Then the next source. *)
RawAnswered ==
    /\ run.pc = "wait" /\ run.call.what = "raw" /\ box # Empty
    /\ LET got == run.got \cup {<<box, run.call.of>>}
       IN  \/ /\ box = Error
              /\ Cached(Unanswered)
              /\ UNCHANGED left
           \/ /\ box # Error /\ run.call.to < MaxSource
              /\ Begin([to |-> run.call.to + 1, what |-> "hash", of |-> run.height], run.height, got)
              /\ UNCHANGED cache
           \/ /\ box # Error /\ run.call.to = MaxSource
              /\ \/ Agreed(got) = {} /\ Cached(Unanswered)
                 \/ \E x \in Agreed(got) : Cached(x)
              /\ UNCHANGED left
    /\ UNCHANGED <<world, node, behind, verdict>>

(* A bug: the thread is joined without a limit. *)
OutOfTimeJoined ==
    /\ run.pc = "wait" /\ box = Empty /\ left = 0 /\ ~run.started
    /\ Cached(Unanswered)
    /\ UNCHANGED <<world, node, left, behind, verdict>>

(* Nothing came back in time.  The thread is left behind, the node stays `up`,  *)
(* and the public sources are not asked in its place.                          *)
OutOfTime ==
    /\ run.pc = "wait" /\ box = Empty /\ left = 0
    /\ Cached(Unanswered)
    /\ behind' = IF run.started THEN run.call ELSE behind
    /\ UNCHANGED <<world, node, left, verdict>>

(* A bug: one box for all calls of the run. *)
LateAnswerShared ==
    /\ behind # Empty
    /\ box' \in Answers(behind)
    /\ behind' = Empty
    /\ UNCHANGED <<world, node, cache, left, run, verdict>>

(* What was left behind answers after all, into a box nobody looks into any more. *)
LateAnswer ==
    /\ behind # Empty
    /\ behind' = Empty
    /\ UNCHANGED <<world, node, cache, left, box, run, verdict>>

Tick ==
    /\ left \notin {Unset, 0}
    /\ run.pc = "wait"
    /\ left' = left - 1
    /\ UNCHANGED <<world, node, cache, box, behind, run, verdict>>

Step ==
    \/ OpenProof
    \/ Compare
    \/ GiveUp
    \/ LookUp
    \/ NodeAnswered
    \/ HashAnswered
    \/ RawAnswered
    \/ OutOfTime

Next == Step \/ Answer \/ LateAnswer \/ Tick

Spec == Init /\ [][Next]_vars

(* verify goes on, and time passes.  Nobody who is asked need ever answer. *)
FairSpec == Spec /\ WF_vars(Step) /\ WF_vars(Tick)

-----------------------------------------------------------------------------
(* "Neither source is trusted with anything else" than agreeing (_from_public): *)
(* a proof called complete is in some Bitcoin block even when all of them lie  *)
(* together, and while one of them is honest it is in a block of the very     *)
(* height it names.  A late answer must not stand in for another block's.     *)
CompleteIsCarried ==
    \A b \in Blocks : verdict[b] = "complete" =>
        \E a \in proofs[b].named : a.in # 0 /\ (liars # Sources => a.in = a.height)

(* What could not be looked up never fails a proof (_Unanswered: "the proof is  *)
(* not checked, never failed"): unless all sources lie, a proof that is failed *)
(* is not this block's, or names a Bitcoin block that does not carry it.      *)
FailedIsContradicted ==
    \A b \in Blocks : verdict[b] = "failed" /\ proofs[b].st = "attested" /\ liars # Sources =>
        \E a \in proofs[b].named : a.in # a.height

(* verify ends, though the node and the sources may keep silent for ever. *)
VerifyEnds == <>(run.pc = "done")
=============================================================================
