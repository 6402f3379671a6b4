-------------------------- MODULE BitcoinLookupProofs --------------------------
(***************************************************************************)
(* For any number of blocks, Bitcoin heights, public sources and any budget: *)
(* a proof called complete is in a Bitcoin block, and one that is failed is  *)
(* contradicted by one.  LookupInv is the inductive invariant.  Its core is  *)
(* CacheTrue; the calls under way are described so far as what they answer   *)
(* may come into the cache, with the honest sources kept apart.             *)
(***************************************************************************)
EXTENDS BitcoinLookup, TLAPS

(* A header that was had is none made for the occasion, and while one of the  *)
(* sources is honest it is that of the very height it was asked for.         *)
CacheTrue ==
    \A h \in Heights : cache[h] \in Headers =>
        cache[h] # Forged /\ (liars # Sources => cache[h] = h)

(* The call that is waited for: an honest source speaks of the height asked   *)
(* for, and each that answered before has left that height's header.         *)
CallTrue ==
    run.pc = "wait" =>
        /\ run.height \in Heights /\ run.call.of \in Headers
        /\ run.call.what \in {"header", "hash", "raw"}
        /\ IF run.call.what = "header" THEN run.call.to = 0 ELSE run.call.to \in Sources
        /\ run.call.what # "raw" \/ run.call.to \notin liars => run.call.of = run.height
        /\ run.call.to \notin liars => box \in {run.call.of, Error, Empty}
        /\ run.call.what # "header" =>
              \A s \in Sources \ liars : s < run.call.to => <<run.height, run.height>> \in run.got

(* What is still to be compared belongs to the block's proof, and if something *)
(* was contradicted so far it was by a block of that proof.                  *)
ProofTrue ==
    /\ run.todo \subseteq proofs[run.blk].named
    /\ run.pc \in {"ask", "wait"} /\ run.contradicted /\ liars # Sources =>
          \E a \in proofs[run.blk].named : a.in # a.height

LookupInv ==
    /\ TypeOK
    /\ CacheTrue
    /\ CallTrue
    /\ ProofTrue
    /\ CompleteIsCarried
    /\ FailedIsContradicted

-----------------------------------------------------------------------------
LEMMA HeaderKinds ==
    /\ \A x \in {Error, Empty, Unknown, Unanswered, 0} : x \notin Headers
    /\ Heights \subseteq Headers /\ Forged \in Headers /\ Forged \notin Heights
    /\ \A h \in Heights : h \in Nat /\ h # 0
    /\ Error # Empty /\ Unset \notin 0 .. Budget
    /\ 0 \notin Sources /\ 1 \in Sources /\ 1 \in Blocks
  BY LookupAssumption DEF Headers, Heights, Sources, Blocks

LEMMA NamedType ==
    ASSUME TypeOK
    PROVE  /\ run.blk \in Blocks /\ proofs[run.blk] \in Proofs
           /\ proofs[run.blk].named \in SUBSET Attestations
  BY DEF TypeOK, Proofs

LEMMA InitLookupInv == Init => LookupInv
<1> SUFFICES ASSUME Init PROVE LookupInv
  OBVIOUS
<1>1. TypeOK
  BY HeaderKinds, LookupAssumption DEF Init, TypeOK, NoCall, Calls, Verdicts
<1>2. CacheTrue /\ CallTrue /\ ProofTrue
  BY HeaderKinds DEF Init, CacheTrue, CallTrue, ProofTrue
<1>3. CompleteIsCarried /\ FailedIsContradicted
  BY DEF Init, CompleteIsCarried, FailedIsContradicted
<1> QED BY <1>1, <1>2, <1>3 DEF LookupInv

-----------------------------------------------------------------------------
(* What is enough for a verdict. *)
LEMMA ConcludeStep ==
    ASSUME LookupInv, NEW v \in Verdicts, Conclude(v), run.pc \in {"open", "ask"},
           UNCHANGED <<world, node, cache, left, box, behind>>,
           v = "complete" =>
              \E a \in proofs[run.blk].named : a.in # 0 /\ (liars # Sources => a.in = a.height),
           v = "failed" /\ proofs[run.blk].st = "attested" /\ liars # Sources =>
              \E a \in proofs[run.blk].named : a.in # a.height
    PROVE  LookupInv'
<1> USE DEF LookupInv
<1>0. UNCHANGED <<proofs, public, liars, node, cache, left, box, behind>>
  BY DEF world
<1>1. \/ run' = [run EXCEPT !.pc = "done", !.todo = {}]
      \/ run.blk # LastBlock /\ run' = [run EXCEPT !.pc = "open", !.todo = {}, !.blk = @ + 1]
  BY DEF Conclude
<1>2. verdict' = [verdict EXCEPT ![run.blk] = v] /\ run.blk \in Blocks
  BY DEF Conclude, TypeOK
<1>3. run.blk # LastBlock => run.blk + 1 \in Blocks
  BY <1>2, LookupAssumption DEF Blocks
<1>4. verdict' \in [Blocks -> Verdicts]
  BY <1>2 DEF TypeOK
<1>5. run'.todo = {} /\ run'.pc \in {"done", "open"}
  BY <1>1 DEF TypeOK
<1>6. TypeOK'
  <2>1. CASE run' = [run EXCEPT !.pc = "done", !.todo = {}]
    BY <1>0, <1>4, <2>1 DEF TypeOK
  <2>2. CASE run.blk # LastBlock /\ run' = [run EXCEPT !.pc = "open", !.todo = {}, !.blk = @ + 1]
    BY <1>0, <1>3, <1>4, <2>2 DEF TypeOK
  <2> QED BY <1>1, <2>1, <2>2
<1>7. CacheTrue' /\ CallTrue' /\ ProofTrue'
  BY <1>0, <1>5 DEF CacheTrue, CallTrue, ProofTrue
<1>8. CompleteIsCarried'
  BY <1>0, <1>2 DEF CompleteIsCarried, TypeOK
<1>9. FailedIsContradicted'
  BY <1>0, <1>2 DEF FailedIsContradicted, TypeOK
<1> QED BY <1>6, <1>7, <1>8, <1>9

LEMMA OpenProofStep == ASSUME LookupInv, OpenProof PROVE LookupInv'
<1>1. CASE proofs[run.blk].st = "pending" /\ Conclude("pending")
  BY <1>1, ConcludeStep DEF OpenProof, Verdicts
<1>2. CASE proofs[run.blk].st = "bad" /\ Conclude("failed")
  BY <1>2, ConcludeStep DEF OpenProof, Verdicts
<1>3. CASE /\ run' = [run EXCEPT !.pc = "ask", !.todo = proofs[run.blk].named, !.contradicted = FALSE]
           /\ UNCHANGED verdict
  <2>1. proofs[run.blk].named \in SUBSET Attestations
    BY NamedType DEF LookupInv
  <2>2. UNCHANGED <<proofs, public, liars, node, cache, left, box, behind, verdict>>
    BY <1>3 DEF OpenProof, world
  <2>3. TypeOK'
    BY <1>3, <2>1, <2>2 DEF LookupInv, TypeOK
  <2>4. CacheTrue' /\ CallTrue' /\ ProofTrue'
    BY <1>3, <2>2 DEF LookupInv, TypeOK, CacheTrue, CallTrue, ProofTrue
  <2>5. CompleteIsCarried' /\ FailedIsContradicted'
    BY <2>2 DEF LookupInv, CompleteIsCarried, FailedIsContradicted
  <2> QED BY <2>3, <2>4, <2>5 DEF LookupInv
<1> QED BY <1>1, <1>2, <1>3 DEF OpenProof

(* The comparison: a header in the cache that carries the proof shows it to be *)
(* in Bitcoin; one that does not, while a source is honest, shows that it is  *)
(* not where it says.                                                        *)
LEMMA CompareStep == ASSUME LookupInv, Compare PROVE LookupInv'
<1> USE DEF LookupInv
<1>1. PICK a \in run.todo :
         /\ cache[a.height] \in Headers
         /\ IF Carries(cache[a.height], a) THEN Conclude("complete")
            ELSE IF run.todo = {a} THEN Conclude("failed")
            ELSE /\ run' = [run EXCEPT !.todo = @ \ {a}, !.contradicted = TRUE]
                 /\ UNCHANGED verdict
  BY DEF Compare
<1>2. a \in proofs[run.blk].named /\ a \in Attestations /\ a.height \in Heights
  BY DEF TypeOK, ProofTrue, Attestations
<1>3. cache[a.height] # Forged /\ (liars # Sources => cache[a.height] = a.height)
  BY <1>1, <1>2 DEF CacheTrue
<1>4. run.pc = "ask" /\ UNCHANGED <<world, node, cache, left, box, behind>>
  BY DEF Compare
<1>5. CASE Carries(cache[a.height], a)
  <2>1. a.in # 0 /\ (liars # Sources => a.in = a.height)
    BY <1>1, <1>3, <1>5, HeaderKinds DEF Carries
  <2> QED BY <1>1, <1>2, <1>4, <1>5, <2>1, ConcludeStep DEF Verdicts
<1>6. CASE ~Carries(cache[a.height], a)
  <2>1. liars # Sources => a.in # a.height
    BY <1>3, <1>6 DEF Carries
  <2>2. CASE run.todo = {a}
    BY <1>1, <1>2, <1>4, <1>6, <2>1, <2>2, ConcludeStep DEF Verdicts
  <2>3. CASE run.todo # {a}
    <3>1. UNCHANGED <<proofs, public, liars, node, cache, left, box, behind, verdict>>
      BY <1>1, <1>4, <1>6, <2>3 DEF world
    <3>2. run' = [run EXCEPT !.todo = @ \ {a}, !.contradicted = TRUE]
      BY <1>1, <1>6, <2>3
    <3>3. TypeOK'
      BY <3>1, <3>2 DEF TypeOK
    <3>4. CacheTrue' /\ CallTrue'
      BY <1>4, <3>1, <3>2 DEF TypeOK, CacheTrue, CallTrue
    <3>5. run'.todo \subseteq run.todo /\ run'.blk = run.blk
      BY <3>2 DEF TypeOK
    <3>6. ProofTrue'
      BY <1>2, <2>1, <3>1, <3>5 DEF ProofTrue
    <3>7. CompleteIsCarried' /\ FailedIsContradicted'
      BY <3>1 DEF CompleteIsCarried, FailedIsContradicted
    <3> QED BY <3>3, <3>4, <3>6, <3>7
  <2> QED BY <2>2, <2>3
<1> QED BY <1>5, <1>6

LEMMA GiveUpStep == ASSUME LookupInv, GiveUp PROVE LookupInv'
<1>1. CASE run.contradicted /\ Conclude("failed")
  BY <1>1, ConcludeStep DEF GiveUp, LookupInv, ProofTrue, Verdicts
<1>2. CASE Conclude("unchecked")
  BY <1>2, ConcludeStep DEF GiveUp, Verdicts
<1> QED BY <1>1, <1>2 DEF GiveUp

-----------------------------------------------------------------------------
(* What a step leaves true that touches neither the proof that is looked at nor *)
(* any verdict.                                                              *)
LEMMA VerdictsStay ==
    ASSUME LookupInv, UNCHANGED <<world, verdict>>,
           run'.todo = run.todo, run'.blk = run.blk, run'.contradicted = run.contradicted,
           run.pc \in {"ask", "wait"}
    PROVE  ProofTrue' /\ CompleteIsCarried' /\ FailedIsContradicted'
<1>1. UNCHANGED <<proofs, liars, verdict>>
  BY DEF world
<1>2. ProofTrue'
  BY <1>1 DEF LookupInv, ProofTrue
<1>3. CompleteIsCarried' /\ FailedIsContradicted'
  BY <1>1 DEF LookupInv, CompleteIsCarried, FailedIsContradicted
<1> QED BY <1>2, <1>3

(* A call that is made: what it has to be for its answer to be worth having. *)
LEMMA BeginStep ==
    ASSUME LookupInv, run.pc \in {"ask", "wait"},
           NEW call \in Calls, NEW h \in Heights, NEW got \in SUBSET (Headers \X Headers),
           Begin(call, h, got), UNCHANGED <<world, node, cache, behind, verdict>>,
           call.of \in Headers, call.what \in {"header", "hash", "raw"},
           IF call.what = "header" THEN call.to = 0 ELSE call.to \in Sources,
           call.what # "raw" \/ call.to \notin liars => call.of = h,
           call.what # "header" => \A s \in Sources \ liars : s < call.to => <<h, h>> \in got
    PROVE  LookupInv'
<1> USE DEF LookupInv
<1>1. UNCHANGED <<proofs, public, liars, node, cache, behind, verdict>>
  BY DEF world
<1>2. left' \in 0 .. Budget
  BY LookupAssumption DEF TypeOK, Begin
<1>3. PICK started \in BOOLEAN :
         run' = [run EXCEPT !.pc = "wait", !.call = call, !.height = h, !.got = got, !.started = started]
  <2> DEFINE some == (IF left = Unset THEN Budget ELSE left) > 0
  <2>1. run' = [run EXCEPT !.pc = "wait", !.call = call, !.height = h, !.got = got, !.started = some]
    BY Zenon DEF Begin
  <2>2. some \in BOOLEAN
    OBVIOUS
  <2> HIDE DEF some
  <2> QED BY <2>1, <2>2
<1>4. run' \in [pc : {"open", "ask", "wait", "done"}, blk : Blocks,
                todo : SUBSET Attestations, contradicted : BOOLEAN, height : Heights \cup {0},
                call : Calls, started : BOOLEAN, got : SUBSET (Headers \X Headers)]
  BY <1>3 DEF TypeOK
<1>5. /\ run'.todo = run.todo /\ run'.blk = run.blk /\ run'.contradicted = run.contradicted
      /\ run'.call = call /\ run'.height = h /\ run'.got = got
  BY <1>3 DEF TypeOK
<1>6. TypeOK'
  BY <1>1, <1>2, <1>4 DEF TypeOK, Begin
<1>7. CacheTrue'
  BY <1>1 DEF CacheTrue
<1>8. CallTrue'
  BY <1>1, <1>5 DEF CallTrue, Begin
<1> QED BY <1>5, <1>6, <1>7, <1>8, VerdictsStay

(* A call that is over, with what it leaves in the cache. *)
LEMMA BackStep ==
    ASSUME LookupInv, run.pc = "wait", Back, UNCHANGED <<world, left, verdict>>,
           node' \in {"untried", "up", "down"}, behind' \in Calls \cup {Empty},
           cache' \in [Heights -> Headers \cup {Unknown, Unanswered}], CacheTrue'
    PROVE  LookupInv'
<1> USE DEF LookupInv
<1>1. UNCHANGED <<proofs, public, liars, left, verdict>>
  BY DEF world
<1>2. NoCall \in Calls
  BY DEF NoCall, Calls
<1>3. run' = [run EXCEPT !.pc = "ask", !.call = NoCall, !.height = 0, !.started = FALSE, !.got = {}]
  BY DEF Back
<1>4. run' \in [pc : {"open", "ask", "wait", "done"}, blk : Blocks,
                todo : SUBSET Attestations, contradicted : BOOLEAN, height : Heights \cup {0},
                call : Calls, started : BOOLEAN, got : SUBSET (Headers \X Headers)]
  BY <1>2, <1>3 DEF TypeOK
<1>5. /\ run'.todo = run.todo /\ run'.blk = run.blk /\ run'.contradicted = run.contradicted
      /\ run'.pc = "ask"
  BY <1>3 DEF TypeOK
<1>6. TypeOK'
  BY <1>1, <1>4 DEF TypeOK, Back
<1>7. CallTrue'
  BY <1>5 DEF CallTrue
<1> QED BY <1>5, <1>6, <1>7, VerdictsStay

(* That nothing was to be had harms nobody. *)
LEMMA UnansweredStep ==
    ASSUME LookupInv, run.pc = "wait", Cached(Unanswered), UNCHANGED <<world, node, left, verdict>>,
           behind' \in Calls \cup {Empty}
    PROVE  LookupInv'
<1>1. /\ cache' = [cache EXCEPT ![run.height] = Unanswered] /\ Back
      /\ UNCHANGED liars
  BY DEF Cached, world
<1>2. cache' \in [Heights -> Headers \cup {Unknown, Unanswered}]
  BY <1>1 DEF LookupInv, TypeOK
<1>3. CacheTrue'
  BY <1>1, HeaderKinds DEF LookupInv, TypeOK, CacheTrue
<1>4. node' \in {"untried", "up", "down"}
  BY DEF LookupInv, TypeOK
<1> QED BY <1>1, <1>2, <1>3, <1>4, BackStep

LEMMA HeaderStep ==
    ASSUME LookupInv, run.pc = "wait", NEW x \in Headers, Cached(x), UNCHANGED <<world, node, left, behind, verdict>>,
           x # Forged, liars # Sources => x = run.height
    PROVE  LookupInv'
<1>1. /\ cache' = [cache EXCEPT ![run.height] = x] /\ Back
      /\ UNCHANGED liars
  BY DEF Cached, world
<1>2. cache' \in [Heights -> Headers \cup {Unknown, Unanswered}]
  BY <1>1 DEF LookupInv, TypeOK
<1>3. CacheTrue'
  BY <1>1 DEF LookupInv, TypeOK, CacheTrue
<1>4. node' \in {"untried", "up", "down"} /\ behind' \in Calls \cup {Empty}
  BY DEF LookupInv, TypeOK
<1> QED BY <1>1, <1>2, <1>3, <1>4, BackStep

-----------------------------------------------------------------------------
LEMMA LookUpStep == ASSUME LookupInv, LookUp PROVE LookupInv'
<1> USE DEF LookupInv
<1>1. PICK a \in run.todo :
         /\ cache[a.height] = Unknown
         /\ \/ /\ node = "untried"
               /\ node' \in {"up", "down"}
               /\ UNCHANGED <<cache, left, box, run>>
            \/ /\ node = "up"
               /\ Begin([to |-> 0, what |-> "header", of |-> a.height], a.height, {})
               /\ UNCHANGED <<node, cache>>
            \/ /\ node = "down" /\ ~public
               /\ cache' = [cache EXCEPT ![a.height] = Unanswered]
               /\ UNCHANGED <<node, left, box, run>>
            \/ /\ node = "down" /\ public
               /\ Begin([to |-> 1, what |-> "hash", of |-> a.height], a.height, {})
               /\ UNCHANGED <<node, cache>>
  BY DEF LookUp
<1>2. a.height \in Heights
  BY DEF TypeOK, Attestations
<1>3. run.pc = "ask" /\ UNCHANGED <<world, behind, verdict>>
      /\ UNCHANGED <<proofs, public, liars, behind, verdict>>
  BY DEF LookUp, world
<1>4. CASE UNCHANGED <<cache, left, box, run>> /\ node' \in {"up", "down"}
  BY <1>3, <1>4
     DEF TypeOK, CacheTrue, CallTrue, ProofTrue, CompleteIsCarried, FailedIsContradicted
<1>5. CASE /\ cache' = [cache EXCEPT ![a.height] = Unanswered]
           /\ UNCHANGED <<node, left, box, run>>
  <2>1. TypeOK'
    BY <1>3, <1>5 DEF TypeOK
  <2>2. CacheTrue'
    BY <1>2, <1>3, <1>5, HeaderKinds DEF TypeOK, CacheTrue
  <2>3. CallTrue'
    BY <1>3, <1>5 DEF CallTrue
  <2> QED BY <1>3, <1>5, <2>1, <2>2, <2>3, VerdictsStay
<1>6. CASE Begin([to |-> 0, what |-> "header", of |-> a.height], a.height, {}) /\ UNCHANGED <<node, cache>>
  <2> DEFINE call == [to |-> 0, what |-> "header", of |-> a.height]
  <2>1. call \in Calls /\ call.of \in Headers
    BY <1>2, HeaderKinds DEF Calls
  <2>2. call.to = 0 /\ call.what = "header" /\ call.of = a.height
    OBVIOUS
  <2>3. Begin(call, a.height, {})
    BY <1>6
  <2> HIDE DEF call
  <2> QED BY <1>2, <1>3, <1>6, <2>1, <2>2, <2>3, BeginStep
<1>7. CASE Begin([to |-> 1, what |-> "hash", of |-> a.height], a.height, {}) /\ UNCHANGED <<node, cache>>
  <2> DEFINE call == [to |-> 1, what |-> "hash", of |-> a.height]
  <2>1. call \in Calls /\ call.of \in Headers /\ call.to \in Sources
    BY <1>2, HeaderKinds DEF Calls
  <2>2. \A s \in Sources : ~(s < 1)
    BY DEF Sources
  <2>3. call.to = 1 /\ call.what = "hash" /\ call.of = a.height
    OBVIOUS
  <2>4. Begin(call, a.height, {})
    BY <1>7
  <2> HIDE DEF call
  <2> QED BY <1>2, <1>3, <1>7, <2>1, <2>2, <2>3, <2>4, BeginStep
<1> QED BY <1>1, <1>4, <1>5, <1>6, <1>7

LEMMA AnswerStep == ASSUME LookupInv, Answer PROVE LookupInv'
<1> USE DEF LookupInv
<1>1. UNCHANGED <<proofs, public, liars, node, cache, left, behind, run, verdict>>
  BY DEF Answer, world
<1>2. box' \in Headers \cup {Error} /\ (run.call.to \notin liars => box' \in {run.call.of, Error})
  BY DEF Answer, Answers, CallTrue
<1>3. TypeOK'
  BY <1>1, <1>2 DEF TypeOK
<1>4. CacheTrue' /\ CallTrue'
  BY <1>1, <1>2 DEF CacheTrue, CallTrue
<1> QED BY <1>1, <1>3, <1>4, VerdictsStay DEF Answer, world

LEMMA NodeAnsweredStep == ASSUME LookupInv, NodeAnswered PROVE LookupInv'
<1> USE DEF LookupInv
<1>1. run.pc = "wait" /\ UNCHANGED <<world, left, behind, verdict>> /\ UNCHANGED liars
  BY DEF NodeAnswered, world
<1>2. CASE box = Error /\ node' = "down" /\ Back /\ UNCHANGED cache
  <2>1. CacheTrue' /\ cache' \in [Heights -> Headers \cup {Unknown, Unanswered}]
    BY <1>1, <1>2 DEF CacheTrue, TypeOK
  <2>2. behind' \in Calls \cup {Empty}
    BY <1>1 DEF TypeOK
  <2> QED BY <1>1, <1>2, <2>1, <2>2, BackStep
<1>3. CASE box # Error /\ Cached(box) /\ UNCHANGED node
  <2>1. liars \in SUBSET Sources /\ 0 \notin liars
    BY HeaderKinds DEF TypeOK
  <2>2. box = run.height /\ run.height \in Heights
    BY <1>1, <1>3, <2>1 DEF NodeAnswered, CallTrue
  <2> QED BY <1>1, <1>3, <2>2, HeaderKinds, HeaderStep
<1> QED BY <1>2, <1>3 DEF NodeAnswered

(* An honest source gives the hash of its block, and is then asked for that one. *)
LEMMA HashAnsweredStep == ASSUME LookupInv, HashAnswered PROVE LookupInv'
<1> USE DEF LookupInv
<1>1. run.pc = "wait" /\ run.call.what = "hash" /\ box # Empty /\ UNCHANGED <<world, node, behind, verdict>>
  BY DEF HashAnswered
<1>2. CASE Cached(Unanswered) /\ UNCHANGED left
  BY <1>1, <1>2, UnansweredStep DEF TypeOK
<1>3. CASE /\ box # Error
           /\ Begin([to |-> run.call.to, what |-> "raw", of |-> box], run.height, run.got)
           /\ UNCHANGED cache
  <2> DEFINE call == [to |-> run.call.to, what |-> "raw", of |-> box]
  <2>1. box \in Headers /\ run.call.to \in Sources /\ run.height \in Heights
    BY <1>1, <1>3 DEF TypeOK, CallTrue
  <2>2. call \in Calls /\ call.of \in Headers /\ call.to \in Sources /\ call.what = "raw"
    BY <2>1 DEF Calls
  <2>3. call.to \notin liars => call.of = run.height
    BY <1>1, <1>3 DEF CallTrue
  <2>4. \A s \in Sources \ liars : s < call.to => <<run.height, run.height>> \in run.got
    BY <1>1 DEF CallTrue
  <2>5. run.got \in SUBSET (Headers \X Headers)
    BY DEF TypeOK
  <2> HIDE DEF call
  <2> QED BY <1>1, <1>3, <2>1, <2>2, <2>3, <2>4, <2>5, BeginStep DEF call
<1> QED BY <1>2, <1>3 DEF HashAnswered

(* With one honest source, what all of them agree on is what it gave. *)
LEMMA RawAnsweredStep == ASSUME LookupInv, RawAnswered PROVE LookupInv'
<1> USE DEF LookupInv
<1> DEFINE got == run.got \cup {<<box, run.call.of>>}
<1>1. run.pc = "wait" /\ run.call.what = "raw" /\ box # Empty /\ UNCHANGED <<world, node, behind, verdict>>
  BY DEF RawAnswered
<1>2. run.height \in Heights /\ run.call.to \in Sources /\ run.call.of \in Headers
  BY <1>1 DEF CallTrue
<1>3. box # Error => \A s \in Sources \ liars : s <= run.call.to => <<run.height, run.height>> \in got
  <2>1. ASSUME box # Error, NEW s \in Sources \ liars, s <= run.call.to
        PROVE  <<run.height, run.height>> \in got
    <3>1. CASE s = run.call.to
      BY <1>1, <2>1, <3>1 DEF CallTrue
    <3>2. CASE s < run.call.to
      BY <1>1, <3>2 DEF CallTrue
    <3> QED BY <1>2, <2>1, <3>1, <3>2 DEF Sources
  <2> QED BY <2>1
<1>4. box # Error => got \in SUBSET (Headers \X Headers)
  BY <1>1, <1>2 DEF TypeOK
<1>5. CASE Cached(Unanswered) /\ UNCHANGED left
  BY <1>1, <1>5, UnansweredStep DEF TypeOK
<1>6. CASE /\ box # Error /\ run.call.to < MaxSource
           /\ Begin([to |-> run.call.to + 1, what |-> "hash", of |-> run.height], run.height, got)
           /\ UNCHANGED cache
  <2> DEFINE call == [to |-> run.call.to + 1, what |-> "hash", of |-> run.height]
  <2>1. call.to \in Sources /\ \A s \in Sources : s < call.to => s <= run.call.to
    BY <1>2, <1>6, LookupAssumption DEF Sources
  <2>2. call \in Calls /\ call.of \in Headers /\ call.what = "hash" /\ call.of = run.height
    BY <1>2, <2>1, HeaderKinds DEF Calls
  <2>3. \A s \in Sources \ liars : s < call.to => <<run.height, run.height>> \in got
    BY <1>3, <1>6, <2>1
  <2> HIDE DEF call, got
  <2> QED BY <1>1, <1>2, <1>4, <1>6, <2>1, <2>2, <2>3, BeginStep DEF call
<1>7. ASSUME box # Error, run.call.to = MaxSource, UNCHANGED <<left>>,
             NEW x \in Agreed(got), Cached(x)
      PROVE  LookupInv'
  <2>1. PICK g \in got : got = {g} /\ x = g[1] /\ g[1] = g[2] /\ g[1] # Forged
    BY <1>7 DEF Agreed, Worked
  <2>2. x \in Headers /\ x # Forged
    BY <1>4, <1>7, <2>1
  <2>3. liars # Sources => x = run.height
    <3>1. SUFFICES ASSUME liars # Sources PROVE x = run.height
      OBVIOUS
    <3>2. PICK s \in Sources : s \notin liars
      BY <3>1 DEF TypeOK
    <3>3. s <= run.call.to
      BY <1>7, <3>2, LookupAssumption DEF Sources
    <3>4. <<run.height, run.height>> \in got
      BY <1>3, <1>7, <3>2, <3>3
    <3> HIDE DEF got
    <3> QED BY <2>1, <3>4
  <2> QED BY <1>1, <1>7, <2>2, <2>3, HeaderStep
<1> QED BY <1>5, <1>6, <1>7 DEF RawAnswered

LEMMA OutOfTimeStep == ASSUME LookupInv, OutOfTime PROVE LookupInv'
<1>1. behind' \in Calls \cup {Empty}
  BY DEF LookupInv, TypeOK, OutOfTime
<1> QED BY <1>1, UnansweredStep DEF OutOfTime

(* Neither a late answer nor time touches anything the verdicts rest on. *)
LEMMA AsideStep == ASSUME LookupInv, LateAnswer \/ Tick PROVE LookupInv'
<1> USE DEF LookupInv
<1>1. /\ UNCHANGED <<proofs, public, liars, node, cache, box, run, verdict>>
      /\ left' \in 0 .. Budget \cup {Unset} /\ behind' \in Calls \cup {Empty}
  BY LookupAssumption DEF TypeOK, LateAnswer, Tick, world
<1>2. TypeOK'
  BY <1>1 DEF TypeOK
<1>3. CacheTrue' /\ CallTrue' /\ ProofTrue'
  BY <1>1 DEF CacheTrue, CallTrue, ProofTrue
<1>4. CompleteIsCarried' /\ FailedIsContradicted'
  BY <1>1 DEF CompleteIsCarried, FailedIsContradicted
<1> QED BY <1>2, <1>3, <1>4

LEMMA NextLookupInv == LookupInv /\ [Next]_vars => LookupInv'
<1> SUFFICES ASSUME LookupInv, [Next]_vars PROVE LookupInv'
  OBVIOUS
<1>1. CASE UNCHANGED vars
  <2>1. UNCHANGED <<proofs, public, liars, node, cache, left, box, behind, run, verdict>>
    BY <1>1 DEF vars
  <2>2. TypeOK'
    BY <2>1 DEF LookupInv, TypeOK
  <2>3. CacheTrue' /\ CallTrue' /\ ProofTrue'
    BY <2>1 DEF LookupInv, CacheTrue, CallTrue, ProofTrue
  <2>4. CompleteIsCarried' /\ FailedIsContradicted'
    BY <2>1 DEF LookupInv, CompleteIsCarried, FailedIsContradicted
  <2> QED BY <2>2, <2>3, <2>4 DEF LookupInv
<1>2. CASE Step
  BY <1>2, OpenProofStep, CompareStep, GiveUpStep, LookUpStep, NodeAnsweredStep, HashAnsweredStep,
     RawAnsweredStep, OutOfTimeStep
     DEF Step
<1> QED BY <1>1, <1>2, AnswerStep, AsideStep DEF Next

-----------------------------------------------------------------------------
(* In every state of a verify run, the types and what the cache, the call     *)
(* under way and the proof that is looked at are worth.                      *)
THEOREM LookupInvariant == Spec => []LookupInv
  BY InitLookupInv, NextLookupInv, PTL DEF Spec

(* A proof is called complete only if some Bitcoin block carries it, and, with *)
(* one honest source, the block of the height it names (_check, _from_public). *)
THEOREM LookupCompleteIsCarried == Spec => []CompleteIsCarried
  BY LookupInvariant, PTL DEF LookupInv

(* A proof is never failed for want of an answer (_Unanswered).              *)
THEOREM LookupFailedIsContradicted == Spec => []FailedIsContradicted
  BY LookupInvariant, PTL DEF LookupInv
=============================================================================
