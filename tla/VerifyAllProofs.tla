---------------------------- MODULE VerifyAllProofs ----------------------------
(***************************************************************************)
(* For any number of nodes, heights of Base and blocks of the ledger, and as *)
(* long as the nodes that lie are too few for a quorum of their own: a       *)
(* verified verdict is true of Base, and no older than verify itself.        *)
(*                                                                          *)
(* VerifyInv is the inductive invariant: Base grows and its nodes are behind  *)
(* it (World), and what verify_all has read so far, each part at the height   *)
(* it was read at, is still so at the height of now (Read).                  *)
(***************************************************************************)
EXTENDS VerifyAll, FiniteSetTheorems, TLAPS

(* The nodes that lie do not make a quorum. *)
Minority == MaxFaulty < Quorum

(* Base only grows, no node is ahead of it, and every node has got at least as *)
(* far as the slowest had when verify began.                                  *)
World ==
    /\ \A h, k \in Heights : h <= k /\ k <= height => base[h] <= base[k]
    /\ \A n \in Nodes : final[n] <= head[n] /\ head[n] <= height
    /\ \A n \in Nodes : floor <= base[final[n]]

(* What is known at each place of verify_all, unless something was found wrong. *)
Read ==
    /\ verdict # "none" => run.pc = "done"
    /\ run.pc \notin {"chain", "done"} => world.sound /\ run.capped = ~world.external
    /\ run.pc \in {"chain", "pins", "latest"} => run.i = 0
    /\ run.pc = "record" => InLoop
    /\ run.pc \in {"latest", "match", "record", "judge"} /\ run.wrong \cap {"unread", "pins"} = {} => world.pins
    /\ run.pc \in {"match", "record", "judge"} /\ "unread" \notin run.wrong =>
          /\ run.latest <= base[height]
          /\ world.faulty = {} => floor <= run.latest
          /\ "truncated" \notin run.wrong => run.latest <= world.local
          /\ "differs" \notin run.wrong => run.i <= world.fork
          /\ "differs" \notin run.wrong /\ run.pc = "record" => run.i < world.fork
          /\ run.pc = "judge" => ~InLoop

VerifyInv == TypeOK /\ World /\ Read /\ VerifiedIsAnchored /\ VerdictFresh

-----------------------------------------------------------------------------
(* A majority cannot consist of liars. *)
LEMMA HonestInMajority ==
    ASSUME Minority, TypeOK, NEW S \in Majorities
    PROVE  \E n \in S : n \in Nodes /\ n \notin world.faulty
<1>1. S \subseteq Nodes /\ Cardinality(S) >= Quorum
  BY DEF Majorities
<1>2. world.faulty \subseteq Nodes /\ Cardinality(world.faulty) <= MaxFaulty
  BY DEF TypeOK, Worlds
<1>3. IsFiniteSet(world.faulty) /\ IsFiniteSet(S)
  BY <1>1, <1>2, VerifyAssumption, FS_Subset
<1>4. Cardinality(S) \in Nat /\ Cardinality(world.faulty) \in Nat /\ Cardinality(Nodes) \in Nat
  BY <1>3, VerifyAssumption, FS_CardinalityType
<1>5. Quorum \in Nat
  BY <1>4 DEF Quorum
<1>6. ASSUME S \subseteq world.faulty PROVE FALSE
  <2>1. Cardinality(S) <= Cardinality(world.faulty)
    BY <1>3, <1>6, FS_Subset
  <2> QED BY <2>1, <1>1, <1>2, <1>4, <1>5, VerifyAssumption DEF Minority
<1> QED BY <1>1, <1>6

(* So whatever a quorum answers, an honest node that could answer said so. *)
LEMMA HonestAnswer ==
    ASSUME Minority, TypeOK, NEW able, NEW says, NEW domain, NEW v \in Answers(able, says, domain)
    PROVE  v \in domain /\ \E n \in Nodes \cap able : says[n] = v
<1>1. PICK S \in Majorities : S \ world.faulty \subseteq able /\ \A n \in S \ world.faulty : says[n] = v
  BY DEF Answers
<1>2. PICK n \in S : n \in Nodes /\ n \notin world.faulty
  BY HonestInMajority
<1> QED BY <1>1, <1>2 DEF Answers

(* The common block is no later than what some honest node holds final; with no *)
(* liar it is what some node holds final.                                      *)
LEMMA CommonBlock ==
    ASSUME Minority, TypeOK, NEW h \in CommonBlocks
    PROVE  /\ h \in Heights /\ \E n \in Nodes : h <= final[n]
           /\ world.faulty = {} => \E n \in Nodes : h = final[n]
<1>1. PICK S \in Majorities :
         /\ \E n \in S : n \in world.faulty \/ final[n] = h
         /\ \A n \in S \ world.faulty : final[n] >= h
  BY DEF CommonBlocks
<1>2. PICK n \in S : n \in Nodes /\ n \notin world.faulty
  BY HonestInMajority
<1>3. h \in Heights /\ S \subseteq Nodes
  BY DEF CommonBlocks, Majorities
<1>4. final[n] \in Nat /\ h \in Nat
  BY <1>2, <1>3 DEF TypeOK, Heights
<1>5. h <= final[n]
  BY <1>1, <1>2, <1>4
<1> QED BY <1>1, <1>2, <1>3, <1>5

(* An answered call has an answer of a quorum; the other way is to raise. *)
LEMMA GatherAnswer ==
    ASSUME NEW answer, NEW able, NEW says, NEW domain, Gather(answer, able, says, domain), answer # Silence
    PROVE  answer \in Answers(able, says, domain)
  BY DEF Gather

LEMMA LeastIsLeast ==
    ASSUME NEW S \in SUBSET Nat, S # {}
    PROVE  Least(S) \in S /\ \A y \in S : Least(S) <= y
<1> DEFINE R == {ss \in Nat \X Nat : ss[1] < ss[2]}
<1>1. IsWellFoundedOn(R, Nat)
  BY NatLessThanWellFounded DEF OpToRel
<1>2. PICK x \in S : \A y \in S : ~(<<y, x>> \in R)
  BY <1>1, WFMin
<1>3. ASSUME NEW y \in S, y < x PROVE FALSE
  <2>1. <<y, x>> \in Nat \X Nat /\ <<y, x>>[1] = y /\ <<y, x>>[2] = x
    OBVIOUS
  <2>2. <<y, x>> \in R
    BY <1>3, <2>1
  <2> QED BY <1>2, <2>2
<1>4. \A y \in S : x <= y
  BY <1>3
<1> QED BY <1>4 DEF Least

-----------------------------------------------------------------------------
LEMMA InitVerifyInv == Init => VerifyInv
<1> SUFFICES ASSUME Init PROVE VerifyInv
  OBVIOUS
<1>1. 1 \in Heights /\ 0 \in Index /\ 0 \in 0 .. MaxIndex + 1
  BY VerifyAssumption DEF Heights, Index
<1>2. TypeOK
  BY <1>1 DEF Init, TypeOK, Start, States
<1>3. World
  BY <1>1, VerifyAssumption DEF Init, World, Heights, Index
<1>4. Read /\ VerifiedIsAnchored /\ VerdictFresh
  BY DEF Init, Read, Start, VerifiedIsAnchored, VerdictFresh, Verified
<1> QED BY <1>2, <1>3, <1>4 DEF VerifyInv

(* Base grows: what was read stays so, and no block of before changes. *)
LEMMA GrowStep == ASSUME VerifyInv, Grow PROVE VerifyInv'
<1> USE DEF VerifyInv
<1>1. /\ height < MaxHeight /\ height' = height + 1
      /\ UNCHANGED <<final, head, world, run, floor, disagreed, verdict>>
  BY DEF Grow
<1>2. PICK up \in {0, 1} :
         base[height] + up \in Index /\ base' = [base EXCEPT ![height + 1] = base[height] + up]
  BY DEF Grow
<1>3. height \in Heights /\ height' \in Heights
  BY <1>1, VerifyAssumption DEF TypeOK, Heights
<1>4. TypeOK'
  BY <1>1, <1>2, <1>3 DEF TypeOK
<1>5. /\ \A h \in Heights : h <= height => base'[h] = base[h]
      /\ base'[height'] = base[height] + up /\ base[height] \in Nat
  BY <1>1, <1>2, <1>3 DEF TypeOK, Heights, Index
<1>6. base[height] <= base'[height']
  BY <1>5
<1>7. World'
  <2>1. ASSUME NEW h \in Heights, NEW k \in Heights, h <= k, k <= height'
        PROVE  base'[h] <= base'[k]
    <3>1. CASE k <= height
      <4>1. h <= height /\ base[h] <= base[k]
        BY <2>1, <3>1, <1>3 DEF World, Heights
      <4> QED BY <3>1, <4>1, <1>5
    <3>2. CASE k = height' /\ h <= height
      <4>1. height <= height
        BY <1>3 DEF Heights
      <4>2. base[h] <= base[height]
        BY <3>2, <1>3, <4>1 DEF World
      <4>3. base[h] \in Nat /\ base[height] \in Nat /\ base'[height'] \in Nat
        BY <1>3, <1>4 DEF TypeOK, Index
      <4>4. base[h] <= base'[height']
        BY <4>2, <4>3, <1>6
      <4> QED BY <3>2, <4>4, <1>5
    <3>3. CASE k = height' /\ h = height'
      BY <3>3, <1>3, <1>4 DEF TypeOK, Index
    <3> QED BY <2>1, <3>1, <3>2, <3>3, <1>1, <1>3 DEF Heights
  <2>2. ASSUME NEW n \in Nodes
        PROVE  final'[n] <= head'[n] /\ head'[n] <= height' /\ floor' <= base'[final'[n]]
    <3>1. final[n] \in Heights /\ head[n] \in Heights
      BY DEF TypeOK
    <3>2. final[n] <= head[n] /\ head[n] <= height /\ floor <= base[final[n]]
      BY DEF World
    <3>3. final[n] <= height /\ head[n] <= height'
      BY <3>1, <3>2, <1>1, <1>3 DEF Heights
    <3> QED BY <3>1, <3>2, <3>3, <1>1, <1>5
  <2> QED BY <2>1, <2>2 DEF World
<1>8. /\ run.latest <= base[height] => run.latest <= base'[height']
      /\ world.local <= base[height] => world.local <= base'[height']
  BY <1>3, <1>4, <1>5, <1>6 DEF TypeOK, Worlds, Index
<1>9. Read'
  BY <1>1, <1>8 DEF Read, InLoop
<1>10. VerifiedIsAnchored' /\ VerdictFresh'
  BY <1>1, <1>8 DEF VerifiedIsAnchored, VerdictFresh
<1> QED BY <1>4, <1>7, <1>9, <1>10

LEMMA FollowStep == ASSUME VerifyInv, NEW m \in Nodes, Follow(m) PROVE VerifyInv'
<1> USE DEF VerifyInv
<1>1. UNCHANGED <<height, base, world, run, floor, disagreed, verdict>>
  BY DEF Follow
<1>2. final[m] \in Heights /\ head[m] \in Heights /\ height \in Heights
      /\ final[m] <= head[m] /\ head[m] <= height
  BY DEF TypeOK, World
<1>3. /\ final' \in [Nodes -> Heights] /\ head' \in [Nodes -> Heights]
      /\ \A n \in Nodes : final[n] <= final'[n] /\ final'[n] <= head'[n] /\ head'[n] <= height
  <2>1. CASE head[m] < height /\ head' = [head EXCEPT ![m] = @ + 1] /\ UNCHANGED final
    <3>1. head[m] + 1 \in Heights /\ head[m] + 1 <= height
      BY <1>2, <2>1, VerifyAssumption DEF Heights
    <3>2. head' \in [Nodes -> Heights] /\ head'[m] = head[m] + 1 /\ \A n \in Nodes \ {m} : head'[n] = head[n]
      BY <2>1, <3>1 DEF TypeOK
    <3>3. \A n \in Nodes : final[n] \in Nat /\ head[n] \in Nat /\ final[n] <= head[n] /\ head[n] <= height
      BY DEF TypeOK, World, Heights
    <3> QED BY <2>1, <3>1, <3>2, <3>3 DEF TypeOK
  <2>2. CASE final[m] < head[m] /\ final' = [final EXCEPT ![m] = @ + 1] /\ UNCHANGED head
    <3>1. final[m] + 1 \in Heights /\ final[m] + 1 <= head[m]
      BY <1>2, <2>2, VerifyAssumption DEF Heights
    <3>2. final' \in [Nodes -> Heights] /\ final'[m] = final[m] + 1 /\ \A n \in Nodes \ {m} : final'[n] = final[n]
      BY <2>2, <3>1 DEF TypeOK
    <3>3. \A n \in Nodes : final[n] \in Nat /\ head[n] \in Nat /\ final[n] <= head[n] /\ head[n] <= height
      BY DEF TypeOK, World, Heights
    <3> QED BY <2>2, <3>1, <3>2, <3>3 DEF TypeOK
  <2> QED BY <2>1, <2>2 DEF Follow
<1>4. TypeOK'
  BY <1>1, <1>3 DEF TypeOK
<1>5. World'
  <2>1. ASSUME NEW n \in Nodes PROVE floor <= base[final'[n]]
    <3>1. /\ final[n] \in Heights /\ final'[n] \in Heights /\ final[n] <= final'[n] /\ final'[n] <= height
          /\ floor <= base[final[n]]
      BY <1>2, <1>3 DEF TypeOK, World, Heights
    <3>2. base[final[n]] <= base[final'[n]]
      BY <3>1 DEF World
    <3> QED BY <3>1, <3>2 DEF TypeOK, Index
  <2> QED BY <2>1, <1>1, <1>3 DEF World
<1>6. Read' /\ VerifiedIsAnchored' /\ VerdictFresh'
  BY <1>1 DEF Read, InLoop, VerifiedIsAnchored, VerdictFresh
<1> QED BY <1>4, <1>5, <1>6

(* The slowest node gives the floor of the new run. *)
LEMMA BeginStep == ASSUME VerifyInv, Begin PROVE VerifyInv'
<1> USE DEF VerifyInv
<1>1. /\ run' = Start /\ verdict' = "none" /\ disagreed' = FALSE
      /\ floor' = base[Least({final[n] : n \in Nodes})]
      /\ UNCHANGED <<height, base, final, head, world>>
  BY DEF Begin
<1> DEFINE F == {final[n] : n \in Nodes}
<1>2. F \in SUBSET Nat /\ F # {} /\ F \subseteq Heights
  BY VerifyAssumption DEF TypeOK, Heights
<1>3. Least(F) \in F /\ \A y \in F : Least(F) <= y
  BY <1>2, LeastIsLeast
<1>4. \A n \in Nodes : floor' <= base[final[n]]
  <2>1. ASSUME NEW n \in Nodes PROVE base[Least(F)] <= base[final[n]]
    <3>1. Least(F) \in Heights /\ final[n] \in Heights /\ Least(F) <= final[n]
      BY <1>2, <1>3
    <3>2. final[n] <= height
      BY <3>1 DEF World, TypeOK, Heights
    <3> QED BY <3>1, <3>2 DEF World
  <2> QED BY <2>1, <1>1
<1>5. floor' \in Index
  BY <1>1, <1>2, <1>3 DEF TypeOK
<1>6. TypeOK'
  <2>1. 0 \in Index /\ 0 \in 0 .. MaxIndex + 1
    BY VerifyAssumption DEF Index
  <2> QED BY <1>1, <1>5, <2>1 DEF TypeOK, Start, States
<1>7. World'
  BY <1>1, <1>4 DEF World
<1>8. Read' /\ VerifiedIsAnchored' /\ VerdictFresh'
  BY <1>1 DEF Read, Start, VerifiedIsAnchored, VerdictFresh, Verified
<1> QED BY <1>6, <1>7, <1>8

-----------------------------------------------------------------------------
(* The steps of verify_all read the world and leave it alone. *)
LEMMA WorldStays ==
    ASSUME World, UNCHANGED <<height, base, final, head, world, floor>> PROVE World'
  BY DEF World

(* One that gives no verdict yet. *)
LEMMA NoVerdictYet ==
    ASSUME VerifyInv, verdict' = "none" PROVE VerifiedIsAnchored' /\ VerdictFresh'
  BY DEF VerifiedIsAnchored, VerdictFresh, Verified

LEMMA CheckChainStep == ASSUME VerifyInv, CheckChain PROVE VerifyInv'
<1> USE DEF VerifyInv
<1>1. UNCHANGED <<height, base, final, head, world, floor, disagreed>> /\ run.pc = "chain" /\ World'
  BY WorldStays DEF CheckChain
<1>2. CASE Ends("INVALID")
  BY <1>1, <1>2 DEF Ends, Goto, TypeOK, States, Read, VerifiedIsAnchored, VerdictFresh, Verified
<1>3. CASE world.sound /\ UNCHANGED verdict /\ run' = [run EXCEPT !.pc = "pins", !.capped = ~world.external]
  <2>1. TypeOK'
    BY <1>1, <1>3 DEF TypeOK, Worlds
  <2>2. verdict' = "none" /\ run'.pc = "pins" /\ run'.capped = ~world.external
    BY <1>1, <1>3 DEF Read, TypeOK
  <2>3. Read'
    BY <1>1, <1>3, <2>2 DEF Read, TypeOK
  <2> QED BY <1>1, <2>1, <2>2, <2>3, NoVerdictYet
<1> QED BY <1>2, <1>3 DEF CheckChain

LEMMA GatherType ==
    ASSUME TypeOK, NEW answer, NEW able, NEW says, NEW domain, Gather(answer, able, says, domain)
    PROVE  disagreed' \in BOOLEAN
  BY DEF Gather, TypeOK

LEMMA ReadPinsStep == ASSUME Minority, VerifyInv, ReadPins PROVE VerifyInv'
<1> USE DEF VerifyInv
<1> DEFINE says == [n \in Nodes |-> world.pins]
<1>1. PICK answer \in BOOLEAN \cup {Silence} :
          /\ Gather(answer, Nodes, says, BOOLEAN)
          /\ \/ answer = TRUE /\ Goto("latest")
             \/ answer = FALSE /\ Blame("pins", "latest")
             \/ answer = Silence /\ Blame("unread", "latest")
  BY DEF ReadPins
<1>2. UNCHANGED <<height, base, final, head, world, floor, verdict>> /\ run.pc = "pins" /\ verdict = "none"
  BY DEF ReadPins, Read
<1>3. answer = TRUE => world.pins
  <2>1. SUFFICES ASSUME answer = TRUE PROVE world.pins
    OBVIOUS
  <2>2. answer # Silence
    BY <2>1, VerifyAssumption
  <2>3. answer \in Answers(Nodes, says, BOOLEAN)
    BY <1>1, <2>2, GatherAnswer
  <2>4. PICK n \in Nodes : says[n] = answer
    BY <2>3, HonestAnswer
  <2> QED BY <2>1, <2>4
<1>4. disagreed' \in BOOLEAN
  BY <1>1, GatherType
<1>5. PICK wrong \in SUBSET Reasons :
         /\ run' = [run EXCEPT !.pc = "latest", !.wrong = wrong]
         /\ wrong \cap {"unread", "pins"} = {} => world.pins
  <2>1. CASE answer = TRUE /\ Goto("latest")
    BY <2>1, <1>3 DEF Goto, TypeOK
  <2>2. CASE Blame("pins", "latest")
    <3>1. run.wrong \cup {"pins"} \in SUBSET Reasons
      BY DEF TypeOK, Reasons
    <3> QED BY <2>2, <3>1 DEF Blame
  <2>3. CASE Blame("unread", "latest")
    <3>1. run.wrong \cup {"unread"} \in SUBSET Reasons
      BY DEF TypeOK, Reasons
    <3> QED BY <2>3, <3>1 DEF Blame
  <2> QED BY <1>1, <2>1, <2>2, <2>3
<1>6. TypeOK'
  BY <1>2, <1>4, <1>5 DEF TypeOK
<1>7. run'.pc = "latest" /\ run'.wrong = wrong /\ run'.capped = run.capped /\ run'.i = run.i
  BY <1>5 DEF TypeOK
<1>8. Read'
  BY <1>2, <1>5, <1>7 DEF Read
<1> QED BY <1>2, <1>6, <1>8, WorldStays, NoVerdictYet

(* latestIndex of the common block: no more than Base has by now, and, with no *)
(* liar, no less than every node held final when verify began.                *)
LEMMA LatestIndexTrue ==
    ASSUME Minority, TypeOK, World, NEW answer \in Index, LatestIndex(answer)
    PROVE  answer <= base[height] /\ (world.faulty = {} => floor <= answer)
<1>0. answer # Silence
  BY VerifyAssumption DEF Index
<1>1. PICK h \in CommonBlocks : Gather(answer, Has(h), [n \in Nodes |-> base[h]], Index)
  BY <1>0 DEF LatestIndex
<1> DEFINE says == [n \in Nodes |-> base[h]]
<1>2. PICK n \in Nodes \cap Has(h) : says[n] = answer
  BY <1>0, <1>1, GatherAnswer, HonestAnswer
<1>3. h \in Heights /\ height \in Heights /\ answer = base[h]
  BY <1>2, CommonBlock DEF TypeOK
<1>4. h <= height
  BY <1>2, <1>3 DEF Has, TypeOK, World, Heights
<1>5. base[h] <= base[height]
  BY <1>3, <1>4 DEF World, Heights
<1>6. world.faulty = {} => floor <= base[h]
  BY CommonBlock DEF World
<1> QED BY <1>3, <1>5, <1>6

LEMMA ReadLatestStep == ASSUME Minority, VerifyInv, ReadLatest PROVE VerifyInv'
<1> USE DEF VerifyInv
<1>1. PICK answer \in Index \cup {Silence} :
          /\ LatestIndex(answer)
          /\ \/ answer = Silence /\ Blame("unread", "judge")
             \/ answer \in 0 .. world.local
                /\ run' = [run EXCEPT !.pc = "match", !.latest = answer]
             \/ answer \in world.local + 1 .. MaxIndex
                /\ run' = [run EXCEPT !.pc = "match", !.latest = answer, !.wrong = @ \cup {"truncated"}]
  BY DEF ReadLatest
<1>2. UNCHANGED <<height, base, final, head, world, floor, verdict>> /\ run.pc = "latest" /\ verdict = "none"
  BY DEF ReadLatest, Read
<1>3. disagreed' \in BOOLEAN
  BY <1>1, GatherType DEF LatestIndex, TypeOK
<1>4. CASE Blame("unread", "judge")
  <2>1. run.wrong \cup {"unread"} \in SUBSET Reasons
    BY DEF TypeOK, Reasons
  <2>2. run' = [run EXCEPT !.pc = "judge", !.wrong = run.wrong \cup {"unread"}]
    BY <1>4 DEF Blame
  <2>3. TypeOK'
    BY <1>2, <1>3, <2>1, <2>2 DEF TypeOK
  <2>4. run'.pc = "judge" /\ run'.wrong = run.wrong \cup {"unread"} /\ run'.capped = run.capped
    BY <2>2 DEF TypeOK
  <2>5. Read'
    BY <1>2, <2>4 DEF Read
  <2> QED BY <1>2, <2>3, <2>5, WorldStays, NoVerdictYet
<1>5. ASSUME answer \in Index, NEW wrong \in SUBSET Reasons,
             run' = [run EXCEPT !.pc = "match", !.latest = answer, !.wrong = wrong],
             run.wrong \subseteq wrong, "truncated" \notin wrong => answer <= world.local
      PROVE  VerifyInv'
  <2>1. answer <= base[height] /\ (world.faulty = {} => floor <= answer)
    BY <1>1, <1>5, LatestIndexTrue
  <2>2. TypeOK'
    BY <1>2, <1>3, <1>5 DEF TypeOK
  <2>3. /\ run'.pc = "match" /\ run'.latest = answer /\ run'.wrong = wrong /\ run'.capped = run.capped
        /\ run'.i = run.i
    BY <1>5 DEF TypeOK
  <2>4. run.i = 0 => run'.i <= world.fork
    BY <2>3, VerifyAssumption DEF TypeOK, Worlds
  <2>5. run.i = 0
    BY <1>2 DEF Read
  <2>6. Read'
    BY <1>2, <1>5, <2>1, <2>3, <2>4, <2>5 DEF Read
  <2> QED BY <1>2, <2>2, <2>6, WorldStays, NoVerdictYet
<1>6. CASE answer \in 0 .. world.local /\ run' = [run EXCEPT !.pc = "match", !.latest = answer]
  <2>1. run.wrong \in SUBSET Reasons /\ run' = [run EXCEPT !.pc = "match", !.latest = answer, !.wrong = run.wrong]
    BY <1>6 DEF TypeOK
  <2>2. answer <= world.local /\ answer \in Index
    BY <1>6, VerifyAssumption DEF TypeOK, Worlds, Index
  <2> QED BY <1>5, <2>1, <2>2
<1>7. CASE /\ answer \in world.local + 1 .. MaxIndex
           /\ run' = [run EXCEPT !.pc = "match", !.latest = answer, !.wrong = @ \cup {"truncated"}]
  <2>1. run.wrong \cup {"truncated"} \in SUBSET Reasons /\ answer \in Index
    BY <1>7, VerifyAssumption DEF TypeOK, Worlds, Index, Reasons
  <2> QED BY <1>5, <1>7, <2>1
<1> QED BY <1>1, <1>4, <1>6, <1>7

(* A TRUE of matches is so of some honest node's common block. *)
LEMMA MatchesTrue ==
    ASSUME Minority, TypeOK, NEW i \in 0 .. MaxIndex + 1, NEW answer, answer = TRUE,
           Matches(i, answer)
    PROVE  i < world.fork
<1>0. answer # Silence
  BY VerifyAssumption
<1>1. PICK h \in CommonBlocks : Gather(answer, Has(h), [n \in Nodes |-> MatchesAt(i, h)], BOOLEAN)
  BY <1>0 DEF Matches
<1> DEFINE says == [n \in Nodes |-> MatchesAt(i, h)]
<1> HIDE DEF says
<1>2. PICK S \in Majorities : \A n \in S \ world.faulty : says[n] = answer
  <2>1. answer \in Answers(Has(h), says, BOOLEAN)
    BY <1>0, <1>1, GatherAnswer DEF says
  <2> QED BY <2>1 DEF Answers
<1>3. PICK n \in S : n \in Nodes /\ says[n] = answer
  <2>1. PICK n \in S : n \in Nodes /\ n \notin world.faulty
    BY HonestInMajority
  <2> QED BY <1>2, <2>1
<1>4. MatchesAt(i, h)
  BY <1>3 DEF says
<1> QED BY <1>4 DEF MatchesAt

(* A loop step that goes on to the next block. *)
LEMMA NextBlockStep ==
    ASSUME VerifyInv, NEW wrong \in SUBSET Reasons, NextBlock(wrong), InLoop,
           run.pc \in {"match", "record"}, UNCHANGED <<height, base, final, head, world, floor, verdict>>,
           disagreed' \in BOOLEAN, run.pc = "record" \/ "differs" \in wrong
    PROVE  VerifyInv'
<1> USE DEF VerifyInv
<1>1. run.i + 1 \in 0 .. MaxIndex + 1
  BY VerifyAssumption DEF InLoop, TypeOK, Index
<1>2. run' = [run EXCEPT !.pc = "match", !.i = run.i + 1, !.wrong = run.wrong \cup wrong]
  BY DEF NextBlock, TypeOK
<1>3. run.wrong \cup wrong \in SUBSET Reasons
  BY DEF TypeOK
<1>4. TypeOK'
  BY <1>1, <1>2, <1>3 DEF TypeOK
<1>5. /\ run'.pc = "match" /\ run'.i = run.i + 1 /\ run'.wrong = run.wrong \cup wrong
      /\ run'.latest = run.latest /\ run'.capped = run.capped
  BY <1>2 DEF TypeOK
<1>6. "differs" \notin run'.wrong /\ "unread" \notin run'.wrong => run.i < world.fork
  BY <1>5 DEF Read
<1>7. run.i < world.fork => run.i + 1 <= world.fork
  BY DEF TypeOK, Worlds
<1>8. Read'
  BY <1>5, <1>6, <1>7 DEF Read
<1> QED BY <1>4, <1>8, WorldStays, NoVerdictYet DEF Read

LEMMA MatchBlockStep == ASSUME Minority, VerifyInv, MatchBlock PROVE VerifyInv'
<1> USE DEF VerifyInv
<1>1. PICK answer \in BOOLEAN \cup {Silence} :
          /\ Matches(run.i, answer)
          /\ \/ answer = TRUE /\ Goto("record") /\ UNCHANGED verdict
             \/ answer = FALSE /\ NextBlock({"differs"}) /\ UNCHANGED verdict
             \/ answer = Silence /\ Ends("crash")
  BY DEF MatchBlock
<1>2. UNCHANGED <<height, base, final, head, world, floor>> /\ run.pc = "match" /\ InLoop /\ World'
  BY WorldStays DEF MatchBlock
<1>3. disagreed' \in BOOLEAN
  BY <1>1, GatherType DEF Matches, TypeOK
<1>4. CASE answer = TRUE /\ Goto("record") /\ UNCHANGED verdict
  <2>1. run.i < world.fork
    BY <1>1, <1>4, MatchesTrue DEF TypeOK
  <2>2. run' = [run EXCEPT !.pc = "record"]
    BY <1>4 DEF Goto
  <2>3. TypeOK'
    BY <1>2, <1>3, <1>4, <2>2 DEF TypeOK
  <2>4. /\ run'.pc = "record" /\ run'.i = run.i /\ run'.wrong = run.wrong
        /\ run'.latest = run.latest /\ run'.capped = run.capped
    BY <2>2 DEF TypeOK
  <2>5. Read'
    BY <1>2, <1>4, <2>1, <2>4 DEF Read, InLoop
  <2> QED BY <1>2, <1>4, <2>3, <2>5, NoVerdictYet DEF Read
<1>5. CASE NextBlock({"differs"}) /\ UNCHANGED verdict
  <2>1. {"differs"} \in SUBSET Reasons
    BY DEF Reasons
  <2> QED BY <1>2, <1>3, <1>5, <2>1, NextBlockStep
<1>6. CASE Ends("crash")
  BY <1>2, <1>3, <1>6 DEF Ends, Goto, TypeOK, States, Read, VerifiedIsAnchored, VerdictFresh, Verified
<1> QED BY <1>1, <1>4, <1>5, <1>6

LEMMA ReadRecordStep == ASSUME VerifyInv, ReadRecord PROVE VerifyInv'
<1> USE DEF VerifyInv
<1>1. PICK answer \in BOOLEAN \cup {Silence} :
          Record(run.i, answer) /\ NextBlock(IF answer = FALSE THEN {"record"} ELSE {})
  BY DEF ReadRecord
<1>2. UNCHANGED <<height, base, final, head, world, floor, verdict>> /\ run.pc = "record"
  BY DEF ReadRecord
<1>3. disagreed' \in BOOLEAN
  BY <1>1, GatherType DEF Record
<1>4. PICK wrong \in SUBSET Reasons : NextBlock(wrong)
  BY <1>1 DEF Reasons
<1> QED BY <1>2, <1>3, <1>4, NextBlockStep DEF Read

LEMMA LoopEndsStep == ASSUME VerifyInv, LoopEnds PROVE VerifyInv'
<1> USE DEF VerifyInv
<1>1. /\ UNCHANGED <<height, base, final, head, world, floor, disagreed, verdict>>
      /\ run.pc = "match" /\ ~InLoop /\ run' = [run EXCEPT !.pc = "judge"]
  BY DEF LoopEnds, Goto
<1>2. TypeOK'
  BY <1>1 DEF TypeOK
<1>3. /\ run'.pc = "judge" /\ run'.i = run.i /\ run'.wrong = run.wrong
      /\ run'.latest = run.latest /\ run'.capped = run.capped
  BY <1>1 DEF TypeOK
<1>4. Read'
  BY <1>1, <1>3 DEF Read, InLoop
<1> QED BY <1>1, <1>2, <1>4, WorldStays, NoVerdictYet DEF Read

(* Every block on disk has been asked for, and none of the answers was wrong. *)
LEMMA JudgeStep == ASSUME VerifyInv, Judge PROVE VerifyInv'
<1> USE DEF VerifyInv
<1>1. UNCHANGED <<height, base, final, head, world, floor, disagreed>> /\ run.pc = "judge" /\ World'
  BY WorldStays DEF Judge
<1>2. PICK state \in {"INVALID", "VALID_LOCALLY", "BASE_VERIFIED", "FULLY_VERIFIED"} :
         /\ Ends(state)
         /\ state \in Verified => run.wrong = {} /\ world.local <= run.latest /\ ~run.capped
         /\ state = "FULLY_VERIFIED" => world.bitcoin = "complete"
  BY DEF Judge, Verified
<1>3. verdict' = state /\ run' = [run EXCEPT !.pc = "done"]
  BY <1>2 DEF Ends, Goto
<1>4. TypeOK'
  BY <1>1, <1>3 DEF TypeOK, States
<1>5. Read'
  BY <1>3 DEF Read, TypeOK
<1>6. state \in Verified =>
         /\ world.sound /\ world.pins /\ world.external
         /\ run.latest <= base[height] /\ run.latest <= world.local
         /\ run.i <= world.fork /\ ~InLoop
         /\ world.faulty = {} => floor <= run.latest
  BY <1>1, <1>2 DEF Read
<1>7. state \in Verified =>
         /\ world.local <= base[height] /\ world.local < world.fork
         /\ world.faulty = {} => floor <= world.local
  <2>1. /\ run.latest \in Nat /\ world.local \in Nat /\ run.i \in Nat /\ world.fork \in Nat
        /\ base[height] \in Nat /\ floor \in Nat
    BY DEF TypeOK, Worlds, Index
  <2> QED BY <1>2, <1>6, <2>1 DEF InLoop
<1>8. VerifiedIsAnchored'
  BY <1>1, <1>2, <1>3, <1>6, <1>7 DEF VerifiedIsAnchored, Verified
<1>9. VerdictFresh'
  BY <1>1, <1>3, <1>7 DEF VerdictFresh
<1> QED BY <1>1, <1>4, <1>5, <1>8, <1>9

LEMMA NextVerifyInv == ASSUME Minority PROVE VerifyInv /\ [Next]_vars => VerifyInv'
<1> SUFFICES ASSUME VerifyInv, [Next]_vars PROVE VerifyInv'
  OBVIOUS
<1>1. CASE UNCHANGED vars
  <2>1. UNCHANGED <<height, base, final, head, world, run, floor, disagreed, verdict>>
    BY <1>1 DEF vars
  <2>2. TypeOK' /\ World'
    BY <2>1 DEF VerifyInv, TypeOK, World
  <2>3. Read' /\ VerifiedIsAnchored' /\ VerdictFresh'
    BY <2>1 DEF VerifyInv, Read, InLoop, VerifiedIsAnchored, VerdictFresh
  <2> QED BY <2>2, <2>3 DEF VerifyInv
<1> QED
  BY <1>1, GrowStep, FollowStep, BeginStep, CheckChainStep, ReadPinsStep, ReadLatestStep, MatchBlockStep,
     ReadRecordStep, LoopEndsStep, JudgeStep
     DEF Next

-----------------------------------------------------------------------------
(* While Base grows under verify_all and its nodes follow at their own pace,  *)
(* what was read stays true of it.                                           *)
THEOREM VerifyInvariant == ASSUME Minority PROVE Spec => []VerifyInv
  BY InitVerifyInv, NextVerifyInv, PTL DEF Spec

(* Under liars that are too few for a quorum, a verified verdict is true: every *)
(* block on disk is anchored on Base with its own hash.                      *)
THEOREM VerifyVerifiedIsAnchored == ASSUME Minority PROVE Spec => []VerifiedIsAnchored
<1>1. VerifyInv => VerifiedIsAnchored
  BY DEF VerifyInv
<1> QED BY <1>1, VerifyInvariant, PTL

(* With no liar, no copy that ends before what all nodes held is verified.    *)
THEOREM VerifyVerdictFresh == ASSUME Minority PROVE Spec => []VerdictFresh
<1>1. VerifyInv => VerdictFresh
  BY DEF VerifyInv
<1> QED BY <1>1, VerifyInvariant, PTL
=============================================================================
