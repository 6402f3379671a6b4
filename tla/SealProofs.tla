------------------------------ MODULE SealProofs ------------------------------
(***************************************************************************)
(* For any machines, lines, documents and number of blocks: no document is  *)
(* sealed twice, and the app is told nothing that is not so.  Both hold     *)
(* because of what every request, wherever it lies, says of the search it   *)
(* was made after (RequestsKnow); together they are inductive.  What one    *)
(* machine knows depends on main only through the blocks, which grow, so     *)
(* that a step of another machine, or of block.yml, leaves it true; the      *)
(* steps of a machine are taken one by one.                                 *)
(***************************************************************************)
EXTENDS Seal, SequenceTheorems, TLAPS

SealInv == TypeOK /\ SealedOnce /\ ReportsTrue /\ RequestsKnow

LEMMA IdleKnows == Idle \in Commands /\ Idle.pc = "idle" /\ Idle.req = NoFile
  BY DEF Idle, Commands

-----------------------------------------------------------------------------
(* What a request r, and a checkout b with the command c in it, know of the   *)
(* blocks B.                                                                 *)
Knowing(B, r) ==
    r \in Requests => /\ r.index <= Len(B) + 1
                      /\ \A i \in 1 .. Len(B) : i < r.index => B[i].doc # r.doc
Sealing(B, b, doc) == {i \in 1 .. b.height : B[i].doc = doc}
MachineKnowing(B, b, c) ==
    /\ b.height <= Len(B)
    /\ Knowing(B, b.head) /\ Knowing(B, b.file) /\ Knowing(B, c.req)
    /\ c.pc # "idle" => c.line \in Sealed
    /\ c.pc = "write" => Sealing(B, b, c.line.doc) = {}
    /\ c.pc = "report" =>
          \A i \in Sealing(B, b, c.line.doc) :
             (\A j \in Sealing(B, b, c.line.doc) : i <= j) => B[i] = c.line
    /\ c.pc \in {"check", "commit"} => b.file \in Requests
    /\ c.pc = "rewrite" => c.req \in Requests

LEMMA KnowsUnfold == \A r : Knows(r) <=> Knowing(blocks, r)
  BY DEF Knows, Knowing
LEMMA WaitingUnfold == Knows(waiting)' <=> Knowing(blocks', waiting')
  BY DEF Knows, Knowing
LEMMA MachineUnfold ==
    ASSUME NEW m \in Machines
    PROVE  /\ MachineKnows(m) <=> MachineKnowing(blocks, box[m], cmd[m])
           /\ MachineKnows(m)' <=> MachineKnowing(blocks', box'[m], cmd'[m])
<1>1. MachineKnows(m) <=> MachineKnowing(blocks, box[m], cmd[m])
  BY DEF MachineKnows, MachineKnowing, Knows, Knowing, Holds, Sealing, First, SameKind
<1>2. MachineKnows(m)' <=> MachineKnowing(blocks', box'[m], cmd'[m])
  BY DEF MachineKnows, MachineKnowing, Knows, Knowing, Holds, Sealing, First, SameKind
<1> QED BY <1>1, <1>2

LEMMA InitSealInv == Init => SealInv
<1> SUFFICES ASSUME Init PROVE SealInv
  OBVIOUS
<1> DEFINE b == [fresh |-> TRUE, height |-> 0, head |-> NoFile, file |-> NoFile, ahead |-> {}]
<1>0. b \in Checkouts /\ \A m \in Machines : box[m] = b /\ cmd[m] = Idle
  <2>1. 0 \in 0 .. MaxBlocks
    BY SealAssumption
  <2> QED BY <2>1 DEF Init, Checkouts
<1>1. TypeOK
  <2>1. blocks \in Seq(Sealed) /\ Len(blocks) <= MaxBlocks
    BY SealAssumption DEF Init
  <2>2. box \in [Machines -> Checkouts] /\ cmd \in [Machines -> Commands]
    BY <1>0, IdleKnows DEF Init
  <2>3. accidents \in 0 .. MaxAccidents
    BY SealAssumption DEF Init
  <2> QED BY <2>1, <2>2, <2>3 DEF Init, TypeOK
<1>2. SealedOnce /\ ReportsTrue /\ Knows(waiting)
  BY FileAssumption DEF Init, SealedOnce, ReportsTrue, Knows
<1>3. \A m \in Machines : MachineKnows(m)
  <2>1. MachineKnowing(<<>>, b, Idle)
    <3>1. Len(<<>>) = 0 /\ NoFile \notin Requests
      BY FileAssumption
    <3> QED BY <3>1, IdleKnows DEF MachineKnowing, Knowing
  <2> QED BY <1>0, <2>1, MachineUnfold DEF Init
<1> QED BY <1>1, <1>2, <1>3 DEF SealInv, RequestsKnow

-----------------------------------------------------------------------------
(* A machine whose checkout changed in nothing but its freshness, and whose *)
(* commits became others, knows what it knew.                              *)
LEMMA StaysKnown ==
    ASSUME SealInv, NEW m \in Machines, blocks' = blocks, cmd'[m] = cmd[m],
           box'[m].height = box[m].height, box'[m].head = box[m].head, box'[m].file = box[m].file
    PROVE  MachineKnows(m)'
  BY DEF SealInv, RequestsKnow, MachineKnows, Knows, Holds, First, SameKind

(* One that stops, keeping its files. *)
LEMMA StopKnows ==
    ASSUME SealInv, NEW m \in Machines, blocks' = blocks, Stop(m), box'[m] = box[m]
    PROVE  MachineKnows(m)' /\ cmd' \in [Machines -> Commands]
<1>1. cmd'[m] = Idle /\ cmd' \in [Machines -> Commands]
  BY IdleKnows DEF Stop, SealInv, RequestsKnow, TypeOK
<1>2. MachineKnows(m)
  BY DEF SealInv, RequestsKnow
<1> QED BY <1>1, <1>2, IdleKnows, FileAssumption DEF MachineKnows, Knows

(* A command that goes on. *)
LEMMA GotoType ==
    ASSUME SealInv, NEW m \in Machines,
           NEW pc \in {"find", "report", "write", "check", "commit", "push"}, Goto(m, pc)
    PROVE  /\ cmd' \in [Machines -> Commands]
           /\ cmd'[m] = [cmd[m] EXCEPT !.pc = pc] /\ cmd'[m].pc = pc
           /\ cmd'[m].line = cmd[m].line /\ cmd'[m].req = cmd[m].req
  BY DEF Goto, SealInv, RequestsKnow, TypeOK, Commands

LEMMA OthersCmd ==
    ASSUME SealInv, NEW m \in Machines, NEW n \in Machines, n # m,
           Stop(m) \/ \E pc \in {"find", "report", "write", "check", "commit", "push"} : Goto(m, pc)
    PROVE  cmd'[n] = cmd[n]
  BY DEF Stop, Goto, SealInv, RequestsKnow, TypeOK

-----------------------------------------------------------------------------
(* Each kind of step.  What is asked of it: the types, what was reported, the *)
(* request of main, and what each machine knows.                             *)
Kept == TypeOK' /\ ReportsTrue' /\ Knows(waiting)' /\ \A m \in Machines : MachineKnows(m)'

(* A step of one machine that touches neither main nor the others. *)
LEMMA LocalStep ==
    ASSUME SealInv, NEW m \in Machines, UNCHANGED main,
           accidents' \in 0 .. MaxAccidents,
           box' \in [Machines -> Checkouts], cmd' \in [Machines -> Commands],
           \A n \in Machines \ {m} : box'[n] = box[n] /\ cmd'[n] = cmd[n],
           MachineKnows(m)'
    PROVE  Kept
<1>1. \A n \in Machines \ {m} : MachineKnows(n)'
  BY StaysKnown DEF main
<1>2. ReportsTrue' /\ Knows(waiting)'
  BY DEF SealInv, RequestsKnow, main, ReportsTrue, Knows
<1>3. TypeOK'
  BY DEF SealInv, RequestsKnow, main, TypeOK
<1> QED BY <1>1, <1>2, <1>3 DEF Kept

(* A machine that stops and touches nothing. *)
LEMMA StopStep ==
    ASSUME SealInv, NEW m \in Machines, Stop(m), UNCHANGED <<main, box>>,
           accidents' \in 0 .. MaxAccidents
    PROVE  Kept
<1>1. blocks' = blocks /\ box'[m] = box[m] /\ box' \in [Machines -> Checkouts]
  BY DEF main, SealInv, RequestsKnow, TypeOK
<1>2. MachineKnows(m)' /\ cmd' \in [Machines -> Commands]
  BY <1>1, StopKnows
<1>3. \A n \in Machines \ {m} : box'[n] = box[n] /\ cmd'[n] = cmd[n]
  BY OthersCmd
<1> QED BY <1>1, <1>2, <1>3, LocalStep

LEMMA StartStep ==
    ASSUME SealInv, NEW m \in Machines, NEW l \in Lines[m], Start(m, l)
    PROVE  Kept
<1>1. l \in Sealed
  BY SealAssumption DEF Sealed
<1> DEFINE c == [pc |-> "sync", line |-> l, req |-> NoFile]
<1>2. c \in Commands
  BY <1>1 DEF Commands
<1>3. cmd' = [cmd EXCEPT ![m] = c] /\ UNCHANGED <<main, box, accidents>>
  BY DEF Start
<1>4. cmd' \in [Machines -> Commands] /\ cmd'[m] = c
  BY <1>2, <1>3 DEF SealInv, RequestsKnow, TypeOK
<1>5. MachineKnows(m)'
  BY <1>1, <1>3, <1>4, FileAssumption DEF SealInv, RequestsKnow, MachineKnows, Knows, main
<1> QED BY <1>3, <1>4, <1>5, LocalStep DEF SealInv, RequestsKnow, TypeOK

(* The checkout of main's tip. *)
LEMMA TipKnows ==
    ASSUME SealInv, NEW m \in Machines, NEW b \in Checkouts,
           b.height = Len(blocks), b.head = waiting, b.file \in {waiting, box[m].file},
           UNCHANGED main,
           box' = [box EXCEPT ![m] = b], cmd'[m].pc \in {"idle", "find"}, cmd'[m].req = cmd[m].req,
           cmd'[m].pc # "idle" => cmd'[m].line \in Sealed
    PROVE  MachineKnows(m)'
<1>1. box'[m] = b /\ blocks' = blocks
  BY DEF SealInv, RequestsKnow, TypeOK, main
<1>2. Knows(waiting) /\ MachineKnows(m)
  BY DEF SealInv, RequestsKnow
<1>3. Len(blocks) \in Nat
  BY DEF SealInv, RequestsKnow, TypeOK
<1> QED BY <1>1, <1>2, <1>3 DEF MachineKnows, Knows

LEMMA SyncStep ==
    ASSUME SealInv, NEW m \in Machines, Sync(m)
    PROVE  Kept
<1> DEFINE b == box[m]
<1>0. UNCHANGED <<main, accidents>> /\ accidents' \in 0 .. MaxAccidents /\ cmd[m].line \in Sealed
  BY DEF Sync, SealInv, RequestsKnow, TypeOK, MachineKnows
<1>1. CASE Stop(m) /\ UNCHANGED box
  BY <1>0, <1>1, StopStep
<1>2. CASE Goto(m, "find") /\ UNCHANGED box
  <2>1. MachineKnows(m)'
    <3>1. MachineKnowing(blocks, box[m], cmd[m])
      BY MachineUnfold DEF SealInv, RequestsKnow
    <3>2. MachineKnowing(blocks', box'[m], cmd'[m])
      BY <1>0, <1>2, <3>1, GotoType DEF MachineKnowing, main
    <3> QED BY <3>2, MachineUnfold
  <2>2. \A n \in Machines \ {m} : box'[n] = box[n] /\ cmd'[n] = cmd[n]
    BY <1>2, OthersCmd
  <2> QED BY <1>0, <1>2, <2>1, <2>2, GotoType, LocalStep DEF SealInv, RequestsKnow, TypeOK
<1>3. CASE Goto(m, "find") /\ box' = [box EXCEPT ![m] = Pulled(b)]
  <2>1. b \in Checkouts /\ Len(blocks) \in 0 .. MaxBlocks /\ waiting \in Requests \cup {NoFile}
    BY DEF SealInv, RequestsKnow, TypeOK
  <2>2. Pulled(b) \in Checkouts
    BY <2>1 DEF Pulled, Checkouts
  <2>3. /\ Pulled(b).height = Len(blocks) /\ Pulled(b).head = waiting
        /\ Pulled(b).file \in {waiting, b.file}
    BY <2>1 DEF Pulled, Checkouts
  <2>4. /\ cmd' \in [Machines -> Commands] /\ cmd'[m].pc = "find"
        /\ cmd'[m].req = cmd[m].req /\ cmd'[m].line = cmd[m].line
    BY <1>3, GotoType
  <2>5. MachineKnows(m)'
    BY <1>0, <1>3, <2>2, <2>3, <2>4, TipKnows
  <2>6. \A n \in Machines \ {m} : box'[n] = box[n] /\ cmd'[n] = cmd[n]
    BY <1>3, OthersCmd DEF SealInv, RequestsKnow, TypeOK
  <2>7. box' \in [Machines -> Checkouts]
    BY <1>3, <2>2 DEF SealInv, RequestsKnow, TypeOK
  <2> QED BY <1>0, <2>4, <2>5, <2>6, <2>7, LocalStep
<1> QED BY <1>1, <1>2, <1>3 DEF Sync

LEMMA FindStep ==
    ASSUME SealInv, NEW m \in Machines, Find(m)
    PROVE  Kept
<1>0. /\ UNCHANGED <<main, accidents>> /\ accidents' \in 0 .. MaxAccidents
      /\ blocks' = blocks /\ cmd[m].line \in Sealed /\ MachineKnows(m)
      /\ box \in [Machines -> Checkouts]
  BY DEF Find, SealInv, RequestsKnow, TypeOK, MachineKnows, main
<1>1. CASE Stop(m) /\ UNCHANGED box
  BY <1>0, <1>1, StopStep
<1>2. ASSUME NEW i \in First(m), SameKind(m, i), Goto(m, "report"), UNCHANGED box
      PROVE  Kept
  <2>1. \A j \in First(m) : j = i
    BY <1>0, <1>2 DEF First, Holds, Checkouts
  <2>2. MachineKnows(m)'
    <3>1. \A j \in Sealing(blocks, box[m], cmd[m].line.doc) :
             (\A k \in Sealing(blocks, box[m], cmd[m].line.doc) : j <= k) => blocks[j] = cmd[m].line
      BY <1>2, <2>1 DEF First, Holds, Sealing, SameKind
    <3>2. MachineKnowing(blocks, box[m], cmd[m])
      BY <1>0, MachineUnfold
    <3>3. MachineKnowing(blocks', box'[m], cmd'[m])
      BY <1>0, <1>2, <3>1, <3>2, GotoType DEF MachineKnowing
    <3> QED BY <3>3, MachineUnfold
  <2>3. \A n \in Machines \ {m} : box'[n] = box[n] /\ cmd'[n] = cmd[n]
    BY <1>2, OthersCmd
  <2> QED BY <1>0, <1>2, <2>2, <2>3, GotoType, LocalStep
<1>3. CASE Holds(m) = {} /\ box' = [box EXCEPT ![m].file = Torn] /\ Goto(m, "write")
  <2>1. box' \in [Machines -> Checkouts]
    BY <1>0, <1>3 DEF Checkouts
  <2>2. box'[m].height = box[m].height /\ box'[m].head = box[m].head /\ box'[m].file = Torn
    BY <1>0, <1>3 DEF Checkouts
  <2>3. Sealing(blocks', box'[m], cmd'[m].line.doc) = {}
    <3>1. Sealing(blocks, box[m], cmd[m].line.doc) = {}
      BY <1>3 DEF Holds, Sealing
    <3>2. cmd'[m].line = cmd[m].line
      BY <1>3, GotoType
    <3> QED BY <1>0, <2>2, <3>1, <3>2 DEF Sealing
  <2>4. MachineKnows(m)'
    <3>1. MachineKnowing(blocks, box[m], cmd[m])
      BY <1>0, MachineUnfold
    <3>2. Knowing(blocks', Torn)
      BY FileAssumption DEF Knowing
    <3>3. MachineKnowing(blocks', box'[m], cmd'[m])
      BY <1>0, <1>3, <2>2, <2>3, <3>1, <3>2, GotoType DEF MachineKnowing
    <3> QED BY <3>3, MachineUnfold
  <2>5. \A n \in Machines \ {m} : box'[n] = box[n] /\ cmd'[n] = cmd[n]
    BY <1>0, <1>3, OthersCmd
  <2> QED BY <1>0, <1>3, <2>1, <2>4, <2>5, GotoType, LocalStep
<1>4. CASE Own(m) /\ Goto(m, "check") /\ UNCHANGED box
  <2>1. MachineKnows(m)'
    BY <1>0, <1>4, GotoType DEF MachineKnows, Knows, Own
  <2>2. \A n \in Machines \ {m} : box'[n] = box[n] /\ cmd'[n] = cmd[n]
    BY <1>4, OthersCmd
  <2> QED BY <1>0, <1>4, <2>1, <2>2, GotoType, LocalStep
<1> QED BY <1>1, <1>2, <1>3, <1>4 DEF Find

LEMMA ToldStep ==
    ASSUME SealInv, NEW m \in Machines, Told(m)
    PROVE  Kept
<1>1. PICK i \in First(m) : Report(cmd[m].line, i)
  BY DEF Told
<1>2. /\ UNCHANGED <<blocks, waiting, box, accidents>> /\ Stop(m)
      /\ cmd[m].line \in Sealed /\ SameKind(m, i) /\ TypeOK /\ box[m] \in Checkouts
  BY <1>1 DEF Told, SealInv, RequestsKnow, MachineKnows, TypeOK
<1>3. i \in 1 .. MaxBlocks /\ i <= Len(blocks) /\ blocks[i] = cmd[m].line
  <2>1. box[m].height <= Len(blocks) /\ Len(blocks) \in 0 .. MaxBlocks
    BY DEF SealInv, RequestsKnow, MachineKnows, TypeOK
  <2>2. i \in 1 .. box[m].height /\ box[m].height \in Nat /\ blocks[i] = cmd[m].line
    BY <1>1, <1>2 DEF First, Holds, SameKind, Checkouts
  <2> QED BY <2>1, <2>2, SealAssumption
<1> DEFINE new == [doc |-> cmd[m].line.doc, kind |-> cmd[m].line.kind, index |-> i]
<1>4. reports' = reports \cup {new}
  BY <1>1 DEF Report
<1>5. /\ new \in [doc : Docs, kind : Kinds, index : 1 .. MaxBlocks]
      /\ blocks[new.index] = [doc |-> new.doc, kind |-> new.kind]
  BY <1>2, <1>3 DEF Sealed
<1>6. ReportsTrue'
  <2>1. new.index = i
    OBVIOUS
  <2>2. \A r \in reports : r.index <= Len(blocks) /\ blocks[r.index] = [doc |-> r.doc, kind |-> r.kind]
    BY DEF SealInv, RequestsKnow, ReportsTrue
  <2> QED BY <1>2, <1>3, <1>4, <1>5, <2>1, <2>2 DEF ReportsTrue
<1>7. \A n \in Machines : MachineKnows(n)'
  BY <1>2, StopKnows, StaysKnown, OthersCmd
<1>8. TypeOK'
  BY <1>2, <1>4, <1>5, StopKnows DEF TypeOK
<1> QED BY <1>2, <1>6, <1>7, <1>8 DEF Kept, SealInv, RequestsKnow, Knows

(* The new request: the checkout was looked through. *)
LEMMA WriteStep ==
    ASSUME SealInv, NEW m \in Machines, WriteRequest(m)
    PROVE  Kept
<1>0. /\ UNCHANGED <<main, accidents>> /\ accidents' \in 0 .. MaxAccidents /\ blocks' = blocks
      /\ cmd[m].line \in Sealed /\ MachineKnows(m) /\ Holds(m) = {}
      /\ box \in [Machines -> Checkouts] /\ box[m] \in Checkouts /\ Goto(m, "check")
  BY DEF WriteRequest, SealInv, RequestsKnow, TypeOK, MachineKnows, main
<1> DEFINE r == [doc |-> cmd[m].line.doc, kind |-> cmd[m].line.kind,
                 index |-> box[m].height + 1, approved |-> FALSE]
<1>1. r \in Requests
  <2>1. box[m].height + 1 \in 1 .. MaxBlocks + 1
    BY <1>0, SealAssumption DEF Checkouts
  <2> QED BY <1>0, <2>1 DEF Requests, Sealed
<1>2. box' = [box EXCEPT ![m].file = r]
  BY DEF WriteRequest
<1>3. /\ box' \in [Machines -> Checkouts]
      /\ box'[m].height = box[m].height /\ box'[m].head = box[m].head /\ box'[m].file = r
  BY <1>0, <1>1, <1>2 DEF Checkouts
<1>4. Knowing(blocks, r)
  <2>1. Len(blocks) \in Nat /\ box[m].height \in Nat /\ box[m].height <= Len(blocks)
    BY <1>0 DEF SealInv, RequestsKnow, TypeOK, MachineKnows, Checkouts
  <2>2. ASSUME NEW i \in 1 .. Len(blocks), i < r.index PROVE blocks[i].doc # r.doc
    <3>1. i \in 1 .. box[m].height
      BY <2>1, <2>2
    <3> QED BY <1>0, <3>1 DEF Holds
  <2> QED BY <2>1, <2>2 DEF Knowing
<1>5. MachineKnows(m)'
  <2>1. MachineKnowing(blocks, box[m], cmd[m])
    BY <1>0, MachineUnfold
  <2>2. MachineKnowing(blocks', box'[m], cmd'[m])
    BY <1>0, <1>1, <1>3, <1>4, <2>1, GotoType DEF MachineKnowing
  <2> QED BY <2>2, MachineUnfold
<1>6. \A n \in Machines \ {m} : box'[n] = box[n] /\ cmd'[n] = cmd[n]
  BY <1>0, <1>2, OthersCmd
<1> QED BY <1>0, <1>3, <1>5, <1>6, GotoType, LocalStep

(* The sealed request is the unsigned one, approved. *)
LEMMA UnpublishedStep ==
    ASSUME SealInv, NEW m \in Machines, Unpublished(m)
    PROVE  Kept
<1>0. /\ UNCHANGED <<main, accidents>> /\ accidents' \in 0 .. MaxAccidents /\ blocks' = blocks
      /\ cmd[m].line \in Sealed /\ MachineKnows(m) /\ box[m].file \in Requests
      /\ box \in [Machines -> Checkouts] /\ cmd \in [Machines -> Commands]
  BY DEF Unpublished, SealInv, RequestsKnow, TypeOK, MachineKnows, main
<1>1. CASE Stop(m) /\ UNCHANGED box
  BY <1>0, <1>1, StopStep
<1>2. CASE Goto(m, "commit") /\ UNCHANGED box
  <2>1. MachineKnows(m)'
    BY <1>0, <1>2, GotoType DEF MachineKnows, Knows
  <2>2. \A n \in Machines \ {m} : box'[n] = box[n] /\ cmd'[n] = cmd[n]
    BY <1>2, OthersCmd
  <2> QED BY <1>0, <1>2, <2>1, <2>2, GotoType, LocalStep
<1> DEFINE r == [box[m].file EXCEPT !.approved = TRUE]
           c == [cmd[m] EXCEPT !.pc = "rewrite", !.req = r]
<1>3. CASE box' = [box EXCEPT ![m].file = Torn] /\ cmd' = [cmd EXCEPT ![m] = c]
  <2>1. r \in Requests /\ r.index = box[m].file.index /\ r.doc = box[m].file.doc
    BY <1>0 DEF Requests
  <2>2. c \in Commands /\ c.pc = "rewrite" /\ c.req = r /\ c.line = cmd[m].line
    BY <1>0, <2>1 DEF Commands
  <2>3. /\ box' \in [Machines -> Checkouts]
        /\ box'[m].height = box[m].height /\ box'[m].head = box[m].head /\ box'[m].file = Torn
    BY <1>0, <1>3 DEF Checkouts
  <2>4. cmd' \in [Machines -> Commands] /\ cmd'[m] = c
    BY <1>0, <1>3, <2>2
  <2>5. MachineKnowing(blocks, box[m], cmd[m])
    BY <1>0, MachineUnfold
  <2>6. MachineKnows(m)'
    <3>1. Knowing(blocks', r) /\ Knowing(blocks', Torn)
      BY <1>0, <2>1, <2>5, FileAssumption DEF MachineKnowing, Knowing
    <3>2. MachineKnowing(blocks', box'[m], cmd'[m])
      BY <1>0, <2>1, <2>2, <2>3, <2>4, <2>5, <3>1 DEF MachineKnowing
    <3> QED BY <3>2, MachineUnfold
  <2>7. \A n \in Machines \ {m} : box'[n] = box[n] /\ cmd'[n] = cmd[n]
    BY <1>0, <1>3
  <2> QED BY <1>0, <2>3, <2>4, <2>6, <2>7, LocalStep
<1>4. cmd' = [cmd EXCEPT ![m].pc = "rewrite", ![m].req = r] => cmd' = [cmd EXCEPT ![m] = c]
  BY <1>0
<1> QED BY <1>1, <1>2, <1>3, <1>4 DEF Unpublished, Approve

LEMMA RewriteStep ==
    ASSUME SealInv, NEW m \in Machines, Rewrite(m)
    PROVE  Kept
<1>0. /\ UNCHANGED <<main, accidents>> /\ accidents' \in 0 .. MaxAccidents /\ blocks' = blocks
      /\ cmd[m].line \in Sealed /\ MachineKnows(m) /\ cmd[m].req \in Requests
      /\ box \in [Machines -> Checkouts] /\ cmd \in [Machines -> Commands]
  BY DEF Rewrite, SealInv, RequestsKnow, TypeOK, MachineKnows, main
<1> DEFINE c == [cmd[m] EXCEPT !.pc = "commit", !.req = NoFile]
<1>1. c \in Commands /\ c.pc = "commit" /\ c.req = NoFile /\ c.line = cmd[m].line
  BY <1>0 DEF Commands
<1>2. cmd' = [cmd EXCEPT ![m] = c]
  BY <1>0 DEF Rewrite
<1>3. cmd' \in [Machines -> Commands] /\ cmd'[m] = c
  BY <1>0, <1>1, <1>2
<1>4. /\ box' \in [Machines -> Checkouts]
      /\ box'[m].height = box[m].height /\ box'[m].head = box[m].head /\ box'[m].file = cmd[m].req
  BY <1>0 DEF Rewrite, Checkouts
<1>5. MachineKnows(m)'
  BY <1>0, <1>1, <1>3, <1>4, FileAssumption DEF MachineKnows, Knows
<1>6. \A n \in Machines \ {m} : box'[n] = box[n] /\ cmd'[n] = cmd[n]
  BY <1>0, <1>2 DEF Rewrite
<1> QED BY <1>0, <1>3, <1>4, <1>5, <1>6, LocalStep

LEMMA CommitStep ==
    ASSUME SealInv, NEW m \in Machines, Commit(m)
    PROVE  Kept
<1>0. /\ UNCHANGED <<main, accidents>> /\ accidents' \in 0 .. MaxAccidents /\ blocks' = blocks
      /\ cmd[m].line \in Sealed /\ MachineKnows(m) /\ box[m].file \in Requests
      /\ box \in [Machines -> Checkouts] /\ Goto(m, "push")
  BY DEF Commit, SealInv, RequestsKnow, TypeOK, MachineKnows, main
<1>1. /\ box' \in [Machines -> Checkouts]
      /\ box'[m].height = box[m].height /\ box'[m].file = box[m].file
      /\ box'[m].head \in {box[m].head, box[m].file}
      /\ \A n \in Machines \ {m} : box'[n] = box[n]
  <2> DEFINE b == [box[m] EXCEPT !.head = box[m].file, !.ahead = @ \cup {"request"}]
  <2>1. CASE box' = box
    BY <1>0, <2>1
  <2>2. CASE box' = [box EXCEPT ![m] = b]
    <3>1. b \in Checkouts /\ b.height = box[m].height /\ b.file = box[m].file /\ b.head = box[m].file
      BY <1>0 DEF Checkouts
    <3> QED BY <1>0, <2>2, <3>1
  <2>3. box' = box \/ box' = [box EXCEPT ![m] = b]
    BY <1>0 DEF Commit
  <2> QED BY <2>1, <2>2, <2>3
<1>2. MachineKnows(m)'
  BY <1>0, <1>1, GotoType DEF MachineKnows, Knows
<1>3. \A n \in Machines \ {m} : cmd'[n] = cmd[n]
  BY <1>0, OthersCmd
<1> QED BY <1>0, <1>1, <1>2, <1>3, GotoType, LocalStep

(* The checkouts when main has a new commit. *)
LEMMA OutdatedSame ==
    ASSUME box \in [Machines -> Checkouts], NEW S, NEW m \in Machines
    PROVE  /\ Outdated(S) \in [Machines -> Checkouts]
           /\ Outdated(S)[m].height = box[m].height
           /\ Outdated(S)[m].head = box[m].head
           /\ Outdated(S)[m].file = box[m].file
  BY DEF Outdated, Checkouts

(* main gets a new commit, with a request some checkout knows, or none. *)
LEMMA CommitOnMain ==
    ASSUME SealInv, UNCHANGED <<blocks, reports>>,
           accidents' \in 0 .. MaxAccidents,
           waiting' \in Requests \cup {NoFile}, Knows(waiting)',
           box' \in [Machines -> Checkouts], cmd' \in [Machines -> Commands],
           \A n \in Machines : /\ box'[n].height = box[n].height
                               /\ box'[n].head = box[n].head
                               /\ box'[n].file = box[n].file
                               /\ cmd'[n] \in {cmd[n], Idle}
    PROVE  Kept
<1>1. ASSUME NEW n \in Machines PROVE MachineKnows(n)'
  <2>1. CASE cmd'[n] = cmd[n]
    BY <2>1, StaysKnown
  <2>2. CASE cmd'[n] = Idle
    <3>1. MachineKnows(n)
      BY DEF SealInv, RequestsKnow
    <3> QED BY <2>2, <3>1, IdleKnows, FileAssumption DEF MachineKnows, Knows
  <2> QED BY <2>1, <2>2
<1>2. ReportsTrue' /\ Knows(waiting)'
  BY DEF SealInv, RequestsKnow, ReportsTrue
<1>3. TypeOK'
  BY DEF SealInv, RequestsKnow, TypeOK
<1> QED BY <1>1, <1>2, <1>3 DEF Kept

LEMMA PushStep ==
    ASSUME SealInv, NEW m \in Machines, Push(m)
    PROVE  Kept
<1>0. /\ UNCHANGED <<blocks, reports, accidents>> /\ Stop(m) /\ box \in [Machines -> Checkouts]
      /\ accidents' \in 0 .. MaxAccidents /\ MachineKnows(m)
      /\ cmd \in [Machines -> Commands]
  BY DEF Push, SealInv, RequestsKnow, TypeOK
<1>1. cmd' \in [Machines -> Commands] /\ \A n \in Machines : cmd'[n] \in {cmd[n], Idle}
  BY <1>0, IdleKnows DEF Stop
<1>2. CASE UNCHANGED <<waiting, box>>
  BY <1>0, <1>2, StopStep DEF main
<1>3. CASE waiting' = box[m].head /\ box' = [Outdated({m}) EXCEPT ![m].ahead = {}]
  <2>1. /\ box' \in [Machines -> Checkouts]
        /\ \A n \in Machines : /\ box'[n].height = box[n].height
                               /\ box'[n].head = box[n].head
                               /\ box'[n].file = box[n].file
    <3> DEFINE O == Outdated({m})
    <3>1. O \in [Machines -> Checkouts]
      BY <1>0, OutdatedSame
    <3>2. /\ box' \in [Machines -> Checkouts]
          /\ \A n \in Machines : /\ box'[n].height = O[n].height
                                 /\ box'[n].head = O[n].head
                                 /\ box'[n].file = O[n].file
      BY <1>3, <3>1 DEF Checkouts
    <3> QED BY <1>0, <3>2, OutdatedSame
  <2>2. waiting' \in Requests \cup {NoFile} /\ Knows(waiting)'
    BY <1>0, <1>3 DEF MachineKnows, Knows, Checkouts
  <2> QED BY <1>0, <1>1, <2>1, <2>2, CommitOnMain
<1> QED BY <1>2, <1>3 DEF Push

LEMMA PeopleStep ==
    ASSUME SealInv,
           \/ \E m \in Machines : OtherCommit(m) \/ CleanUp(m)
           \/ OthersPush \/ DropStale
    PROVE  Kept
<1>0. /\ TypeOK /\ box \in [Machines -> Checkouts] /\ cmd \in [Machines -> Commands]
      /\ waiting \in Requests \cup {NoFile} /\ Knows(waiting) /\ accidents \in 0 .. MaxAccidents
      /\ Len(blocks) \in 0 .. MaxBlocks
  BY DEF SealInv, RequestsKnow, TypeOK
<1>1. ASSUME NEW m \in Machines, OtherCommit(m) PROVE Kept
  <2>1. /\ box' \in [Machines -> Checkouts]
        /\ \A n \in Machines : /\ box'[n].height = box[n].height
                               /\ box'[n].head = box[n].head
                               /\ box'[n].file = box[n].file
    <3> DEFINE b == [box[m] EXCEPT !.ahead = @ \cup {"other"}]
    <3>1. /\ b \in Checkouts /\ b.height = box[m].height /\ b.head = box[m].head
          /\ b.file = box[m].file
      BY <1>0 DEF Checkouts
    <3>2. box' = [box EXCEPT ![m] = b]
      BY <1>1 DEF OtherCommit
    <3> QED BY <1>0, <3>1, <3>2
  <2> QED BY <1>0, <1>1, <2>1, CommitOnMain, SealAssumption DEF OtherCommit, main, Knows
<1>2. ASSUME NEW m \in Machines, CleanUp(m) PROVE Kept
  <2> DEFINE b == [fresh |-> TRUE, height |-> Len(blocks), head |-> waiting,
                   file |-> waiting, ahead |-> {}]
  <2>1. /\ b \in Checkouts /\ b.height = Len(blocks) /\ b.head = waiting
        /\ b.file \in {waiting, box[m].file}
    BY <1>0 DEF Checkouts
  <2>2. box' = [box EXCEPT ![m] = b] /\ UNCHANGED <<main, cmd, accidents>> /\ cmd[m].pc = "idle"
    BY <1>2 DEF CleanUp
  <2>3. MachineKnows(m)'
    BY <2>1, <2>2, TipKnows
  <2>4. box' \in [Machines -> Checkouts] /\ \A n \in Machines \ {m} : box'[n] = box[n]
    BY <1>0, <2>1, <2>2
  <2> QED BY <1>0, <2>2, <2>3, <2>4, LocalStep
<1>3. CASE OthersPush \/ DropStale
  <2>1. /\ UNCHANGED <<blocks, reports, cmd>> /\ box' = Outdated({})
        /\ waiting' \in {waiting, NoFile} /\ accidents' \in 0 .. MaxAccidents
    BY <1>0, <1>3, SealAssumption DEF OthersPush, DropStale, main
  <2>2. waiting' \in Requests \cup {NoFile} /\ Knows(waiting)'
    BY <1>0, <2>1, FileAssumption DEF Knows
  <2>3. box' \in [Machines -> Checkouts]
    BY <1>0, <2>1 DEF Outdated, Checkouts
  <2> QED BY <1>0, <2>1, <2>2, <2>3, OutdatedSame, CommitOnMain
<1> QED BY <1>1, <1>2, <1>3

-----------------------------------------------------------------------------
(* block.yml: the block is the next one, and its document is in none before. *)
LEMMA BlockRunStep ==
    ASSUME SealInv, BlockRun
    PROVE  Kept /\ SealedOnce'
<1> DEFINE n == Len(blocks)
           new == [doc |-> waiting.doc, kind |-> waiting.kind]
<1>0. /\ blocks \in Seq(Sealed) /\ n \in 0 .. MaxBlocks /\ n < MaxBlocks
      /\ waiting \in Requests /\ waiting.index = n + 1
      /\ box \in [Machines -> Checkouts] /\ cmd \in [Machines -> Commands]
      /\ Knows(waiting) /\ SealedOnce /\ ReportsTrue
  BY DEF BlockRun, Consumable, SealInv, RequestsKnow, TypeOK
<1>1. blocks' = Append(blocks, new) /\ new \in Sealed
  BY <1>0 DEF BlockRun, Requests, Sealed
<1>2. /\ blocks' \in Seq(Sealed) /\ Len(blocks') = n + 1 /\ blocks'[n + 1] = new
      /\ \A i \in 1 .. n : blocks'[i] = blocks[i]
  BY <1>0, <1>1
<1>3. \A i \in 1 .. n : blocks[i].doc # waiting.doc
  BY <1>0 DEF Knows
<1>4. SealedOnce'
  <2>1. ASSUME NEW i \in 1 .. n + 1, NEW j \in 1 .. n + 1, blocks'[i].doc = blocks'[j].doc
        PROVE  i = j
    <3>1. CASE i \in 1 .. n /\ j \in 1 .. n
      BY <1>0, <1>2, <2>1, <3>1 DEF SealedOnce
    <3>2. ASSUME NEW k \in 1 .. n PROVE blocks'[k].doc # blocks'[n + 1].doc
      <4>1. blocks'[k] = blocks[k] /\ blocks[k].doc # waiting.doc
        BY <1>2, <1>3
      <4> QED BY <1>2, <4>1
    <3>3. CASE i = n + 1
      <4>1. j \notin 1 .. n
        BY <2>1, <3>2, <3>3
      <4> QED BY <1>0, <3>3, <4>1
    <3>4. CASE j = n + 1
      <4>1. i \notin 1 .. n
        BY <2>1, <3>2, <3>4
      <4> QED BY <1>0, <3>4, <4>1
    <3> QED BY <1>0, <3>1, <3>3, <3>4
  <2> QED BY <1>2, <2>1 DEF SealedOnce
<1>5. ASSUME NEW r, Knowing(blocks, r) PROVE Knowing(blocks', r)
  <2>1. ASSUME r \in Requests PROVE r.index \in Nat /\ r.index <= n + 1
    BY <1>5, <2>1, SealAssumption DEF Knowing, Requests
  <2>2. ASSUME r \in Requests, NEW i \in 1 .. n + 1, i < r.index PROVE blocks'[i].doc # r.doc
    <3>1. i \in 1 .. n
      BY <1>0, <2>1, <2>2
    <3> QED BY <1>2, <1>5, <2>2, <3>1 DEF Knowing
  <2>3. 1 .. Len(blocks') = 1 .. n + 1 /\ n \in Nat
    BY <1>0, <1>2
  <2> HIDE DEF n
  <2> QED BY <1>2, <2>1, <2>2, <2>3 DEF Knowing
<1>6. /\ box' \in [Machines -> Checkouts] /\ cmd' = cmd /\ waiting' = NoFile
      /\ accidents' = accidents
  BY <1>0 DEF BlockRun, Outdated, Checkouts
<1>7. ASSUME NEW m \in Machines PROVE MachineKnows(m)'
  <2>1. /\ box'[m].height = box[m].height /\ box'[m].head = box[m].head
        /\ box'[m].file = box[m].file
    BY <1>0, OutdatedSame DEF BlockRun
  <2>2. MachineKnowing(blocks, box[m], cmd[m]) /\ box[m].height \in 0 .. n
    <3>1. MachineKnowing(blocks, box[m], cmd[m])
      BY MachineUnfold DEF SealInv, RequestsKnow
    <3> QED BY <1>0, <3>1 DEF MachineKnowing, Checkouts
  <2>3. /\ Sealing(blocks', box'[m], cmd'[m].line.doc) = Sealing(blocks, box[m], cmd[m].line.doc)
        /\ \A i \in Sealing(blocks, box[m], cmd[m].line.doc) : blocks'[i] = blocks[i]
    <3>1. \A i \in 1 .. box[m].height : blocks'[i] = blocks[i]
      BY <1>0, <1>2, <2>2
    <3> QED BY <1>6, <2>1, <3>1 DEF Sealing
  <2>4. Knowing(blocks', box[m].head) /\ Knowing(blocks', box[m].file) /\ Knowing(blocks', cmd[m].req)
    BY <1>5, <2>2 DEF MachineKnowing
  <2>5. box'[m].height <= Len(blocks')
    BY <1>0, <1>2, <2>1, <2>2
  <2>6. MachineKnowing(blocks', box'[m], cmd'[m])
    BY <1>6, <2>1, <2>2, <2>3, <2>4, <2>5 DEF MachineKnowing
  <2> QED BY <2>6, MachineUnfold
<1>8. ReportsTrue' /\ reports' \subseteq [doc : Docs, kind : Kinds, index : 1 .. MaxBlocks]
  <2> DEFINE rep == [doc |-> waiting.doc, kind |-> waiting.kind, index |-> n + 1]
  <2>1. reports' \subseteq reports \cup {rep}
    BY DEF BlockRun, ReportBlock, Report
  <2>2. rep \in [doc : Docs, kind : Kinds, index : 1 .. MaxBlocks]
    <3>1. n + 1 \in 1 .. MaxBlocks
      BY <1>0, SealAssumption
    <3> QED BY <1>0, <3>1 DEF Requests
  <2>3. rep.index <= Len(blocks') /\ blocks'[rep.index] = [doc |-> rep.doc, kind |-> rep.kind]
    BY <1>0, <1>2
  <2>4. reports \subseteq [doc : Docs, kind : Kinds, index : 1 .. MaxBlocks]
    BY DEF SealInv, RequestsKnow, TypeOK
  <2>5. ASSUME NEW r \in reports
        PROVE  r.index <= Len(blocks') /\ blocks'[r.index] = [doc |-> r.doc, kind |-> r.kind]
    <3>1. r.index \in 1 .. MaxBlocks /\ r.index <= n /\ blocks[r.index] = [doc |-> r.doc, kind |-> r.kind]
      BY <1>0, <2>4 DEF ReportsTrue
    <3>2. r.index \in 1 .. n
      BY <1>0, <3>1, SealAssumption
    <3> QED BY <1>0, <1>2, <3>1, <3>2
  <2> QED BY <2>1, <2>2, <2>3, <2>4, <2>5 DEF ReportsTrue
<1>9. TypeOK'
  <2>1. Len(blocks') <= MaxBlocks /\ accidents' \in 0 .. MaxAccidents
    BY <1>0, <1>2, <1>6, SealAssumption DEF SealInv, RequestsKnow, TypeOK
  <2> QED BY <1>0, <1>2, <1>6, <1>8, <2>1 DEF TypeOK
<1> QED BY <1>4, <1>6, <1>7, <1>8, <1>9, FileAssumption DEF Kept, Knows

-----------------------------------------------------------------------------
LEMMA NextSealInv == SealInv /\ [Next]_vars => SealInv'
<1> SUFFICES ASSUME SealInv, [Next]_vars PROVE SealInv'
  OBVIOUS
<1>1. CASE UNCHANGED vars
  BY <1>1 DEF vars, SealInv, RequestsKnow, TypeOK, SealedOnce, ReportsTrue, Knows, MachineKnows, Holds, First, SameKind
<1>2. CASE BlockRun
  BY <1>2, BlockRunStep DEF Kept, SealInv, RequestsKnow
<1>3. ASSUME Kept, blocks' = blocks PROVE SealInv'
  BY <1>3 DEF Kept, SealInv, RequestsKnow, SealedOnce
<1>4. ASSUME NEW m \in Machines, Step(m) PROVE SealInv'
  <2>1. blocks' = blocks
    BY <1>4 DEF Step, Sync, Find, Told, NotTold, WriteRequest, Unpublished, Rewrite, Commit, Push, main
  <2>2. CASE NotTold(m)
    <3>1. accidents' \in 0 .. MaxAccidents
      BY <2>2 DEF NotTold, SealInv, RequestsKnow, TypeOK
    <3> QED BY <1>3, <2>1, <2>2, <3>1, StopStep DEF NotTold
  <2> QED BY <1>3, <1>4, <2>1, <2>2, SyncStep, FindStep, ToldStep, WriteStep, UnpublishedStep,
             RewriteStep, CommitStep, PushStep DEF Step
<1>5. ASSUME NEW m \in Machines, NEW l \in Lines[m], Start(m, l) PROVE SealInv'
  BY <1>3, <1>5, StartStep DEF Start, main
<1>6. ASSUME NEW m \in Machines, Killed(m) PROVE SealInv'
  <2>1. accidents' \in 0 .. MaxAccidents /\ Stop(m) /\ UNCHANGED <<main, box>> /\ blocks' = blocks
    BY <1>6, SealAssumption DEF Killed, SealInv, RequestsKnow, TypeOK, main
  <2> QED BY <1>3, <2>1, StopStep
<1>7. CASE \/ \E m \in Machines : OtherCommit(m) \/ CleanUp(m)
           \/ OthersPush \/ DropStale
  BY <1>3, <1>7, PeopleStep DEF OtherCommit, CleanUp, OthersPush, DropStale, main
<1> QED BY <1>1, <1>2, <1>4, <1>5, <1>6, <1>7 DEF Next

(* "one fingerprint, one block": for any number of machines that run any lines *)
(* again and again, are killed, are behind and have requests lying about, no   *)
(* document is ever sealed by two blocks.                                     *)
THEOREM SealSealedOnce == Spec => []SealedOnce
<1>1. SealInv => SealedOnce
  BY DEF SealInv, RequestsKnow
<1> QED BY <1>1, InitSealInv, NextSealInv, PTL DEF Spec

(* The app is never told of a block that does not seal the document it names, *)
(* as the kind it names.                                                      *)
THEOREM SealReportsTrue == Spec => []ReportsTrue
<1>1. SealInv => ReportsTrue
  BY DEF SealInv, RequestsKnow
<1> QED BY <1>1, InitSealInv, NextSealInv, PTL DEF Spec

(* Every request, on main or in a checkout, was made by a command that had     *)
(* looked through all blocks below the one it is for.                         *)
THEOREM SealRequestsKnow == Spec => [](TypeOK /\ RequestsKnow)
<1>1. SealInv => TypeOK /\ RequestsKnow
  BY DEF SealInv
<1> QED BY <1>1, InitSealInv, NextSealInv, PTL DEF Spec
=============================================================================
