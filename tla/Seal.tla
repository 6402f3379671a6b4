-------------------------------- MODULE Seal --------------------------------
(***************************************************************************)
(* Sealing a client's document: `aikiri-ledger seal --push` (cli.py, with     *)
(* seal.py), run again and again with the line from the app's chat on one or  *)
(* several machines, each with its own checkout, until block.yml has sealed   *)
(* the document and the app knows of it.                                     *)
(*                                                                          *)
(* Of main, `blocks` and the request that waits in ledger/requests/next.json  *)
(* are kept; a block only its document's fingerprint and kind.  Of a          *)
(* checkout: whether it starts from main's tip, how many blocks it has, the   *)
(* request in its HEAD and in its files, and what it has committed itself.    *)
(* The blocks of main never change (BlockRun), so that an index stands for    *)
(* the prev_hash too.  A run of block.yml is one step here; BlockRun has the   *)
(* rest of it.                                                               *)
(***************************************************************************)
EXTENDS Naturals, Sequences

CONSTANTS
    Machines,
    Docs, Kinds,   \* fingerprints, and the kinds of document
    Lines,         \* the lines in the chat that are run on a machine: a fingerprint and a kind each
    MaxBlocks,     \* bound on the blocks of main
    MaxAccidents,  \* bound on killed commands and commits of other things
    NoFile, Torn, NoLine

ASSUME SealAssumption ==
    /\ Lines \in [Machines -> SUBSET [doc : Docs, kind : Kinds]]
    /\ MaxBlocks \in Nat /\ MaxAccidents \in Nat
    /\ NoLine \notin [doc : Docs, kind : Kinds]

Sealed == [doc : Docs, kind : Kinds]
Requests == [doc : Docs, kind : Kinds, index : 1 .. MaxBlocks + 1, approved : BOOLEAN]

ASSUME FileAssumption == NoFile \notin Requests /\ Torn \notin Requests /\ NoFile # Torn

VARIABLES
    blocks,     \* main: the document each block seals
    waiting,    \* main: ledger/requests/next.json
    box,        \* machine -> its checkout
    cmd,        \* machine -> how far its command is
    reports,    \* what the app was told
    accidents

vars == <<blocks, waiting, box, cmd, reports, accidents>>

Checkouts == [fresh : BOOLEAN, height : 0 .. MaxBlocks, head : Requests \cup {NoFile},
              file : Requests \cup {NoFile, Torn}, ahead : SUBSET {"request", "other"}]
Commands == [pc : {"idle", "sync", "find", "report", "write", "check", "rewrite", "commit", "push"},
             line : Sealed \cup {NoLine}, req : Requests \cup {NoFile}]

Idle == [pc |-> "idle", line |-> NoLine, req |-> NoFile]

TypeOK ==
    /\ blocks \in Seq(Sealed) /\ Len(blocks) <= MaxBlocks
    /\ waiting \in Requests \cup {NoFile}
    /\ box \in [Machines -> Checkouts]
    /\ cmd \in [Machines -> Commands]
    /\ reports \subseteq [doc : Docs, kind : Kinds, index : 1 .. MaxBlocks]
    /\ accidents \in 0 .. MaxAccidents

Init ==
    /\ blocks = <<>>
    /\ waiting = NoFile
    /\ box = [m \in Machines |-> [fresh |-> TRUE, height |-> 0, head |-> NoFile,
                                  file |-> NoFile, ahead |-> {}]]
    /\ cmd = [m \in Machines |-> Idle]
    /\ reports = {}
    /\ accidents = 0

-----------------------------------------------------------------------------
main == <<blocks, waiting, reports>>

Goto(m, pc) == cmd' = [cmd EXCEPT ![m].pc = pc]
Stop(m) == cmd' = [cmd EXCEPT ![m] = Idle]    \* it is done, or it refuses

(* main has a new commit; machine m (if any) made it. *)
Outdated(S) == [m \in Machines |-> IF m \in S THEN box[m] ELSE [box[m] EXCEPT !.fresh = FALSE]]

(* The line is pasted. *)
Start(m, line) ==
    /\ cmd[m].pc = "idle"
    /\ cmd' = [cmd EXCEPT ![m] = [pc |-> "sync", line |-> line, req |-> NoFile]]
    /\ UNCHANGED <<main, box, accidents>>

(* The checkout after a fast-forward to main's tip. *)
Pulled(b) == [b EXCEPT !.fresh = TRUE, !.height = Len(blocks), !.head = waiting,
                       !.file = IF b.file = b.head THEN waiting ELSE b.file]

(* _sync: git pull --ff-only fails when the branches have diverged, or when the  *)
(* request has to change under a file that differs from the committed one.      *)
Sync(m) ==
    /\ cmd[m].pc = "sync"
    /\ LET b == box[m]
       IN  \/ /\ b.fresh
              /\ Goto(m, "find")
              /\ UNCHANGED box
           \/ /\ ~b.fresh /\ b.ahead = {} /\ (b.file = b.head \/ waiting = b.head)
              /\ box' = [box EXCEPT ![m] = Pulled(b)]
              /\ Goto(m, "find")
           \/ /\ ~b.fresh /\ ~(b.ahead = {} /\ (b.file = b.head \/ waiting = b.head))
              /\ Stop(m)
              /\ UNCHANGED box
    /\ UNCHANGED <<main, accidents>>

(* A bug: a block is looked for that seals the fingerprint as this kind. *)
HoldsKind(m) == {i \in 1 .. box[m].height : blocks[i] = cmd[m].line}

(* sealing.find: the blocks of the checkout that hold the fingerprint, and the   *)
(* first of them.                                                              *)
Holds(m) == {i \in 1 .. box[m].height : blocks[i].doc = cmd[m].line.doc}
First(m) == {i \in Holds(m) : \A j \in Holds(m) : i <= j}

(* A bug: what it was sealed as is not looked at. *)
SameKindAny(m, i) == blocks[i].doc = cmd[m].line.doc
SameKind(m, i) == blocks[i] = cmd[m].line

(* A bug: only a request that is not approved yet is looked for. *)
OwnUnapproved(m) ==
    LET f == box[m].file
    IN  f \in Requests /\ ~f.approved /\ [doc |-> f.doc, kind |-> f.kind] = cmd[m].line

(* sealing.pending: the request that waits is for this line's document. *)
Own(m) ==
    LET f == box[m].file
    IN  f \in Requests /\ [doc |-> f.doc, kind |-> f.kind] = cmd[m].line

(* In a block: reported from there, unless it was sealed as another kind.  Not   *)
(* in a block: a request that waits is this line's own, or refuses it; where     *)
(* none waits, one is opened, to be written in place.                           *)
Find(m) ==
    /\ cmd[m].pc = "find"
    /\ \/ /\ \E i \in First(m) : IF SameKind(m, i) THEN Goto(m, "report") ELSE Stop(m)
          /\ UNCHANGED box
       \/ /\ Holds(m) = {} /\ box[m].file = NoFile
          /\ box' = [box EXCEPT ![m].file = Torn]
          /\ Goto(m, "write")
       \/ /\ Holds(m) = {} /\ box[m].file # NoFile
          /\ IF Own(m) THEN Goto(m, "check") ELSE Stop(m)
          /\ UNCHANGED box
    /\ UNCHANGED <<main, accidents>>

Report(line, i) == reports' = reports \cup {[doc |-> line.doc, kind |-> line.kind, index |-> i]}

(* The app takes the report, again if it has it already; or it does not arrive. *)
Told(m) ==
    /\ cmd[m].pc = "report"
    /\ \E i \in First(m) : Report(cmd[m].line, i)
    /\ Stop(m)
    /\ UNCHANGED <<blocks, waiting, box, accidents>>
NotTold(m) == cmd[m].pc = "report" /\ Stop(m) /\ UNCHANGED <<main, box, accidents>>

(* A bug: the request is for the block after main's last, whatever was searched. *)
WriteRequestAtTip(m) ==
    /\ cmd[m].pc = "write"
    /\ box' = [box EXCEPT ![m].file = [doc |-> cmd[m].line.doc, kind |-> cmd[m].line.kind,
                                       index |-> Len(blocks) + 1, approved |-> FALSE]]
    /\ Goto(m, "check")
    /\ UNCHANGED <<main, accidents>>

(* The unsigned request is for the head of this checkout. *)
WriteRequest(m) ==
    /\ cmd[m].pc = "write"
    /\ box' = [box EXCEPT ![m].file = [doc |-> cmd[m].line.doc, kind |-> cmd[m].line.kind,
                                       index |-> box[m].height + 1, approved |-> FALSE]]
    /\ Goto(m, "check")
    /\ UNCHANGED <<main, accidents>>

(* _push_request up to the commit: an approved request is ready; else _approve   *)
(* reads it, waits for the passphrase and writes the sealed one over it.         *)
Approve(m) ==
    IF box[m].file.approved
    THEN Goto(m, "commit") /\ UNCHANGED box
    ELSE /\ box' = [box EXCEPT ![m].file = Torn]
         /\ cmd' = [cmd EXCEPT ![m].pc = "rewrite", ![m].req = [box[m].file EXCEPT !.approved = TRUE]]

(* _unpublished_only refuses if a local commit changes more than the request. *)
Unpublished(m) ==
    /\ cmd[m].pc = "check"
    /\ IF "other" \in box[m].ahead THEN Stop(m) /\ UNCHANGED box ELSE Approve(m)
    /\ UNCHANGED <<main, accidents>>

Rewrite(m) ==
    /\ cmd[m].pc = "rewrite"
    /\ box' = [box EXCEPT ![m].file = cmd[m].req]
    /\ cmd' = [cmd EXCEPT ![m].pc = "commit", ![m].req = NoFile]
    /\ UNCHANGED <<main, accidents>>

(* git add, and git commit unless an earlier try has committed this very file. *)
Commit(m) ==
    /\ cmd[m].pc = "commit"
    /\ box' = IF box[m].file = box[m].head THEN box
              ELSE [box EXCEPT ![m].head = box[m].file, ![m].ahead = @ \cup {"request"}]
    /\ Goto(m, "push")
    /\ UNCHANGED <<main, accidents>>

(* git push sends every commit the checkout is ahead, or is rejected. *)
Push(m) ==
    /\ cmd[m].pc = "push"
    /\ \/ /\ box[m].fresh /\ box[m].ahead # {}
          /\ waiting' = box[m].head
          /\ box' = [Outdated({m}) EXCEPT ![m].ahead = {}]
       \/ /\ ~(box[m].fresh /\ box[m].ahead # {})
          /\ UNCHANGED <<waiting, box>>
    /\ Stop(m)
    /\ UNCHANGED <<blocks, reports, accidents>>

(* A command is killed, or git or the network fails it. *)
Killed(m) ==
    /\ cmd[m].pc # "idle"
    /\ accidents < MaxAccidents
    /\ accidents' = accidents + 1
    /\ Stop(m)
    /\ UNCHANGED <<main, box>>

-----------------------------------------------------------------------------
(* block.yml *)

(* consume(): the request is approved and for the block after the last. *)
Consumable(r) == r.approved /\ r.index = Len(blocks) + 1

(* report-block tells the app, or fails, or is not configured. *)
ReportBlock(line, i) == Report(line, i) \/ UNCHANGED reports

(* A run writes the block, anchors it and removes the request, and reports it. *)
BlockRun ==
    /\ waiting # NoFile
    /\ Consumable(waiting)
    /\ Len(blocks) < MaxBlocks
    /\ blocks' = Append(blocks, [doc |-> waiting.doc, kind |-> waiting.kind])
    /\ waiting' = NoFile
    /\ ReportBlock(waiting, Len(blocks) + 1)
    /\ box' = Outdated({})
    /\ UNCHANGED <<cmd, accidents>>

-----------------------------------------------------------------------------
(* People *)

(* Work of her own, committed beside the ledger's. *)
OtherCommit(m) ==
    /\ accidents < MaxAccidents
    /\ accidents' = accidents + 1
    /\ box' = [box EXCEPT ![m].ahead = @ \cup {"other"}]
    /\ UNCHANGED <<main, cmd>>

(* A commit of somebody else on main. *)
OthersPush ==
    /\ accidents < MaxAccidents
    /\ accidents' = accidents + 1
    /\ box' = Outdated({})
    /\ UNCHANGED <<main, cmd>>

(* What a refused command leaves to her: a torn request, other commits, branches *)
(* that have diverged, a request for a block that is there by now.  She goes     *)
(* back to main's tip.                                                         *)
NeedsCare(m) ==
    LET b == box[m]
    IN  \/ b.file = Torn
        \/ "other" \in b.ahead
        \/ ~b.fresh /\ (b.ahead # {} \/ b.file # b.head)
        \/ b.file \in Requests /\ b.file # b.head /\ b.file.index <= b.height
CleanUp(m) ==
    /\ cmd[m].pc = "idle"
    /\ NeedsCare(m)
    /\ box' = [box EXCEPT ![m] = [fresh |-> TRUE, height |-> Len(blocks), head |-> waiting,
                                  file |-> waiting, ahead |-> {}]]
    /\ UNCHANGED <<main, cmd, accidents>>

(* A request that every run refuses is removed from main. *)
DropStale ==
    /\ waiting # NoFile /\ ~Consumable(waiting)
    /\ waiting' = NoFile
    /\ box' = Outdated({})
    /\ UNCHANGED <<blocks, cmd, reports, accidents>>

Step(m) ==
    \/ Sync(m)
    \/ Find(m)
    \/ Told(m)
    \/ NotTold(m)
    \/ WriteRequest(m)
    \/ Unpublished(m)
    \/ Rewrite(m)
    \/ Commit(m)
    \/ Push(m)

Next ==
    \/ \E m \in Machines : Step(m)
    \/ \E m \in Machines : \E l \in Lines[m] : Start(m, l)
    \/ \E m \in Machines : Killed(m)
    \/ \E m \in Machines : OtherCommit(m)
    \/ \E m \in Machines : CleanUp(m)
    \/ BlockRun
    \/ OthersPush
    \/ DropStale

Spec == Init /\ [][Next]_vars

(* A command goes on.  A line is pasted again and again, and its report gets     *)
(* through some time; she does what a refusal asks of her; runs are approved,    *)
(* and a request that is refused for good is noticed.                           *)
Fairness ==
    /\ \A m \in Machines :
          /\ WF_vars(Step(m))
          /\ SF_vars(CleanUp(m))
          /\ \A l \in Lines[m] : SF_vars(Start(m, l)) /\ SF_vars(cmd[m].line = l /\ Told(m))
    /\ WF_vars(BlockRun) /\ WF_vars(DropStale)

FairSpec == Spec /\ Fairness

-----------------------------------------------------------------------------
(* "one fingerprint, one block" (_seal): however often and on how many machines  *)
(* the lines are run, killed and run again, with checkouts that are behind and  *)
(* requests that were left lying, no document is sealed twice.                 *)
SealedOnce ==
    \A i, j \in 1 .. Len(blocks) : blocks[i].doc = blocks[j].doc => i = j

(* The app is told only what main holds, and of no document two blocks. *)
ReportsTrue ==
    \A r \in reports : r.index <= Len(blocks) /\ blocks[r.index] = [doc |-> r.doc, kind |-> r.kind]

(* A request for block n, wherever it lies, was made by a command that had       *)
(* looked through all blocks below n, of a checkout that is behind at most, so   *)
(* that n is not beyond the next block; nor does one written over in place (a     *)
(* torn file included) become anything else before it is committed.  A command    *)
(* writes, reports or approves only after it has looked.                        *)
Knows(r) ==
    r \in Requests => /\ r.index <= Len(blocks) + 1
                      /\ \A i \in 1 .. Len(blocks) : i < r.index => blocks[i].doc # r.doc
MachineKnows(m) ==
    /\ box[m].height <= Len(blocks)
    /\ Knows(box[m].head) /\ Knows(box[m].file) /\ Knows(cmd[m].req)
    /\ cmd[m].pc # "idle" => cmd[m].line \in Sealed
    /\ cmd[m].pc = "write" => Holds(m) = {}
    /\ cmd[m].pc = "report" => \A i \in First(m) : SameKind(m, i)
    /\ cmd[m].pc \in {"check", "commit"} => box[m].file \in Requests
    /\ cmd[m].pc = "rewrite" => cmd[m].req \in Requests
RequestsKnow == Knows(waiting) /\ \A m \in Machines : MachineKnows(m)

(* "running it twice is how the seal finishes" (seal.py): every document whose    *)
(* line is pasted again and again is sealed and the app knows it, though commands *)
(* are killed, pushes rejected, and reports lost.                              *)
ReportedInTheEnd ==
    <>(\A m \in Machines : \A l \in Lines[m] : \E r \in reports : r.doc = l.doc)
=============================================================================
