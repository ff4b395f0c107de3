------------------------------ MODULE ProofOutput ------------------------------
(***************************************************************************)
(* The proof file of a production run: reserve_output creates <path>.part  *)
(* before the multi-hour proof, dump_proof writes into that inode and      *)
(* renames it to the path (prover/proof_dump.py), and the driver           *)
(* (demo/demo_maverick_full.py) removes the reservation when it fails.     *)
(*                                                                         *)
(* Drivers that name the same output path are serialized only when they    *)
(* also name the same weight commitment: the flock is next to the          *)
(* commitment, not next to the proof.                                      *)
(*                                                                         *)
(* Before it writes the document the driver merges the mask points of the  *)
(* bridge's proof into <path>.wc-ledger.json, in place and without fsync.  *)
(***************************************************************************)
EXTENDS Integers, FiniteSets

CONSTANTS
  Drivers,    (* driver processes, all with the same --dump-proof          *)
  LedgerOf,   (* LedgerOf[d]: the weight commitment driver d names         *)
  MaxProofs,  (* bound on the proofs finished in a behaviour               *)
  NoDriver

ASSUME OutputAssumption == MaxProofs \in Nat /\ NoDriver \notin Drivers

VARIABLES
  pc,         (* what each driver does next                                *)
  lock,       (* drivers that hold the flock of their commitment           *)
  path,       (* what the output path shows: a proof document or nothing   *)
  survives,   (* what a power loss may leave at the path                   *)
  part,       (* <path>.part, the driver that created it, and how that     *)
              (* driver ended if it ended with the .part on disk           *)
  made,       (* number of proofs finished so far                          *)
  proof,      (* the proof each driver holds in memory, 0 for none         *)
  masks       (* <path>.wc-ledger.json                                     *)

vars == <<pc, lock, path, survives, part, made, proof, masks>>

Document == [id : 0..MaxProofs, by : Drivers \cup {NoDriver}, whole : BOOLEAN]
Nothing == [id |-> 0, by |-> NoDriver, whole |-> FALSE]
NoPart == [there |-> FALSE, owner |-> NoDriver, left |-> "no", doc |-> Nothing,
           synced |-> FALSE]

\* The mask-point record: the proofs whose points it lists, whether it is cut
\* short by a kill, and whether a power loss took what was never synced.
NoRecord == [spent |-> {}, torn |-> FALSE, lost |-> FALSE]

Holding == {"fallocate", "syncPart", "prove", "save", "record", "rewrite", "write",
            "fsync", "replace"}
Steps == {"idle", "checkPath", "checkPart", "create", "dirsync"} \cup Holding

Init ==
  /\ pc = [d \in Drivers |-> "idle"]
  /\ lock = {}
  /\ path = Nothing
  /\ survives = {Nothing}
  /\ part = NoPart
  /\ made = 0
  /\ proof = [d \in Drivers |-> 0]
  /\ masks = NoRecord

Goto(d, step) == pc' = [pc EXCEPT ![d] = step] /\ UNCHANGED lock

\* The process ends and the kernel drops its flock.
Exit(d) == pc' = [pc EXCEPT ![d] = "idle"] /\ lock' = lock \ {d}

\* The process ends where nothing unlinks: its reservation stays on disk, where
\* it refuses every later driver.
ExitLeaving(d, why) ==
  /\ Exit(d)
  /\ part' = IF pc[d] \in Holding /\ part.owner = d
             THEN [part EXCEPT !.left = why] ELSE part

\* pathlib.Path(reserved_part).unlink(), by name, in an except clause
UnlinkAndExit(d) == part' = NoPart /\ Exit(d)
--------------------------------------------------------------------------------
(***************************************************************************)
(* reserve_output                                                          *)
(***************************************************************************)
\* Faulty variant of Begin: the flock is not waited for.
BeginUnlocked(d) ==
  /\ pc[d] = "idle"
  /\ lock' = lock \cup {d}
  /\ pc' = [pc EXCEPT ![d] = "checkPath"]
  /\ UNCHANGED <<path, survives, part, made, proof, masks>>

\* The driver got past its policy checks with its commitment's flock.
Begin(d) ==
  /\ pc[d] = "idle"
  /\ \A e \in lock : LedgerOf[e] # LedgerOf[d]
  /\ lock' = lock \cup {d}
  /\ pc' = [pc EXCEPT ![d] = "checkPath"]
  /\ UNCHANGED <<path, survives, part, made, proof, masks>>

\* Faulty variant of CheckPath: only the .part is looked for.
CheckNothing(d) ==
  /\ pc[d] = "checkPath"
  /\ Goto(d, "checkPart")
  /\ UNCHANGED <<path, survives, part, made, proof, masks>>

\* os.path.exists(path) refuses
CheckPath(d) ==
  /\ pc[d] = "checkPath"
  /\ IF path = Nothing THEN Goto(d, "checkPart") ELSE Exit(d)
  /\ UNCHANGED <<path, survives, part, made, proof, masks>>

\* os.path.exists(part) refuses; so does too little free space
CheckPart(d) ==
  /\ pc[d] = "checkPart"
  /\ \/ ~part.there /\ Goto(d, "create")
     \/ Exit(d)
  /\ UNCHANGED <<path, survives, part, made, proof, masks>>

\* os.open(part, O_CREAT | O_EXCL): FileExistsError is not caught, and the
\* .part of the other driver stays.
Create(d) ==
  /\ pc[d] = "create"
  /\ IF part.there
       THEN Exit(d) /\ UNCHANGED part
       ELSE /\ part' = [NoPart EXCEPT !.there = TRUE, !.owner = d]
            /\ Goto(d, "fallocate")
  /\ UNCHANGED <<path, survives, made, proof, masks>>

\* Faulty variant of Fallocate: without the except clause.
FallocateOrRaise(d) ==
  /\ pc[d] = "fallocate"
  /\ \/ Goto(d, "syncPart") /\ UNCHANGED part
     \/ ExitLeaving(d, pc[d])
  /\ UNCHANGED <<path, survives, made, proof, masks>>

\* posix_fallocate and fsync reserve the space, or the .part is removed.
Fallocate(d) ==
  /\ pc[d] = "fallocate"
  /\ \/ Goto(d, "syncPart") /\ UNCHANGED part
     \/ UnlinkAndExit(d)
  /\ UNCHANGED <<path, survives, made, proof, masks>>

\* _fsync_dir(part) comes after the try: when it raises, the .part stays.
SyncPart(d) ==
  /\ pc[d] = "syncPart"
  /\ \/ Goto(d, "prove") /\ UNCHANGED part
     \/ ExitLeaving(d, pc[d])
  /\ UNCHANGED <<path, survives, made, proof, masks>>
--------------------------------------------------------------------------------
(***************************************************************************)
(* The proof, its ledger, and dump_proof                                   *)
(***************************************************************************)
\* tape.prove; any exception removes the reservation.
Prove(d) ==
  /\ pc[d] = "prove"
  /\ \/ /\ made < MaxProofs
        /\ made' = made + 1
        /\ proof' = [proof EXCEPT ![d] = made']
        /\ Goto(d, "save")
        /\ UNCHANGED part
     \/ UnlinkAndExit(d) /\ UNCHANGED <<made, proof>>
  /\ UNCHANGED <<path, survives, masks>>

\* record_openings and save of the commitment (module OpeningLedger), outside
\* any try: when they raise, the reservation stays.
SaveLedger(d) ==
  /\ pc[d] = "save"
  /\ \/ Goto(d, "record") /\ UNCHANGED part
     \/ ExitLeaving(d, pc[d])
  /\ UNCHANGED <<path, survives, made, proof, masks>>

\* Faulty variant of ReadMasks: a record that does not parse is passed over.
SkipTornMasks(d) ==
  /\ pc[d] = "record"
  /\ \/ masks.torn /\ Goto(d, "write") /\ UNCHANGED <<part, masks>>
     \/ /\ ~masks.torn
        /\ masks' = [masks EXCEPT !.torn = TRUE]
        /\ Goto(d, "rewrite")
        /\ UNCHANGED part
  /\ UNCHANGED <<path, survives, made, proof>>

\* The driver reads the record and opens it for writing, which truncates it; a
\* record that does not parse raises, and the reservation stays.
ReadMasks(d) ==
  /\ pc[d] = "record"
  /\ \/ /\ ~masks.torn
        /\ masks' = [masks EXCEPT !.torn = TRUE]
        /\ Goto(d, "rewrite")
        /\ UNCHANGED part
     \/ ExitLeaving(d, pc[d]) /\ UNCHANGED masks
  /\ UNCHANGED <<path, survives, made, proof>>

\* json.dump of the merged points into the truncated file
WriteMasks(d) ==
  /\ pc[d] = "rewrite"
  /\ \/ /\ masks' = [masks EXCEPT !.spent = @ \cup {proof[d]}, !.torn = FALSE]
        /\ Goto(d, "write")
        /\ UNCHANGED part
     \/ ExitLeaving(d, pc[d]) /\ UNCHANGED masks
  /\ UNCHANGED <<path, survives, made, proof>>

\* dump_proof opens the reserved .part by name, writes the document and
\* truncates; a reservation too small for the document, or an error, ends in
\* the driver's unlink.
Write(d) ==
  /\ pc[d] = "write"
  /\ \/ /\ part.there
        /\ part' = [part EXCEPT !.doc = [id |-> proof[d], by |-> d, whole |-> TRUE],
                                !.synced = FALSE]
        /\ Goto(d, "fsync")
     \/ UnlinkAndExit(d)
  /\ UNCHANGED <<path, survives, made, proof, masks>>

\* flush and os.fsync
Fsync(d) ==
  /\ pc[d] = "fsync"
  /\ \/ part' = [part EXCEPT !.synced = TRUE] /\ Goto(d, "replace")
     \/ UnlinkAndExit(d)
  /\ UNCHANGED <<path, survives, made, proof, masks>>

\* os.replace(part, path): whatever is at the path goes.
Replace(d) ==
  /\ pc[d] = "replace"
  /\ \/ /\ part.there
        /\ path' = part.doc
        /\ survives' = survives \cup
             {IF part.synced THEN part.doc ELSE [part.doc EXCEPT !.whole = FALSE]}
        /\ part' = NoPart
        /\ Goto(d, "dirsync")
     \/ UnlinkAndExit(d) /\ UNCHANGED <<path, survives>>
  /\ UNCHANGED <<made, proof, masks>>

\* _fsync_dir; the driver reports and ends.  When it raises, the except clause
\* unlinks by name a reservation that is no longer this driver's.
SyncDir(d) ==
  /\ pc[d] = "dirsync"
  /\ \/ /\ survives' = {c \in survives : c.id = path.id}
        /\ Exit(d)
        /\ UNCHANGED part
     \/ UnlinkAndExit(d) /\ UNCHANGED survives
  /\ UNCHANGED <<path, made, proof, masks>>
--------------------------------------------------------------------------------
(***************************************************************************)
(* Failures and the operator                                               *)
(***************************************************************************)
\* The driver is killed.
Die(d) ==
  /\ pc[d] # "idle"
  /\ ExitLeaving(d, "killed")
  /\ UNCHANGED <<path, survives, made, proof, masks>>

PowerLoss ==
  /\ pc' = [d \in Drivers |-> "idle"]
  /\ lock' = {}
  /\ path' \in survives
  /\ survives' = {path'}
  /\ \/ part' = NoPart
     \/ /\ part.there
        /\ part' = [part EXCEPT !.left = IF @ = "no" THEN "killed" ELSE @,
                                !.doc = Nothing]
  /\ proof' = [d \in Drivers |-> 0]
  /\ masks' \in {masks, [NoRecord EXCEPT !.lost = TRUE],
                [NoRecord EXCEPT !.torn = TRUE, !.lost = TRUE]}
  /\ UNCHANGED made

\* Between runs the operator removes a reservation that no live driver holds,
\* or takes a published proof to its verifier.
RemoveStalePart ==
  /\ part.there /\ part.left # "no"
  /\ part' = NoPart
  /\ UNCHANGED <<pc, lock, path, survives, made, proof, masks>>

TakeProof ==
  /\ path # Nothing
  /\ path' = Nothing
  /\ survives' = {Nothing}
  /\ UNCHANGED <<pc, lock, part, made, proof, masks>>

\* The operator deletes a record that no longer parses.
RemoveTornRecord ==
  /\ masks.torn /\ lock = {}
  /\ masks' = [NoRecord EXCEPT !.lost = TRUE]
  /\ UNCHANGED <<pc, lock, path, survives, part, made, proof>>

\* The straight-line program of one driver.
Work(d) ==
  \/ CheckPath(d) \/ CheckPart(d) \/ Create(d) \/ Fallocate(d) \/ SyncPart(d)
  \/ Prove(d) \/ SaveLedger(d) \/ ReadMasks(d) \/ WriteMasks(d) \/ Write(d)
  \/ Fsync(d) \/ Replace(d) \/ SyncDir(d)

Next ==
  \/ \E d \in Drivers : Begin(d) \/ Work(d) \/ Die(d)
  \/ PowerLoss \/ RemoveStalePart \/ TakeProof \/ RemoveTornRecord

Spec == Init /\ [][Next]_vars

\* A driver that runs keeps running: it waits for nothing after its flock.  No
\* fairness for Begin, for the failures or for the operator.
FairSpec == Spec /\ \A d \in Drivers : WF_vars(Work(d))
--------------------------------------------------------------------------------
(***************************************************************************)
(* Properties                                                              *)
(***************************************************************************)
\* A driver between its reservation and its rename works on the .part that it
\* created itself: no driver that failed, was killed or restarted, and no
\* clean-up, took it away or left another in its place.
OwnReservation ==
  \A d \in Drivers : pc[d] \in Holding => part.there /\ part.owner = d

\* "a proof already at `path`, or a stale .part, is never silently replaced"
NeverReplaced == [][path # Nothing => path' \in {path, Nothing}]_path

\* What the path shows, now or after a power loss, is no proof or a whole one
\* ("the rename makes the final path appear only once the whole document is on
\* disk and fsynced"), and its mask points are on record: whatever kills, torn
\* records and refused runs came before it, the record lists every proof that
\* was published, until a power loss or the operator takes the record.
PublishedIsRecorded ==
  \A c \in {path} \cup survives :
    c # Nothing => c.whole /\ (masks.lost \/ c.id \in masks.spent)

\* The flock and the reservation of a driver that goes on come to an end: the
\* .part is renamed to a proof or unlinked, whichever of the guarded steps fails.
\* It is left on disk, where it refuses every later run until the operator
\* removes it, after a kill or a power loss and when one of the steps outside
\* any try raises: the directory sync of reserve_output, and the ledger and the
\* mask record between the proof and dump_proof.
Unguarded == {"syncPart", "save", "record", "rewrite"}
Reserved(d) == part.there /\ part.owner = d
ReservationConcludes ==
  \A d \in Drivers :
    d \in lock \/ Reserved(d) ~>
      d \notin lock /\ (Reserved(d) => part.left \in Unguarded \cup {"killed"})
================================================================================
