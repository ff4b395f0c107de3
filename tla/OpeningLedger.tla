----------------------------- MODULE OpeningLedger -----------------------------
(***************************************************************************)
(* The opening ledger of one weight-commitment file, as the production     *)
(* driver (demo/demo_maverick_full.py) and WeightCommitment                *)
(* (prover/core.py) keep it.                                               *)
(*                                                                         *)
(* Several driver processes run against the same path.  A proving driver   *)
(* takes the flock, loads the handle, proves (where check_openings may     *)
(* refuse), books the opened columns, saves the handle and only then       *)
(* writes the proof.  An enrolling driver writes a handle with a fresh     *)
(* root to the same path and takes no lock.  A save writes <path>.part,    *)
(* fsyncs it, renames it over the path and fsyncs the directory.           *)
(*                                                                         *)
(* The file system is modelled as far as crashes and shared .part files    *)
(* can tell: what a path shows, what a power loss may leave at it, and     *)
(* which inode an open descriptor writes to.                               *)
(***************************************************************************)
EXTENDS Integers, FiniteSets

CONSTANTS
  Drivers,    (* driver processes                                          *)
  Roots, Columns, T_QUERIES, Slack,   (* as in PadBudget                   *)
  NoRoot      (* the root of a file that does not load                     *)

ASSUME LedgerAssumption ==
  /\ IsFiniteSet(Columns)
  /\ T_QUERIES \in Nat
  /\ Slack \in Nat
  /\ NoRoot \notin Roots

VARIABLES
  pc,         (* what each driver does next                                *)
  wc,         (* its in-memory WeightCommitment                            *)
  want,       (* --expected-weight-root of a proving driver                *)
  Q,          (* the columns its proof opens                               *)
  lock,       (* holders of the flock on <path>.lock                       *)
  file,       (* what the path shows: contents, and whether they are on disk *)
  survives,   (* the contents a power loss may leave at the path           *)
  part,       (* <path>.part                                               *)
  fd,         (* where the save descriptor of a driver writes              *)
  released,   (* columns of each root that were ever written to a proof file *)
  enrolled    (* roots drawn by enrollments so far                         *)

procVars == <<pc, wc, want, Q, lock, fd>>
vars == <<pc, wc, want, Q, lock, file, survives, part, fd, released, enrolled>>

PB == INSTANCE PadBudget

Handle == [root : Roots \cup {NoRoot}, opened : SUBSET Columns]

\* A missing, truncated or scrambled file: WeightCommitment.load raises.
Unreadable == [root |-> NoRoot, opened |-> {}]

NoPart == [there |-> FALSE, data |-> Unreadable, synced |-> FALSE]

Challenges == {q \in SUBSET Columns : Cardinality(q) = T_QUERIES}

Steps == {"idle", "load", "prove", "save", "write", "fsync", "replace",
          "dirsync", "dump"}

Init ==
  /\ pc = [p \in Drivers |-> "idle"]
  /\ wc = [p \in Drivers |-> Unreadable]
  /\ want = [p \in Drivers |-> NoRoot]
  /\ Q = [p \in Drivers |-> {}]
  /\ lock = {}
  /\ file = [data |-> Unreadable, synced |-> TRUE]
  /\ survives = {Unreadable}
  /\ part = NoPart
  /\ fd = [p \in Drivers |-> "closed"]
  /\ released = [r \in Roots |-> {}]
  /\ enrolled = {}

Goto(p, step) == pc' = [pc EXCEPT ![p] = step]

\* The process ends, normally or not: the kernel closes its descriptors and
\* drops its flock.
Exit(p) ==
  /\ Goto(p, "idle")
  /\ wc' = [wc EXCEPT ![p] = Unreadable]
  /\ want' = [want EXCEPT ![p] = NoRoot]
  /\ Q' = [Q EXCEPT ![p] = {}]
  /\ lock' = lock \ {p}
  /\ fd' = [fd EXCEPT ![p] = "closed"]
--------------------------------------------------------------------------------
(***************************************************************************)
(* The driver up to the proof                                              *)
(***************************************************************************)
\* --enroll-weights: a handle under a fresh secret seed, hence a fresh root,
\* and an empty ledger.  No lock is taken.
StartEnrolling(p) ==
  /\ pc[p] = "idle"
  /\ \E r \in Roots \ enrolled :
       /\ enrolled' = enrolled \cup {r}
       /\ wc' = [wc EXCEPT ![p] = [root |-> r, opened |-> {}]]
  /\ Goto(p, "save")
  /\ UNCHANGED <<want, Q, lock, file, survives, part, fd, released>>

\* Faulty variant of StartProving: the ledger is read without the lock.
StartProvingUnlocked(p) ==
  /\ pc[p] = "idle"
  /\ lock' = lock \cup {p}
  /\ \E r \in Roots : want' = [want EXCEPT ![p] = r]
  /\ Goto(p, "load")
  /\ UNCHANGED <<wc, Q, file, survives, part, fd, released, enrolled>>

\* flock(LOCK_EX | LOCK_NB); a driver that finds it held exits at once.
StartProving(p) ==
  /\ pc[p] = "idle"
  /\ lock = {}
  /\ lock' = {p}
  /\ \E r \in Roots : want' = [want EXCEPT ![p] = r]
  /\ Goto(p, "load")
  /\ UNCHANGED <<wc, Q, file, survives, part, fd, released, enrolled>>

\* WeightCommitment.load, then the driver refuses any root but the expected one.
Load(p) ==
  /\ pc[p] = "load"
  /\ IF file.data.root = want[p]
       THEN /\ wc' = [wc EXCEPT ![p] = file.data]
            /\ Goto(p, "prove")
            /\ UNCHANGED <<want, Q, lock, fd>>
       ELSE Exit(p)
  /\ UNCHANGED <<file, survives, part, released, enrolled>>

\* Faulty variant of Admits: each proof is rationed on its own.
AdmitsEachAlone(opened, q) == PB!Fits({}, q)

\* check_openings: how much of the pad this proof would leave spent
Admits(opened, q) == PB!Fits(opened, q)

\* tape.prove: s_col fixes the columns, then check_openings admits or refuses
\* them before any weight column is produced.
Prove(p) ==
  /\ pc[p] = "prove"
  /\ \E q \in Challenges :
       IF Admits(wc[p].opened, q)
         THEN /\ Q' = [Q EXCEPT ![p] = q]
              /\ Goto(p, "save")
              /\ UNCHANGED <<wc, want, lock, fd>>
         ELSE Exit(p)
  /\ UNCHANGED <<file, survives, part, released, enrolled>>
--------------------------------------------------------------------------------
(***************************************************************************)
(* WeightCommitment.save                                                   *)
(***************************************************************************)
\* record_openings books the columns in memory (an enrollment has none), then
\* save opens <path>.part for writing: an existing one is truncated, and a
\* driver that still has it open shares the inode.
OpenPart(p) ==
  /\ pc[p] = "save"
  /\ wc' = [wc EXCEPT ![p].opened = @ \cup Q[p]]
  /\ part' = [there |-> TRUE, data |-> Unreadable, synced |-> FALSE]
  /\ fd' = [fd EXCEPT ![p] = "part"]
  /\ Goto(p, "write")
  /\ UNCHANGED <<want, Q, lock, file, survives, released, enrolled>>

\* What an inode holds once p has written all of its bytes: its handle, unless
\* the bytes of another writer are mixed in (then the tree does not build the
\* root, or bytes trail, and the file does not load).
Mixed(p, data) ==
  {wc[p]} \cup IF data # Unreadable \/ \E q \in Drivers \ {p} : fd[q] = fd[p]
                 THEN {Unreadable} ELSE {}

\* The inode may meanwhile have been renamed to the path by another driver
\* ("file"), or have been replaced there ("gone").
WritePart(p) ==
  /\ pc[p] = "write"
  /\ \/ /\ fd[p] = "part"
        /\ \E d \in Mixed(p, part.data) :
             part' = [part EXCEPT !.data = d, !.synced = FALSE]
        /\ UNCHANGED <<file, survives>>
     \/ /\ fd[p] = "file"
        /\ \E d \in Mixed(p, file.data) :
             /\ file' = [data |-> d, synced |-> FALSE]
             /\ survives' = survives \cup {d, Unreadable}
        /\ UNCHANGED part
     \/ /\ fd[p] = "gone"
        /\ UNCHANGED <<file, survives, part>>
  /\ Goto(p, "fsync")
  /\ UNCHANGED <<wc, want, Q, lock, fd, released, enrolled>>

\* flush, os.fsync and the close at the end of the with block
FsyncPart(p) ==
  /\ pc[p] = "fsync"
  /\ part' = [part EXCEPT !.synced = @ \/ fd[p] = "part"]
  /\ file' = [file EXCEPT !.synced = @ \/ fd[p] = "file"]
  /\ fd' = [fd EXCEPT ![p] = "closed"]
  /\ Goto(p, "replace")
  /\ UNCHANGED <<wc, want, Q, lock, survives, released, enrolled>>

\* os.replace(part, path).  Until the directory is synced a power loss may show
\* the old contents or the new; it raises when another driver took the .part.
Replace(p) ==
  /\ pc[p] = "replace"
  /\ IF part.there
       THEN /\ file' = [data |-> part.data, synced |-> part.synced]
            /\ survives' = survives \cup {part.data}
                             \cup (IF part.synced THEN {} ELSE {Unreadable})
            /\ part' = NoPart
            /\ fd' = [q \in Drivers |-> CASE fd[q] = "part" -> "file"
                                          [] fd[q] = "file" -> "gone"
                                          [] OTHER -> fd[q]]
            /\ Goto(p, "dirsync")
            /\ UNCHANGED <<wc, want, Q, lock>>
       ELSE /\ Exit(p)
            /\ UNCHANGED <<file, survives, part>>
  /\ UNCHANGED <<released, enrolled>>

\* Faulty variant of SyncDir: the rename is not made durable.
SyncNothing(p) ==
  /\ pc[p] = "dirsync"
  /\ IF p \in lock
       THEN Goto(p, "dump") /\ UNCHANGED <<wc, want, Q, lock, fd>>
       ELSE Exit(p)
  /\ UNCHANGED <<file, survives, part, released, enrolled>>

\* fsync of the directory makes the name durable; a proving driver goes on to
\* write the proof, an enrolling one prints its root and ends.
SyncDir(p) ==
  /\ pc[p] = "dirsync"
  /\ survives' = {file.data} \cup (IF file.synced THEN {} ELSE {Unreadable})
  /\ IF p \in lock
       THEN Goto(p, "dump") /\ UNCHANGED <<wc, want, Q, lock, fd>>
       ELSE Exit(p)
  /\ UNCHANGED <<file, part, released, enrolled>>
--------------------------------------------------------------------------------
(***************************************************************************)
(* The proof file, and failures                                            *)
(***************************************************************************)
\* dump_proof: from its first byte on, the opened columns are out, whether or
\* not the file is ever completed.
Dump(p) ==
  /\ pc[p] = "dump"
  /\ released' = [released EXCEPT ![wc[p].root] = @ \cup Q[p]]
  /\ Exit(p)
  /\ UNCHANGED <<file, survives, part, enrolled>>

\* A driver is killed, or a step of it raises: main() has no handler that
\* would undo anything here.
Die(p) ==
  /\ pc[p] # "idle"
  /\ Exit(p)
  /\ UNCHANGED <<file, survives, part, released, enrolled>>

\* The machine loses power: every process is gone, the path shows one of the
\* contents that could survive, and so does the .part file.
PowerLoss ==
  /\ pc' = [p \in Drivers |-> "idle"]
  /\ wc' = [p \in Drivers |-> Unreadable]
  /\ want' = [p \in Drivers |-> NoRoot]
  /\ Q' = [p \in Drivers |-> {}]
  /\ lock' = {}
  /\ fd' = [p \in Drivers |-> "closed"]
  /\ \E c \in survives : file' = [data |-> c, synced |-> TRUE]
  /\ survives' = {file'.data}
  /\ part' \in {NoPart, part, [part EXCEPT !.data = Unreadable]}
  /\ UNCHANGED <<released, enrolled>>

Next ==
  \/ \E p \in Drivers :
       \/ StartEnrolling(p) \/ StartProving(p) \/ Load(p) \/ Prove(p)
       \/ OpenPart(p) \/ WritePart(p) \/ FsyncPart(p) \/ Replace(p)
       \/ SyncDir(p) \/ Dump(p) \/ Die(p)
  \/ PowerLoss

Spec == Init /\ [][Next]_vars
--------------------------------------------------------------------------------
(***************************************************************************)
(* Properties                                                              *)
(***************************************************************************)
\* Types, and what ending a process must leave behind: at most one driver holds
\* the flock, and a driver that is not running holds nothing.
TypeOK ==
  /\ pc \in [Drivers -> Steps]
  /\ wc \in [Drivers -> Handle]
  /\ want \in [Drivers -> Roots \cup {NoRoot}]
  /\ Q \in [Drivers -> SUBSET Columns]
  /\ lock \subseteq Drivers
  /\ \A p, q \in lock : p = q
  /\ file \in [data : Handle, synced : BOOLEAN]
  /\ survives \subseteq Handle
  /\ part \in [there : BOOLEAN, data : Handle, synced : BOOLEAN]
  /\ fd \in [Drivers -> {"closed", "part", "file", "gone"}]
  /\ released \in [Roots -> SUBSET Columns]
  /\ enrolled \subseteq Roots
  /\ \A p \in Drivers : pc[p] = "idle" => p \notin lock /\ fd[p] = "closed"

\* A handle that does not forget a column of its root that is out.
Covers(c) == c.root \in Roots => released[c.root] \subseteq c.opened

\* "Book and durably save the leakage BEFORE publishing the proof": whatever the
\* path shows now, and whatever a power loss would leave at it, a handle that
\* loads has every column of its root that was ever written out.
BookedBeforeReleased == \A c \in {file.data} \cup survives : Covers(c)

\* "Without the lock, two concurrent provers can both read the same opening set":
\* from the moment a prover has loaded its handle until its own columns are out,
\* the ledger it decides on lacks no column of its root that is out.
LedgerIsFresh ==
  \A p \in lock : pc[p] \notin {"idle", "load"} => Covers(wc[p])

\* The columns of a root revealed over all processes, crashes and re-enrollments
\* grow one admitted proof at a time and never exceed the budget of the padding:
\* the driver implements PadBudget.
ImplementsPadBudget == PB!Spec
================================================================================
