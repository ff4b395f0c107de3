--------------------------- MODULE ProofOutput_proofs ---------------------------
(***************************************************************************)
(* Proofs about the proof file, for any number of drivers and of proofs.   *)
(*                                                                         *)
(* They hold for drivers that name the same commitment: the flock is what  *)
(* keeps them apart (with a commitment each, the path is overwritten: run  *)
(* proof_output_ledgers).                                                  *)
(*                                                                         *)
(* OwnReservation is not inductive: that no other driver unlinks or takes  *)
(* the .part follows from the flock, and that the rename meets an empty    *)
(* path from a check made hours earlier.  IInv carries both through every  *)
(* step, with what the reserved inode and the mask record hold by then.    *)
(***************************************************************************)
EXTENDS ProofOutput, TLAPS

SharedCommitment == \A d, e \in Drivers : LedgerOf[d] = LedgerOf[e]

Ends == {"no", "killed"} \cup Holding
Reservation == [there : BOOLEAN, owner : Drivers \cup {NoDriver}, left : Ends,
                doc : Document, synced : BOOLEAN]
MaskRecord == [spent : SUBSET (0..MaxProofs), torn : BOOLEAN, lost : BOOLEAN]

Types ==
  /\ pc \in [Drivers -> Steps]
  /\ lock \subseteq Drivers
  /\ path \in Document
  /\ survives \subseteq Document
  /\ part \in Reservation
  /\ made \in 0..MaxProofs
  /\ proof \in [Drivers -> 0..MaxProofs]
  /\ masks \in MaskRecord

\* One driver at a time is past its flock.
OneAtWork ==
  /\ \A d, e \in lock : d = e
  /\ \A d \in Drivers : pc[d] # "idle" => d \in lock

\* From its check of the path to its rename a driver finds the path empty.
PathStaysFree ==
  \A d \in Drivers : pc[d] \in {"checkPart", "create"} \cup Holding => path = Nothing

\* A power loss leaves what the path shows or nothing.
SurvivesIsPath == survives \subseteq {Nothing, path}

Spent(id) == masks.lost \/ id \in masks.spent

\* A driver at work has not ended, and what it put in the reserved inode, and
\* when that is on disk.
DocumentInPart ==
  \A d \in Drivers :
    /\ pc[d] \in Holding => part.left = "no"
    /\ pc[d] \in {"fsync", "replace"} => part.doc = [id |-> proof[d], by |-> d, whole |-> TRUE]
    /\ pc[d] = "replace" => part.synced
    /\ pc[d] \in {"write", "fsync", "replace"} => Spent(proof[d])

PathIsRecorded == path # Nothing => path.whole /\ Spent(path.id)

IInv ==
  /\ Types
  /\ OneAtWork
  /\ OwnReservation
  /\ PathStaysFree
  /\ SurvivesIsPath
  /\ DocumentInPart
  /\ PathIsRecorded
--------------------------------------------------------------------------------
(***************************************************************************)
(* Types                                                                   *)
(***************************************************************************)
LEMMA Constants_ == MaxProofs \in Nat /\ 0 \in 0..MaxProofs /\ NoDriver \notin Drivers
  BY OutputAssumption

\* Nothing, an absent .part and an empty record have the types of the real ones.
LEMMA EmptyTypes ==
  /\ Nothing \in Document
  /\ NoPart \in Reservation
  /\ \A t, l \in BOOLEAN : [NoRecord EXCEPT !.torn = t, !.lost = l] \in MaskRecord
  /\ [NoRecord EXCEPT !.lost = TRUE] \in MaskRecord
<1>1. Nothing \in Document
  BY Constants_ DEF Nothing, Document
<1>2. NoPart \in Reservation
  BY <1>1 DEF NoPart, Reservation, Ends
<1>3. ASSUME NEW t \in BOOLEAN, NEW l \in BOOLEAN
      PROVE  [NoRecord EXCEPT !.torn = t, !.lost = l] \in MaskRecord
  BY DEF NoRecord, MaskRecord
<1>4. [NoRecord EXCEPT !.lost = TRUE] \in MaskRecord
  BY DEF NoRecord, MaskRecord
<1> QED BY <1>1, <1>2, <1>3, <1>4

\* A reservation with another owner, end, contents or state of the disk is one.
LEMMA ReservationTypes ==
  ASSUME NEW r \in Reservation
  PROVE  /\ \A o \in Drivers \cup {NoDriver} : [r EXCEPT !.owner = o] \in Reservation
         /\ \A b \in BOOLEAN : [r EXCEPT !.synced = b] \in Reservation
         /\ \A c \in Document, b \in BOOLEAN : [r EXCEPT !.doc = c, !.synced = b] \in Reservation
         /\ \A w \in Ends : [r EXCEPT !.left = w] \in Reservation
         /\ \A c \in Document, w \in Ends : [r EXCEPT !.left = w, !.doc = c] \in Reservation
         /\ \A b \in BOOLEAN, o \in Drivers \cup {NoDriver} :
              [r EXCEPT !.there = b, !.owner = o] \in Reservation
         /\ r.doc \in Document /\ r.left \in Ends
  BY DEF Reservation

\* Whichever way a driver leaves, and wherever it goes, the types stay.
LEMMA MoveTypes ==
  ASSUME Types, NEW d \in Drivers
  PROVE  /\ \A step \in Steps : Goto(d, step) => pc' \in [Drivers -> Steps] /\ lock' \subseteq Drivers
         /\ Exit(d) => pc' \in [Drivers -> Steps] /\ lock' \subseteq Drivers
         /\ UnlinkAndExit(d) =>
              pc' \in [Drivers -> Steps] /\ lock' \subseteq Drivers /\ part' \in Reservation
         /\ \A why \in Ends : ExitLeaving(d, why) =>
              pc' \in [Drivers -> Steps] /\ lock' \subseteq Drivers /\ part' \in Reservation
<1>1. ASSUME NEW step \in Steps, Goto(d, step)
      PROVE  pc' \in [Drivers -> Steps] /\ lock' \subseteq Drivers
  BY <1>1 DEF Types, Goto
<1>2. Exit(d) => pc' \in [Drivers -> Steps] /\ lock' \subseteq Drivers
  BY DEF Types, Exit, Steps
<1>3. UnlinkAndExit(d) => part' \in Reservation
  BY EmptyTypes DEF UnlinkAndExit
<1>4. ASSUME NEW why \in Ends, ExitLeaving(d, why)
      PROVE  Exit(d) /\ part' \in Reservation
  BY <1>4, ReservationTypes DEF Types, ExitLeaving
<1> QED
  BY <1>1, <1>2, <1>3, <1>4 DEF UnlinkAndExit

\* Every step of a driver keeps the types.
LEMMA WorkTypes ==
  ASSUME Types, NEW d \in Drivers, Work(d)
  PROVE  Types'
<1> DEFINE Moves == pc' \in [Drivers -> Steps] /\ lock' \subseteq Drivers
<1>1. Moves /\ part' \in Reservation /\ UNCHANGED <<path, survives, made, proof, masks>> => Types'
  BY DEF Types
<1>2. \A step \in {"checkPart", "create", "fallocate", "prove", "save", "record", "rewrite",
                   "write", "fsync", "replace", "dirsync"} : step \in Steps
  BY DEF Steps, Holding
<1>2a. "syncPart" \in Steps
      /\ \A end \in {"syncPart", "save", "record", "rewrite", "killed"} : end \in Ends
  BY DEF Steps, Ends, Holding
<1> HIDE DEF Moves
<1>3. CASE CheckPath(d) \/ CheckPart(d)
  BY MoveTypes, <1>1, <1>2, <1>3 DEF CheckPath, CheckPart, Types, Moves
<1>4. CASE Create(d)
  BY MoveTypes, <1>1, <1>2, EmptyTypes, ReservationTypes, <1>4 DEF Create, Types, Moves
<1>5. CASE Fallocate(d) \/ SyncPart(d)
  <2>1. Moves /\ part' \in Reservation
    BY MoveTypes, <1>2a, <1>2, <1>5 DEF Fallocate, SyncPart, Types, Moves
  <2> QED BY <1>1, <1>5, <2>1 DEF Fallocate, SyncPart
<1>6. CASE Prove(d)
  <2>1. Moves /\ part' \in Reservation
    BY MoveTypes, <1>2, <1>6 DEF Prove, Types, Moves
  <2>2. made' \in 0..MaxProofs /\ proof' \in [Drivers -> 0..MaxProofs]
    <3>1. CASE UNCHANGED <<made, proof>>
      BY <3>1 DEF Types
    <3>2. CASE made < MaxProofs /\ made' = made + 1 /\ proof' = [proof EXCEPT ![d] = made']
      <4>1. made + 1 \in 0..MaxProofs
        BY <3>2, Constants_ DEF Types
      <4> QED BY <3>2, <4>1 DEF Types
    <3> QED BY <1>6, <3>1, <3>2 DEF Prove
  <2> QED BY <1>6, <2>1, <2>2 DEF Prove, Types, Moves
<1>7. CASE SaveLedger(d)
  BY MoveTypes, <1>2a, <1>1, <1>2, <1>7 DEF SaveLedger, Types, Moves
<1>8. CASE ReadMasks(d) \/ WriteMasks(d)
  <2>1. Moves /\ part' \in Reservation
    BY MoveTypes, <1>2a, <1>2, <1>8 DEF ReadMasks, WriteMasks, Types, Moves
  <2>2. masks' \in MaskRecord
    <3>1. masks' = [masks EXCEPT !.spent = @ \cup {proof[d]}, !.torn = FALSE] => masks' \in MaskRecord
      <4>1. masks.spent \cup {proof[d]} \in SUBSET (0..MaxProofs)
        BY DEF Types, MaskRecord
      <4> QED BY <4>1 DEF Types, MaskRecord
    <3>2. masks' = [masks EXCEPT !.torn = TRUE] => masks' \in MaskRecord
      BY DEF Types, MaskRecord
    <3> QED BY <1>8, <3>1, <3>2 DEF ReadMasks, WriteMasks, Types
  <2> QED BY <1>8, <2>1, <2>2 DEF ReadMasks, WriteMasks, Types, Moves
<1>9. CASE Write(d)
  <2>1. [id |-> proof[d], by |-> d, whole |-> TRUE] \in Document
    BY DEF Types, Document
  <2> QED BY MoveTypes, <1>1, <1>2, ReservationTypes, <1>9, <2>1 DEF Write, Types, Moves
<1>10. CASE Fsync(d)
  BY MoveTypes, <1>1, <1>2, ReservationTypes, <1>10 DEF Fsync, Types, Moves
<1>11. CASE Replace(d)
  <2>1. part.doc \in Document /\ [part.doc EXCEPT !.whole = FALSE] \in Document
    BY DEF Types, Document, Reservation
  <2>2. Moves /\ part' \in Reservation /\ path' \in Document /\ survives' \subseteq Document
    BY MoveTypes, <1>2, EmptyTypes, <1>11, <2>1 DEF Replace, Types, Moves
  <2> QED BY <1>11, <2>2 DEF Replace, Types, Moves
<1>12. CASE SyncDir(d)
  <2>1. Moves /\ part' \in Reservation /\ survives' \subseteq Document
    BY MoveTypes, <1>12 DEF SyncDir, Types, Moves
  <2> QED BY <1>12, <2>1 DEF SyncDir, Types, Moves
<1> QED
  BY <1>3, <1>4, <1>5, <1>6, <1>7, <1>8, <1>9, <1>10, <1>11, <1>12 DEF Work

\* Every driver stays where it can be.
LEMMA TypeStep == Types /\ [Next]_vars => Types'
<1> SUFFICES ASSUME Types, [Next]_vars PROVE Types'
  OBVIOUS
<1>1. CASE UNCHANGED vars
  BY <1>1 DEF Types, vars
<1>2. ASSUME NEW d \in Drivers, Begin(d) PROVE Types'
  BY <1>2 DEF Types, Begin, Steps
<1>3. ASSUME NEW d \in Drivers, Work(d) PROVE Types'
  BY <1>3, WorkTypes
<1>4. ASSUME NEW d \in Drivers, Die(d) PROVE Types'
  BY <1>4, MoveTypes DEF Types, Die, Ends
<1>5. CASE PowerLoss
  <2>1. part' \in Reservation
    <3>1. part \in Reservation /\ NoPart \in Reservation /\ Nothing \in Document
      BY EmptyTypes DEF Types
    <3>2. \A w \in Ends : [part EXCEPT !.left = w, !.doc = Nothing] \in Reservation
      BY <3>1, ReservationTypes
    <3>3. (IF part.left = "no" THEN "killed" ELSE part.left) \in Ends
      BY <3>1, ReservationTypes DEF Ends
    <3> QED BY <1>5, <3>1, <3>2, <3>3 DEF PowerLoss
  <2>2. masks' \in MaskRecord
    BY <1>5, EmptyTypes DEF PowerLoss, Types
  <2>3. path' \in Document /\ survives' \subseteq Document
    BY <1>5 DEF PowerLoss, Types
  <2>4. pc' \in [Drivers -> Steps]
    BY <1>5 DEF PowerLoss, Steps
  <2>5. proof' \in [Drivers -> 0..MaxProofs]
    BY <1>5, Constants_ DEF PowerLoss
  <2> QED BY <1>5, <2>1, <2>2, <2>3, <2>4, <2>5 DEF PowerLoss, Types
<1>6. CASE RemoveStalePart
  BY <1>6, EmptyTypes DEF Types, RemoveStalePart
<1>7. CASE TakeProof
  BY <1>7, EmptyTypes DEF Types, TakeProof
<1>8. CASE RemoveTornRecord
  BY <1>8, EmptyTypes DEF Types, RemoveTornRecord
<1> QED
  BY <1>1, <1>2, <1>3, <1>4, <1>5, <1>6, <1>7, <1>8 DEF Next
--------------------------------------------------------------------------------
(***************************************************************************)
(* The inductive invariant                                                 *)
(***************************************************************************)
LEMMA InitHolds == Init => IInv
<1> SUFFICES ASSUME Init PROVE IInv
  OBVIOUS
<1>1. Types
  <2>1. NoRecord \in MaskRecord
    BY DEF NoRecord, MaskRecord
  <2>2. pc \in [Drivers -> Steps] /\ proof \in [Drivers -> 0..MaxProofs]
    BY Constants_ DEF Init, Steps
  <2> QED BY <2>1, <2>2, EmptyTypes, Constants_ DEF Init, Types
<1>2. OneAtWork /\ OwnReservation /\ PathStaysFree /\ DocumentInPart
  BY DEF Init, OneAtWork, OwnReservation, PathStaysFree, DocumentInPart, Holding
<1>3. SurvivesIsPath /\ PathIsRecorded
  BY DEF Init, SurvivesIsPath, PathIsRecorded
<1> QED
  BY <1>1, <1>2, <1>3 DEF IInv

\* While a driver is past its flock, the others are idle.
LEMMA OthersIdle ==
  ASSUME Types, OneAtWork, NEW d \in Drivers, pc[d] # "idle"
  PROVE  \A e \in Drivers \ {d} : pc[e] = "idle"
  BY DEF OneAtWork

\* A move of the working driver keeps the others idle and the flock its own.
LEMMA WorkingAlone ==
  ASSUME Types, OneAtWork, NEW d \in Drivers, pc[d] # "idle"
  PROVE  /\ \A step \in Steps : Goto(d, step) =>
              /\ pc'[d] = step
              /\ \A e \in Drivers \ {d} : pc'[e] = "idle"
              /\ OneAtWork'
         /\ Exit(d) => (\A e \in Drivers : pc'[e] = "idle") /\ OneAtWork'
<1>1. \A e \in Drivers \ {d} : pc[e] = "idle"
  BY OthersIdle
<1>2. ASSUME NEW step \in Steps, Goto(d, step)
      PROVE  /\ pc'[d] = step
             /\ \A e \in Drivers \ {d} : pc'[e] = "idle"
             /\ OneAtWork'
  BY <1>1, <1>2 DEF Goto, Types, OneAtWork
<1>3. ASSUME Exit(d)
      PROVE  (\A e \in Drivers : pc'[e] = "idle") /\ OneAtWork'
  BY <1>1, <1>3 DEF Exit, Types, OneAtWork
<1> QED
  BY <1>2, <1>3

\* A driver that leaves, unlinking its reservation or not, keeps the
\* invariant when what the path shows and the record stay as they were.
LEMMA Leaving ==
  ASSUME IInv, Types', NEW d \in Drivers, pc[d] # "idle", Exit(d),
         path' = path, survives' \subseteq survives, masks' = masks
  PROVE  IInv'
<1>1. OneAtWork' /\ \A e \in Drivers : pc'[e] = "idle"
  BY WorkingAlone DEF IInv
<1>2. (OwnReservation /\ PathStaysFree /\ DocumentInPart)'
  BY <1>1 DEF OwnReservation, PathStaysFree, DocumentInPart, Holding
<1>3. SurvivesIsPath' /\ PathIsRecorded'
  BY DEF IInv, SurvivesIsPath, PathIsRecorded, Spent
<1> QED
  BY <1>1, <1>2, <1>3 DEF IInv

\* The step of a working driver that stays at work keeps the invariant when it
\* leaves the path alone and what IInv says of this driver holds again.
LEMMA Staying ==
  ASSUME IInv, Types', NEW d \in Drivers, pc[d] # "idle", NEW step \in Steps, Goto(d, step),
         path' = path, survives' = survives,
         masks'.lost = masks.lost, masks.spent \subseteq masks'.spent,
         step \in Holding => part'.there /\ part'.owner = d /\ part'.left = "no",
         step \in {"checkPart", "create"} \cup Holding => path = Nothing,
         step \in {"fsync", "replace"} =>
           part'.doc = [id |-> proof'[d], by |-> d, whole |-> TRUE],
         step = "replace" => part'.synced,
         step \in {"write", "fsync", "replace"} => Spent(proof[d])'
  PROVE  IInv'
<1>1. pc'[d] = step /\ (\A e \in Drivers \ {d} : pc'[e] = "idle") /\ OneAtWork'
  BY WorkingAlone DEF IInv
<1>2. OwnReservation' /\ PathStaysFree'
  BY <1>1 DEF OwnReservation, PathStaysFree, Holding
<1>3. DocumentInPart'
  BY <1>1 DEF DocumentInPart, Holding
<1>4. SurvivesIsPath' /\ PathIsRecorded'
  BY DEF IInv, SurvivesIsPath, PathIsRecorded, Spent
<1> QED
  BY <1>1, <1>2, <1>3, <1>4 DEF IInv

\* Each step of the straight-line program keeps the invariant.
LEMMA WorkStep ==
  ASSUME IInv, Types', NEW d \in Drivers, Work(d)
  PROVE  IInv'
<1> DEFINE Keeps == path' = path /\ survives' = survives /\ masks' = masks
<1>1. pc[d] # "idle"
  BY DEF Work, CheckPath, CheckPart, Create, Fallocate, SyncPart, Prove, SaveLedger,
         ReadMasks, WriteMasks, Write, Fsync, Replace, SyncDir
<1>2. /\ pc[d] \in Holding => part.there /\ part.owner = d /\ part.left = "no"
      /\ pc[d] \in {"checkPart", "create"} \cup Holding => path = Nothing
      /\ pc[d] \in {"fsync", "replace"} => part.doc = [id |-> proof[d], by |-> d, whole |-> TRUE]
      /\ pc[d] = "replace" => part.synced
      /\ pc[d] \in {"write", "fsync", "replace"} => Spent(proof[d])
  BY DEF IInv, OwnReservation, PathStaysFree, DocumentInPart
<1>3. ASSUME Exit(d), Keeps PROVE IInv'
  BY <1>1, <1>3, Leaving
<1>4. CASE CheckPath(d)
  <2>1. CASE path = Nothing
    BY <1>1, <1>4, <2>1, Staying DEF CheckPath, Steps, Holding
  <2>2. CASE path # Nothing
    BY <1>3, <1>4, <2>2 DEF CheckPath
  <2> QED BY <2>1, <2>2
<1>5. CASE CheckPart(d)
  <2>1. CASE Goto(d, "create")
    BY <1>1, <1>2, <1>5, <2>1, Staying DEF CheckPart, Steps, Holding
  <2> QED BY <1>3, <1>5, <2>1 DEF CheckPart
<1>6. CASE Create(d)
  <2>1. CASE ~part.there
    <3>1. part'.there /\ part'.owner = d /\ part'.left = "no"
      BY <1>6, <2>1 DEF Create, NoPart
    <3> QED BY <1>1, <1>2, <1>6, <2>1, <3>1, Staying DEF Create, Steps, Holding
  <2>2. CASE part.there
    BY <1>3, <1>6, <2>2 DEF Create
  <2> QED BY <2>1, <2>2
<1>7. CASE Fallocate(d)
  <2>1. CASE Goto(d, "syncPart") /\ UNCHANGED part
    BY <1>1, <1>2, <1>7, <2>1, Staying DEF Fallocate, Steps, Holding
  <2> QED BY <1>3, <1>7, <2>1 DEF Fallocate, UnlinkAndExit
<1>7a. CASE SyncPart(d)
  <2>1. CASE Goto(d, "prove") /\ UNCHANGED part
    BY <1>1, <1>2, <1>7a, <2>1, Staying DEF SyncPart, Steps, Holding
  <2> QED BY <1>3, <1>7a, <2>1 DEF SyncPart, ExitLeaving
<1>8. CASE Prove(d)
  <2>1. CASE Goto(d, "save") /\ UNCHANGED part
    BY <1>1, <1>2, <1>8, <2>1, Staying DEF Prove, Steps, Holding
  <2> QED BY <1>3, <1>8, <2>1 DEF Prove, UnlinkAndExit
<1>9. CASE SaveLedger(d)
  <2>1. CASE Goto(d, "record") /\ UNCHANGED part
    BY <1>1, <1>2, <1>9, <2>1, Staying DEF SaveLedger, Steps, Holding
  <2> QED BY <1>3, <1>9, <2>1 DEF SaveLedger, ExitLeaving
<1>10. CASE ReadMasks(d)
  <2>1. CASE Goto(d, "rewrite") /\ UNCHANGED part /\ masks' = [masks EXCEPT !.torn = TRUE]
    <3>1. masks'.lost = masks.lost /\ masks'.spent = masks.spent
      BY <2>1 DEF IInv, Types, MaskRecord
    <3> QED BY <1>1, <1>2, <1>10, <2>1, <3>1, Staying DEF ReadMasks, Steps, Holding
  <2> QED BY <1>3, <1>10, <2>1 DEF ReadMasks, ExitLeaving
<1>11. CASE WriteMasks(d)
  <2>1. CASE /\ Goto(d, "write") /\ UNCHANGED part
             /\ masks' = [masks EXCEPT !.spent = @ \cup {proof[d]}, !.torn = FALSE]
    <3>1. masks'.lost = masks.lost /\ masks'.spent = masks.spent \cup {proof[d]}
      BY <2>1 DEF IInv, Types, MaskRecord
    <3>2. proof' = proof /\ Spent(proof[d])'
      BY <1>11, <3>1 DEF WriteMasks, Spent
    <3> QED BY <1>1, <1>2, <1>11, <2>1, <3>1, <3>2, Staying DEF WriteMasks, Steps, Holding
  <2> QED BY <1>3, <1>11, <2>1 DEF WriteMasks, ExitLeaving
<1>12. CASE Write(d)
  <2>1. CASE /\ Goto(d, "fsync")
             /\ part' = [part EXCEPT !.doc = [id |-> proof[d], by |-> d, whole |-> TRUE],
                                     !.synced = FALSE]
    <3>1. /\ part'.there = part.there /\ part'.owner = part.owner /\ part'.left = part.left
          /\ part'.doc = [id |-> proof[d], by |-> d, whole |-> TRUE]
      BY <2>1 DEF IInv, Types, Reservation
    <3>2. proof' = proof /\ masks' = masks /\ path' = path /\ survives' = survives
      BY <1>12 DEF Write
    <3>3. pc[d] = "write" /\ Spent(proof[d])'
      BY <1>2, <1>12, <3>2 DEF Write, Spent
    <3> QED BY <1>1, <1>2, <2>1, <3>1, <3>2, <3>3, Staying DEF Steps, Holding
  <2> QED BY <1>3, <1>12, <2>1 DEF Write, UnlinkAndExit
<1>13. CASE Fsync(d)
  <2>1. CASE Goto(d, "replace") /\ part' = [part EXCEPT !.synced = TRUE]
    <3>1. /\ part'.there = part.there /\ part'.owner = part.owner /\ part'.left = part.left
          /\ part'.doc = part.doc /\ part'.synced
      BY <2>1 DEF IInv, Types, Reservation
    <3>2. proof' = proof /\ masks' = masks /\ path' = path /\ survives' = survives
      BY <1>13 DEF Fsync
    <3>3. pc[d] = "fsync" /\ Spent(proof[d])'
      BY <1>2, <1>13, <3>2 DEF Fsync, Spent
    <3> QED BY <1>1, <1>2, <2>1, <3>1, <3>2, <3>3, Staying DEF Steps, Holding
  <2> QED BY <1>3, <1>13, <2>1 DEF Fsync, UnlinkAndExit
<1>14. CASE Replace(d)
  <2>1. CASE Goto(d, "dirsync") /\ path' = part.doc /\ part.there
    <3>1. pc[d] = "replace" /\ path = Nothing /\ part.synced
      BY <1>2, <1>14 DEF Replace, Holding
    <3>2. path' = [id |-> proof[d], by |-> d, whole |-> TRUE] /\ Spent(proof[d])
      BY <1>2, <2>1, <3>1
    <3>3. masks' = masks /\ survives' = survives \cup {path'}
      BY <1>14, <2>1, <3>1, <3>2, OutputAssumption DEF Replace, Nothing
    <3>4. OneAtWork' /\ pc'[d] = "dirsync" /\ \A e \in Drivers \ {d} : pc'[e] = "idle"
      BY <1>1, <2>1, WorkingAlone DEF IInv, Steps
    <3>5. OwnReservation' /\ PathStaysFree' /\ DocumentInPart'
      BY <3>4 DEF OwnReservation, PathStaysFree, DocumentInPart, Holding
    <3>6. SurvivesIsPath'
      BY <3>1, <3>3 DEF IInv, SurvivesIsPath
    <3>7. PathIsRecorded'
      BY <3>2, <3>3 DEF PathIsRecorded, Spent
    <3> QED BY <3>4, <3>5, <3>6, <3>7 DEF IInv
  <2> QED BY <1>3, <1>14, <2>1 DEF Replace, UnlinkAndExit
<1>15. CASE SyncDir(d)
  <2>1. Exit(d) /\ path' = path /\ survives' \subseteq survives /\ masks' = masks
    BY <1>15 DEF SyncDir, UnlinkAndExit
  <2> QED BY <1>1, <2>1, Leaving
<1> QED
  BY <1>4, <1>5, <1>6, <1>7, <1>7a, <1>8, <1>9, <1>10, <1>11, <1>12, <1>13, <1>14, <1>15
  DEF Work

\* The whole next-state relation keeps the invariant.
LEMMA InvStep ==
  ASSUME SharedCommitment, IInv, [Next]_vars
  PROVE  IInv'
<1>1. Types'
  BY TypeStep DEF IInv
<1>2. CASE UNCHANGED vars
  BY <1>2 DEF vars, IInv, Types, OneAtWork, OwnReservation, PathStaysFree, SurvivesIsPath,
              DocumentInPart, PathIsRecorded, Spent
<1>3. ASSUME NEW d \in Drivers, Begin(d) PROVE IInv'
  <2>1. lock = {} /\ \A e \in Drivers : pc[e] = "idle"
    BY <1>3 DEF Begin, SharedCommitment, IInv, Types, OneAtWork
  <2>2. \A e \in Drivers : pc'[e] # "idle" => e = d /\ pc'[e] = "checkPath"
    BY <1>3, <2>1 DEF Begin, IInv, Types
  <2>3. OneAtWork'
    BY <1>3, <2>1, <2>2 DEF Begin, OneAtWork
  <2>4. (OwnReservation /\ PathStaysFree /\ DocumentInPart)'
    BY <2>2 DEF OwnReservation, PathStaysFree, DocumentInPart, Holding
  <2>5. (SurvivesIsPath /\ PathIsRecorded)'
    BY <1>3 DEF Begin, IInv, SurvivesIsPath, PathIsRecorded, Spent
  <2> QED BY <1>1, <2>3, <2>4, <2>5 DEF IInv
<1>4. ASSUME NEW d \in Drivers, Work(d) PROVE IInv'
  BY <1>1, <1>4, WorkStep
<1>5. ASSUME NEW d \in Drivers, Die(d) PROVE IInv'
  BY <1>1, <1>5, Leaving DEF Die, ExitLeaving
<1>6. CASE PowerLoss
  <2>1. lock' = {} /\ \A e \in Drivers : pc'[e] = "idle"
    BY <1>6 DEF PowerLoss
  <2>2. (OneAtWork /\ OwnReservation /\ PathStaysFree /\ DocumentInPart)'
    BY <2>1 DEF OneAtWork, OwnReservation, PathStaysFree, DocumentInPart, Holding
  <2>3. path' \in {Nothing, path} /\ survives' = {path'}
    BY <1>6 DEF PowerLoss, IInv, SurvivesIsPath
  <2>4. masks' = masks \/ masks'.lost
    BY <1>6 DEF PowerLoss, NoRecord
  <2>5. (SurvivesIsPath /\ PathIsRecorded)'
    BY <2>3, <2>4 DEF IInv, SurvivesIsPath, PathIsRecorded, Spent
  <2> QED BY <1>1, <2>2, <2>5 DEF IInv
<1>7. CASE RemoveStalePart
  <2>1. \A d \in Drivers : pc[d] \notin Holding
    BY <1>7 DEF RemoveStalePart, IInv, DocumentInPart
  <2>2. pc' = pc /\ lock' = lock /\ path' = path /\ survives' = survives /\ masks' = masks
    BY <1>7 DEF RemoveStalePart
  <2>3. (OneAtWork /\ OwnReservation /\ PathStaysFree /\ DocumentInPart)'
    BY <2>1, <2>2 DEF IInv, OneAtWork, OwnReservation, PathStaysFree, DocumentInPart, Holding
  <2>4. (SurvivesIsPath /\ PathIsRecorded)'
    BY <2>2 DEF IInv, SurvivesIsPath, PathIsRecorded, Spent
  <2> QED BY <1>1, <2>3, <2>4 DEF IInv
<1>8. CASE TakeProof
  BY <1>1, <1>8 DEF TakeProof, IInv, OneAtWork, OwnReservation, PathStaysFree, SurvivesIsPath,
                    DocumentInPart, PathIsRecorded, Spent
<1>9. CASE RemoveTornRecord
  <2>1. \A d \in Drivers : pc[d] = "idle"
    BY <1>9 DEF RemoveTornRecord, IInv, OneAtWork
  <2>2. masks'.lost /\ UNCHANGED <<pc, lock, path, survives, part, made, proof>>
    BY <1>9 DEF RemoveTornRecord, NoRecord
  <2>3. (OneAtWork /\ OwnReservation /\ PathStaysFree /\ DocumentInPart)'
    BY <2>1, <2>2 DEF IInv, OneAtWork, OwnReservation, PathStaysFree, DocumentInPart, Holding
  <2>4. (SurvivesIsPath /\ PathIsRecorded)'
    BY <2>2 DEF IInv, SurvivesIsPath, PathIsRecorded, Spent
  <2> QED BY <1>1, <2>3, <2>4 DEF IInv
<1> QED
  BY <1>2, <1>3, <1>4, <1>5, <1>6, <1>7, <1>8, <1>9 DEF Next

\* The inductive invariant, where drivers share their commitment.
LEMMA Invariance ==
  ASSUME SharedCommitment
  PROVE  Spec => []IInv
<1>1. IInv /\ [Next]_vars => IInv'
  BY InvStep
<1> QED BY InitHolds, <1>1, PTL DEF Spec
--------------------------------------------------------------------------------
(***************************************************************************)
(* Reservations without a driver                                           *)
(***************************************************************************)
Causes == Unguarded \cup {"killed"}

\* A .part on disk has a driver at work, or is there for a cause: the safety
\* part of ReservationConcludes.
LeftForCause ==
  part.there => \/ part.left = "no" /\ part.owner \in Drivers /\ pc[part.owner] \in Holding
                \/ part.left \in Causes

\* A driver moves on, with its .part kept as owned and as left as before.
LEMMA HeldMoves ==
  ASSUME Types, LeftForCause, NEW d \in Drivers, NEW step \in Steps, Goto(d, step),
         step \in Holding \/ pc[d] \notin Holding,
         part'.there => /\ part.there
                        /\ part'.owner = part.owner /\ part'.left = part.left
  PROVE  LeftForCause'
<1>1. \A e \in Drivers : pc'[e] = IF e = d THEN step ELSE pc[e]
  BY DEF Types, Goto
<1> QED BY <1>1 DEF LeftForCause

\* A driver that leaves its .part at one of the steps outside any try, or when
\* it is killed, leaves the cause with it.
LEMMA LeavingForCause ==
  ASSUME Types, LeftForCause, NEW d \in Drivers, NEW why \in Ends, ExitLeaving(d, why),
         why \in Causes
  PROVE  LeftForCause'
<1>1. \A e \in Drivers : pc'[e] = IF e = d THEN "idle" ELSE pc[e]
  BY DEF Types, ExitLeaving, Exit
<1>2. CASE pc[d] \in Holding /\ part.owner = d
  <2>1. part'.left = why
    BY <1>2 DEF ExitLeaving, Types, Reservation
  <2> QED BY <2>1 DEF LeftForCause
<1>3. CASE ~(pc[d] \in Holding /\ part.owner = d)
  <2>1. part' = part
    BY <1>3 DEF ExitLeaving
  <2> QED BY <1>1, <1>3, <2>1 DEF LeftForCause
<1> QED BY <1>2, <1>3

\* A driver that held nothing ends and leaves the .part of another as it is.
LEMMA LeavingNothing ==
  ASSUME Types, LeftForCause, NEW d \in Drivers, pc[d] \notin Holding, Exit(d), part' = part
  PROVE  LeftForCause'
<1>1. \A e \in Drivers : pc'[e] = IF e = d THEN "idle" ELSE pc[e]
  BY DEF Types, Exit
<1> QED BY <1>1 DEF LeftForCause

LEMMA CauseStep ==
  ASSUME Types, LeftForCause, [Next]_vars
  PROVE  LeftForCause'
<1>1. /\ ~NoPart.there
      /\ \A step \in Holding \cup {"checkPart", "create", "dirsync"} : step \in Steps
      /\ \A why \in Causes : why \in Ends
      /\ \A step \in {"syncPart", "save", "record", "rewrite"} : step \in Causes
  BY DEF NoPart, Steps, Holding, Ends, Causes, Unguarded
<1>2. part' = NoPart => LeftForCause'
  BY <1>1 DEF LeftForCause
<1>3. ASSUME NEW d \in Drivers, Begin(d) PROVE LeftForCause'
  <2>1. pc[d] = "idle" /\ pc' = [pc EXCEPT ![d] = "checkPath"] /\ part' = part
    BY <1>3 DEF Begin
  <2>2. \A e \in Drivers : pc'[e] = IF e = d THEN "checkPath" ELSE pc[e]
    BY <2>1 DEF Types
  <2> QED BY <2>1, <2>2 DEF LeftForCause, Holding
<1>4. ASSUME NEW d \in Drivers, Work(d) PROVE LeftForCause'
  <2>1. UnlinkAndExit(d) => LeftForCause'
    BY <1>2 DEF UnlinkAndExit
  <2>2. CASE CheckPath(d) \/ CheckPart(d)
    BY <1>1, <2>2, HeldMoves, LeavingNothing DEF CheckPath, CheckPart, Holding
  <2>3. CASE Create(d)
    <3>1. CASE part.there
      BY <2>3, <3>1, LeavingNothing DEF Create, Holding
    <3>2. CASE ~part.there
      <4>1. part'.owner = d /\ part'.left = "no" /\ pc'[d] = "fallocate"
        BY <2>3, <3>2 DEF Create, NoPart, Goto, Types
      <4> QED BY <4>1 DEF LeftForCause, Holding
    <3> QED BY <3>1, <3>2
  <2>4. CASE Fallocate(d) \/ Prove(d)
    BY <1>1, <2>1, <2>4, HeldMoves DEF Fallocate, Prove, Holding
  <2>5. CASE SyncPart(d) \/ SaveLedger(d)
    BY <1>1, <2>5, HeldMoves, LeavingForCause DEF SyncPart, SaveLedger, Holding
  <2>6. CASE ReadMasks(d) \/ WriteMasks(d)
    BY <1>1, <2>6, HeldMoves, LeavingForCause DEF ReadMasks, WriteMasks, Holding
  <2>7. CASE Write(d) \/ Fsync(d)
    <3>1. CASE UnlinkAndExit(d)
      BY <2>1, <3>1
    <3>2. CASE ~UnlinkAndExit(d)
      <4>1. Goto(d, "fsync") \/ Goto(d, "replace")
        BY <2>7, <3>2 DEF Write, Fsync
      <4>2. part'.there = part.there /\ part'.owner = part.owner /\ part'.left = part.left
        BY <2>7, <3>2 DEF Write, Fsync, Types, Reservation
      <4> QED BY <1>1, <4>1, <4>2, HeldMoves DEF Holding
    <3> QED BY <3>1, <3>2
  <2>8. CASE Replace(d)
    BY <1>2, <2>1, <2>8 DEF Replace
  <2>9. CASE SyncDir(d)
    BY <2>1, <2>9, LeavingNothing DEF SyncDir, Holding
  <2> QED BY <1>4, <2>2, <2>3, <2>4, <2>5, <2>6, <2>7, <2>8, <2>9 DEF Work
<1>5. ASSUME NEW d \in Drivers, Die(d) PROVE LeftForCause'
  <2>1. "killed" \in Causes
    BY DEF Causes
  <2> QED BY <1>1, <1>5, <2>1, LeavingForCause DEF Die
<1>6. CASE PowerLoss
  <2>1. CASE part' = NoPart
    BY <1>2, <2>1
  <2>2. CASE part' = [part EXCEPT !.left = IF @ = "no" THEN "killed" ELSE @, !.doc = Nothing]
    <3>1. /\ part'.left = IF part.left = "no" THEN "killed" ELSE part.left
          /\ part'.there = part.there
      BY <2>2 DEF Types, Reservation
    <3> QED BY <3>1 DEF LeftForCause, Causes
  <2> QED BY <1>6, <2>1, <2>2 DEF PowerLoss
<1>7. CASE RemoveStalePart
  BY <1>2, <1>7 DEF RemoveStalePart
<1>8. CASE TakeProof \/ RemoveTornRecord \/ UNCHANGED vars
  <2>1. pc' = pc /\ part' = part
    BY <1>8 DEF TakeProof, RemoveTornRecord, vars
  <2> QED BY <2>1 DEF LeftForCause
<1> QED BY <1>3, <1>4, <1>5, <1>6, <1>7, <1>8 DEF Next
--------------------------------------------------------------------------------
(***************************************************************************)
(* The theorems                                                            *)
(***************************************************************************)
\* For any number of drivers of one commitment, and whatever kills, refusals,
\* power losses and clean-ups occur, the .part a driver proves into is the one
\* it created: reserve_output's O_EXCL needs the flock to mean that.
THEOREM ReservationIsOwn ==
  ASSUME SharedCommitment
  PROVE  Spec => []OwnReservation
<1>1. IInv => OwnReservation
  BY DEF IInv
<1> QED BY Invariance, <1>1, PTL

\* What the path shows, now or after a power loss, is nothing or a whole proof
\* whose mask points are on record: the order of record, write, fsync, rename
\* and directory sync suffices on every failing path.
THEOREM PublishedWholeAndRecorded ==
  ASSUME SharedCommitment
  PROVE  Spec => []PublishedIsRecorded
<1>1. IInv => PublishedIsRecorded
  BY DEF IInv, PublishedIsRecorded, SurvivesIsPath, PathIsRecorded, Spent
<1> QED BY Invariance, <1>1, PTL

\* No step replaces a proof by another: between the check of the path and the
\* rename, hours later, only the drivers of other commitments could publish.
THEOREM ProofsAreNotReplaced ==
  ASSUME SharedCommitment
  PROVE  Spec => NeverReplaced
<1>1. ASSUME IInv, [Next]_vars
      PROVE  [path # Nothing => path' \in {path, Nothing}]_path
  <2>1. ASSUME NEW d \in Drivers, Replace(d), path' # path PROVE path = Nothing
    BY <1>1, <2>1 DEF Replace, IInv, PathStaysFree, Holding
  <2>2. CASE PowerLoss
    BY <1>1, <2>2 DEF PowerLoss, IInv, SurvivesIsPath
  <2>3. CASE TakeProof
    BY <2>3 DEF TakeProof
  <2>4. ASSUME ~PowerLoss, ~TakeProof, \A d \in Drivers : ~Replace(d)
        PROVE  path' = path
    BY <1>1, <2>4 DEF Next, Work, vars, Begin, CheckPath, CheckPart, Create, Fallocate, SyncPart,
       Prove, SaveLedger, ReadMasks, WriteMasks, Write, Fsync, SyncDir, Die, RemoveStalePart,
       RemoveTornRecord
  <2> QED BY <2>1, <2>2, <2>3, <2>4
<1>2. IInv /\ [Next]_vars => [path # Nothing => path' \in {path, Nothing}]_path
  BY <1>1
<1> QED BY Invariance, <1>2, PTL DEF Spec, NeverReplaced

\* For any drivers, commitments and failures: a .part that is on disk belongs to
\* a driver that is still at work, or was left there by a kill, a power loss or
\* an error in one of the four steps that no try guards.
THEOREM ReservationsLeftForCause == Spec => []LeftForCause
<1>1. Init => Types /\ LeftForCause
  BY InitHolds DEF IInv, Init, LeftForCause, NoPart
<1>2. Types /\ LeftForCause /\ [Next]_vars => (Types /\ LeftForCause)'
  BY TypeStep, CauseStep
<1> QED BY <1>1, <1>2, PTL DEF Spec
================================================================================
