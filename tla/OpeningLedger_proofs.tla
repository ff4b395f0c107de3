-------------------------- MODULE OpeningLedger_proofs --------------------------
(***************************************************************************)
(* Proofs that the opening ledger never forgets a released column and      *)
(* never lets a root past its budget, for any number of drivers, roots and *)
(* columns.                                                                *)
(*                                                                         *)
(* BookedBeforeReleased is not inductive: it speaks of the contents of the *)
(* path only, while a release is justified by what the releasing driver    *)
(* saved, and a save may be overtaken by an enrollment that shares the     *)
(* .part inode.  IInv adds what each driver knows at each step.            *)
(***************************************************************************)
EXTENDS OpeningLedger, FiniteSetTheorems, TLAPS

Contents == {file.data, part.data} \cup survives

\* A handle c of the same root as p's is at least as complete as p's.
Ahead(p, c) == c.root = wc[p].root => wc[p].opened \subseteq c.opened

AfterOpen == {"write", "fsync", "replace", "dirsync", "dump"}

\* A root not yet drawn appears nowhere.
UndrawnRoots ==
  \A r \in Roots \ enrolled :
    /\ released[r] = {}
    /\ \A c \in Contents : c.root # r
    /\ \A p \in Drivers : wc[p].root # r

LockedSteps == \A p \in Drivers : pc[p] \in {"load", "prove", "dump"} => p \in lock

\* An idle driver has no columns to book.
IdleHoldsNothing == \A p \in Drivers : pc[p] = "idle" => Q[p] = {}

\* What the proving driver p knows.
ProverKnows(p) ==
  /\ pc[p] = "load" => want[p] \in Roots
  /\ pc[p] # "load" => wc[p].root \in Roots /\ Covers(wc[p])
  /\ pc[p] \in AfterOpen \cup {"save"} => PB!Fits(wc[p].opened, Q[p])
  /\ pc[p] \in AfterOpen => Q[p] \subseteq wc[p].opened /\ Ahead(p, part.data)
  /\ pc[p] \in {"dirsync", "dump"} => Ahead(p, file.data)
  /\ pc[p] = "dump" => \A c \in survives : Ahead(p, c)

\* Until an enrolling driver p has written its handle, its root is its own.
EnrollerKnows(p) ==
  /\ wc[p].root \in enrolled
  /\ wc[p].opened = {}
  /\ Q[p] = {}
  /\ released[wc[p].root] = {}
  /\ \A c \in Contents : c.root # wc[p].root
  /\ \A q \in Drivers \ {p} : wc[q].root # wc[p].root

IInv ==
  /\ TypeOK
  /\ \A c \in Contents : Covers(c)
  /\ UndrawnRoots
  /\ LockedSteps
  /\ IdleHoldsNothing
  /\ \A p \in lock : ProverKnows(p)
  /\ \A p \in Drivers \ lock : pc[p] \in {"save", "write"} => EnrollerKnows(p)
--------------------------------------------------------------------------------
(***************************************************************************)
(* Types                                                                   *)
(***************************************************************************)
\* What a file that does not load stands for is a handle without a root.
LEMMA UnreadableIsHandle == Unreadable \in Handle /\ Unreadable.root = NoRoot
  BY DEF Unreadable, Handle

\* An absent .part has the type of one and holds nothing readable.
LEMMA NoPartType ==
  /\ NoPart \in [there : BOOLEAN, data : Handle, synced : BOOLEAN]
  /\ ~NoPart.there
  /\ NoPart.data = Unreadable
  BY UnreadableIsHandle DEF NoPart

\* Ending a process keeps the types.
LEMMA ExitTypes ==
  ASSUME TypeOK, NEW p \in Drivers, Exit(p)
  PROVE  /\ pc' \in [Drivers -> Steps]
         /\ wc' \in [Drivers -> Handle]
         /\ want' \in [Drivers -> Roots \cup {NoRoot}]
         /\ Q' \in [Drivers -> SUBSET Columns]
         /\ lock' \subseteq Drivers
         /\ \A q, r \in lock' : q = r
         /\ fd' \in [Drivers -> {"closed", "part", "file", "gone"}]
         /\ \A q \in Drivers : pc'[q] = "idle" => q \notin lock' /\ fd'[q] = "closed"
  BY UnreadableIsHandle DEF TypeOK, Exit, Goto, Steps

\* Every step keeps the types: in particular a driver that ends, in whatever
\* way, keeps neither the flock nor a descriptor.
LEMMA TypeStep == TypeOK /\ [Next]_vars => TypeOK'
<1> SUFFICES ASSUME TypeOK, [Next]_vars PROVE TypeOK'
  OBVIOUS
<1> USE UnreadableIsHandle
<1>1. CASE UNCHANGED vars
  BY <1>1 DEF TypeOK, vars
<1>2. ASSUME NEW p \in Drivers, StartEnrolling(p) PROVE TypeOK'
  BY <1>2 DEF TypeOK, StartEnrolling, Goto, Steps, Handle
<1>3. ASSUME NEW p \in Drivers, StartProving(p) PROVE TypeOK'
  BY <1>3 DEF TypeOK, StartProving, Goto, Steps
<1>4. ASSUME NEW p \in Drivers, Load(p) PROVE TypeOK'
  <2>1. CASE file.data.root = want[p]
    BY <1>4, <2>1 DEF TypeOK, Load, Goto, Steps
  <2>2. CASE file.data.root # want[p]
    BY <1>4, <2>2, ExitTypes DEF TypeOK, Load
  <2> QED BY <2>1, <2>2
<1>5. ASSUME NEW p \in Drivers, Prove(p) PROVE TypeOK'
  <2>1. CASE Exit(p)
    BY <1>5, <2>1, ExitTypes DEF TypeOK, Prove
  <2>2. CASE ~Exit(p)
    BY <1>5, <2>2 DEF TypeOK, Prove, Goto, Steps, Challenges
  <2> QED BY <2>1, <2>2
<1>6. ASSUME NEW p \in Drivers, OpenPart(p) PROVE TypeOK'
  BY <1>6 DEF TypeOK, OpenPart, Goto, Steps, Handle
<1>7. ASSUME NEW p \in Drivers, WritePart(p) PROVE TypeOK'
  <2>1. Mixed(p, part.data) \subseteq Handle /\ Mixed(p, file.data) \subseteq Handle
    BY DEF TypeOK, Mixed
  <2>2. /\ file' \in [data : Handle, synced : BOOLEAN]
        /\ survives' \subseteq Handle
        /\ part' \in [there : BOOLEAN, data : Handle, synced : BOOLEAN]
    <3>1. CASE fd[p] = "part"
      BY <1>7, <2>1, <3>1 DEF TypeOK, WritePart
    <3>2. CASE fd[p] = "file"
      <4>1. PICK d \in Mixed(p, file.data) :
              /\ file' = [data |-> d, synced |-> FALSE]
              /\ survives' = survives \cup {d, Unreadable}
              /\ part' = part
        BY <1>7, <3>2 DEF WritePart
      <4>2. d \in Handle
        BY <2>1
      <4> QED BY <4>1, <4>2 DEF TypeOK
    <3>3. CASE fd[p] = "gone"
      BY <1>7, <3>3 DEF TypeOK, WritePart
    <3> QED BY <1>7, <3>1, <3>2, <3>3 DEF WritePart
  <2>3. pc' \in [Drivers -> Steps] /\ pc' = [pc EXCEPT ![p] = "fsync"]
    BY <1>7 DEF TypeOK, WritePart, Goto, Steps
  <2> QED BY <1>7, <2>2, <2>3 DEF TypeOK, WritePart
<1>8. ASSUME NEW p \in Drivers, FsyncPart(p) PROVE TypeOK'
  BY <1>8 DEF TypeOK, FsyncPart, Goto, Steps
<1>9. ASSUME NEW p \in Drivers, Replace(p) PROVE TypeOK'
  <2>1. CASE part.there
    <3>1. /\ file' \in [data : Handle, synced : BOOLEAN]
          /\ survives' \subseteq Handle
          /\ part' \in [there : BOOLEAN, data : Handle, synced : BOOLEAN]
      BY <1>9, <2>1, NoPartType DEF TypeOK, Replace
    <3>2. /\ fd' \in [Drivers -> {"closed", "part", "file", "gone"}]
          /\ \A q \in Drivers : fd[q] = "closed" => fd'[q] = "closed"
      BY <1>9, <2>1 DEF TypeOK, Replace
    <3>3. pc' \in [Drivers -> Steps] /\ pc' = [pc EXCEPT ![p] = "dirsync"]
      BY <1>9, <2>1 DEF TypeOK, Replace, Goto, Steps
    <3> QED BY <1>9, <2>1, <3>1, <3>2, <3>3 DEF TypeOK, Replace
  <2>2. CASE ~part.there
    BY <1>9, <2>2, ExitTypes DEF TypeOK, Replace
  <2> QED BY <2>1, <2>2
<1>10. ASSUME NEW p \in Drivers, SyncDir(p) PROVE TypeOK'
  <2>1. CASE p \in lock
    BY <1>10, <2>1 DEF TypeOK, SyncDir, Goto, Steps
  <2>2. CASE p \notin lock
    BY <1>10, <2>2, ExitTypes DEF TypeOK, SyncDir
  <2> QED BY <2>1, <2>2
<1>11. ASSUME NEW p \in Drivers, Dump(p) PROVE TypeOK'
  BY <1>11, ExitTypes DEF TypeOK, Dump
<1>12. ASSUME NEW p \in Drivers, Die(p) PROVE TypeOK'
  BY <1>12, ExitTypes DEF TypeOK, Die
<1>13. CASE PowerLoss
  <2>1. part' \in [there : BOOLEAN, data : Handle, synced : BOOLEAN]
    BY <1>13, NoPartType DEF TypeOK, PowerLoss
  <2>2. file' \in [data : Handle, synced : BOOLEAN] /\ survives' \subseteq Handle
    BY <1>13 DEF TypeOK, PowerLoss
  <2> QED BY <1>13, <2>1, <2>2 DEF TypeOK, PowerLoss, Steps
<1> QED
  BY <1>1, <1>2, <1>3, <1>4, <1>5, <1>6, <1>7, <1>8, <1>9, <1>10, <1>11, <1>12,
     <1>13 DEF Next
--------------------------------------------------------------------------------
(***************************************************************************)
(* The inductive invariant                                                 *)
(***************************************************************************)
\* The inductive invariant holds before any driver has run.
LEMMA InvInit == Init => IInv
<1> SUFFICES ASSUME Init PROVE IInv
  OBVIOUS
<1> USE UnreadableIsHandle, NoPartType
<1>1. TypeOK
  BY DEF Init, TypeOK, Steps
<1>2. \A c \in Contents : c = Unreadable
  BY DEF Init, Contents
<1>3. \A c \in Contents : Covers(c)
  BY <1>2, LedgerAssumption DEF Covers
<1>4. UndrawnRoots
  BY <1>2, LedgerAssumption DEF Init, UndrawnRoots
<1> QED
  BY <1>1, <1>3, <1>4 DEF Init, IInv, LockedSteps, IdleHoldsNothing

\* A driver that ends takes its knowledge with it and disturbs no other's, as
\* long as the path can only fall back to what it shows.
LEMMA EndPreserves ==
  ASSUME IInv, NEW p \in Drivers, Exit(p),
         UNCHANGED <<file, part, released, enrolled>>,
         survives' \subseteq survives \cup {file.data, Unreadable}
  PROVE  /\ \A c \in Contents' : Covers(c)'
         /\ UndrawnRoots'
         /\ LockedSteps'
         /\ IdleHoldsNothing'
         /\ \A q \in lock' : ProverKnows(q)'
         /\ \A q \in Drivers \ lock' : pc'[q] \in {"save", "write"} => EnrollerKnows(q)'
<1> USE UnreadableIsHandle, LedgerAssumption
<1>0. TypeOK
  BY DEF IInv
<1>1. Contents' \subseteq Contents \cup {Unreadable}
  BY DEF Contents
<1>2. \A c \in Contents' : Covers(c)'
  BY <1>1 DEF IInv, Covers
<1>3. /\ pc' = [pc EXCEPT ![p] = "idle"]
      /\ wc' = [wc EXCEPT ![p] = Unreadable]
      /\ Q' = [Q EXCEPT ![p] = {}]
      /\ want' = [want EXCEPT ![p] = NoRoot]
      /\ lock' = lock \ {p}
  BY DEF Exit, Goto
<1>4. UndrawnRoots'
  BY <1>0, <1>1, <1>3 DEF IInv, UndrawnRoots, TypeOK
<1>5. LockedSteps' /\ IdleHoldsNothing'
  BY <1>0, <1>3 DEF IInv, LockedSteps, IdleHoldsNothing, TypeOK
<1>6. \A q \in lock' : ProverKnows(q)'
  <2> SUFFICES ASSUME NEW q \in lock' PROVE ProverKnows(q)'
    OBVIOUS
  <2>1. q # p /\ q \in lock /\ q \in Drivers /\ ProverKnows(q)
    BY <1>0, <1>3 DEF IInv, TypeOK
  <2>2. pc'[q] = pc[q] /\ wc'[q] = wc[q] /\ Q'[q] = Q[q] /\ want'[q] = want[q]
    BY <1>0, <1>3, <2>1 DEF TypeOK
  <2>3. pc[q] = "dump" => \A c \in survives' : Ahead(q, c)
    BY <2>1 DEF ProverKnows, Ahead
  <2> QED BY <2>1, <2>2, <2>3 DEF ProverKnows, Ahead, Covers
<1>7. \A q \in Drivers \ lock' : pc'[q] \in {"save", "write"} => EnrollerKnows(q)'
  <2> SUFFICES ASSUME NEW q \in Drivers \ lock', pc'[q] \in {"save", "write"}
               PROVE  EnrollerKnows(q)'
    OBVIOUS
  <2>1. q # p /\ q \notin lock /\ EnrollerKnows(q)
    BY <1>0, <1>3 DEF IInv, TypeOK
  <2>2. wc'[q] = wc[q] /\ Q'[q] = Q[q]
    BY <1>0, <1>3, <2>1 DEF TypeOK
  <2>3. \A r \in Drivers : wc'[r] = wc[r] \/ wc'[r] = Unreadable
    BY <1>0, <1>3 DEF TypeOK
  <2> QED BY <1>0, <1>1, <2>1, <2>2, <2>3 DEF EnrollerKnows, TypeOK
<1> QED BY <1>2, <1>4, <1>5, <1>6, <1>7

\* A fresh root is on no disk, in no driver and in no proof yet.
LEMMA StartEnrollingStep == ASSUME IInv, TypeOK', NEW p \in Drivers, StartEnrolling(p) PROVE IInv'
<1> USE UnreadableIsHandle, LedgerAssumption
<1>0. TypeOK
  BY DEF IInv
<1>1. PICK r \in Roots \ enrolled :
        /\ enrolled' = enrolled \cup {r}
        /\ wc' = [wc EXCEPT ![p] = [root |-> r, opened |-> {}]]
  BY DEF StartEnrolling
<1>2. /\ pc[p] = "idle" /\ p \notin lock
      /\ pc' = [pc EXCEPT ![p] = "save"]
      /\ UNCHANGED <<want, Q, lock, file, survives, part, fd, released>>
      /\ Contents' = Contents
  BY <1>0 DEF StartEnrolling, Goto, TypeOK, Contents
<1>3. /\ released[r] = {}
      /\ \A c \in Contents : c.root # r
      /\ \A q \in Drivers : wc[q].root # r
  BY <1>1 DEF IInv, UndrawnRoots
<1>4. Q[p] = {}
  BY <1>2 DEF IInv, IdleHoldsNothing
<1>5. UndrawnRoots'
  BY <1>0, <1>1, <1>2 DEF IInv, UndrawnRoots, TypeOK
<1>6. LockedSteps' /\ IdleHoldsNothing'
  BY <1>0, <1>2 DEF IInv, LockedSteps, IdleHoldsNothing, TypeOK
<1>7. \A q \in lock' : ProverKnows(q)'
  <2> SUFFICES ASSUME NEW q \in lock PROVE ProverKnows(q)'
    BY <1>2
  <2>1. q # p /\ q \in Drivers /\ ProverKnows(q)
    BY <1>0, <1>2 DEF IInv, TypeOK
  <2>2. pc'[q] = pc[q] /\ wc'[q] = wc[q]
    BY <1>0, <1>1, <1>2, <2>1 DEF TypeOK
  <2> QED BY <1>2, <2>1, <2>2 DEF ProverKnows, Ahead, Covers
<1>8. ASSUME NEW q \in Drivers \ lock, pc'[q] \in {"save", "write"} PROVE EnrollerKnows(q)'
  <2>1. CASE q = p
    <3>1. wc'[p] = [root |-> r, opened |-> {}] /\ \A d \in Drivers \ {p} : wc'[d] = wc[d]
      BY <1>0, <1>1 DEF TypeOK
    <3> QED BY <1>1, <1>2, <1>3, <1>4, <2>1, <3>1 DEF EnrollerKnows
  <2>2. CASE q # p
    <3>1. EnrollerKnows(q)
      BY <1>0, <1>2, <1>8, <2>2 DEF IInv, TypeOK
    <3>2. wc'[p].root = r /\ \A d \in Drivers \ {p} : wc'[d] = wc[d]
      BY <1>0, <1>1 DEF TypeOK
    <3> QED BY <1>1, <1>2, <2>2, <3>1, <3>2 DEF EnrollerKnows
  <2> QED BY <2>1, <2>2
<1>9. \A c \in Contents' : Covers(c)'
  BY <1>2 DEF IInv, Covers
<1> QED BY <1>2, <1>5, <1>6, <1>7, <1>8, <1>9 DEF IInv

\* The flock is taken by one driver, which knows nothing about the ledger yet.
LEMMA StartProvingStep == ASSUME IInv, TypeOK', NEW p \in Drivers, StartProving(p) PROVE IInv'
<1>0. TypeOK
  BY DEF IInv
<1>1. /\ lock = {} /\ lock' = {p}
      /\ pc' = [pc EXCEPT ![p] = "load"] /\ pc[p] = "idle"
      /\ want'[p] \in Roots
      /\ UNCHANGED <<wc, Q, file, survives, part, fd, released, enrolled>>
      /\ Contents' = Contents
  BY <1>0 DEF StartProving, Goto, TypeOK, Contents
<1>2. (\A c \in Contents' : Covers(c)') /\ UndrawnRoots'
  BY <1>1 DEF IInv, Covers, UndrawnRoots
<1>3. LockedSteps' /\ IdleHoldsNothing'
  BY <1>0, <1>1 DEF IInv, LockedSteps, IdleHoldsNothing, TypeOK
<1>4. \A q \in lock' : ProverKnows(q)'
  BY <1>0, <1>1 DEF ProverKnows, TypeOK, AfterOpen
<1>5. ASSUME NEW q \in Drivers \ lock', pc'[q] \in {"save", "write"} PROVE EnrollerKnows(q)'
  <2>1. EnrollerKnows(q)
    BY <1>0, <1>1, <1>5 DEF IInv, TypeOK
  <2> QED BY <1>1, <2>1 DEF EnrollerKnows
<1> QED BY <1>2, <1>3, <1>4, <1>5 DEF IInv

\* What is loaded from the path covers everything released under its root.
LEMMA LoadStep == ASSUME IInv, TypeOK', NEW p \in Drivers, Load(p) PROVE IInv'
<1>0. TypeOK
  BY DEF IInv
<1>1. CASE file.data.root # want[p]
  BY <1>1, EndPreserves DEF Load, IInv
<1>2. CASE file.data.root = want[p]
  <2>1. /\ pc[p] = "load" /\ p \in lock /\ want[p] \in Roots
        /\ pc' = [pc EXCEPT ![p] = "prove"]
        /\ wc' = [wc EXCEPT ![p] = file.data]
        /\ UNCHANGED <<want, Q, lock, fd, file, survives, part, released, enrolled>>
        /\ Contents' = Contents
    BY <1>2 DEF Load, Goto, IInv, LockedSteps, ProverKnows, Contents
  <2>2. file.data \in Contents
    BY DEF Contents
  <2>3. (\A c \in Contents' : Covers(c)') /\ UndrawnRoots'
    BY <1>0, <2>1, <2>2 DEF IInv, Covers, UndrawnRoots, TypeOK
  <2>4. LockedSteps' /\ IdleHoldsNothing'
    BY <1>0, <2>1 DEF IInv, LockedSteps, IdleHoldsNothing, TypeOK
  <2>5. \A q \in lock' : ProverKnows(q)'
    <3>1. lock' = {p} /\ wc'[p] = file.data /\ pc'[p] = "prove"
      BY <1>0, <2>1 DEF TypeOK
    <3> QED BY <1>2, <2>1, <2>2, <3>1 DEF IInv, ProverKnows, Covers, AfterOpen
  <2>6. ASSUME NEW q \in Drivers \ lock', pc'[q] \in {"save", "write"} PROVE EnrollerKnows(q)'
    <3>1. q # p /\ EnrollerKnows(q) /\ wc'[q] = wc[q]
      BY <1>0, <2>1, <2>6 DEF IInv, TypeOK
    <3>2. \A d \in Drivers : wc'[d] = wc[d] \/ wc'[d] = file.data
      BY <1>0, <2>1 DEF TypeOK
    <3> QED BY <2>1, <2>2, <3>1, <3>2 DEF EnrollerKnows
  <2> QED BY <2>3, <2>4, <2>5, <2>6 DEF IInv
<1> QED BY <1>1, <1>2

\* An admitted challenge fits the budget with the ledger it was decided on.
LEMMA ProveStep == ASSUME IInv, TypeOK', NEW p \in Drivers, Prove(p) PROVE IInv'
<1>0. TypeOK
  BY DEF IInv
<1>1. CASE Exit(p)
  BY <1>1, EndPreserves DEF Prove, IInv
<1>2. CASE ~Exit(p)
  <2>1. PICK q \in Challenges :
          /\ PB!Fits(wc[p].opened, q)
          /\ Q' = [Q EXCEPT ![p] = q]
          /\ pc' = [pc EXCEPT ![p] = "save"]
          /\ UNCHANGED <<wc, want, lock, fd, file, survives, part, released, enrolled>>
    BY <1>2 DEF Prove, Admits, Goto
  <2>2. p \in lock /\ lock = {p} /\ pc[p] = "prove" /\ Contents' = Contents
    BY <1>0, <2>1 DEF Prove, IInv, LockedSteps, TypeOK, Contents
  <2>3. (\A c \in Contents' : Covers(c)') /\ UndrawnRoots'
    BY <1>0, <2>1, <2>2 DEF IInv, Covers, UndrawnRoots, TypeOK
  <2>4. LockedSteps' /\ IdleHoldsNothing'
    BY <1>0, <2>1, <2>2 DEF IInv, LockedSteps, IdleHoldsNothing, TypeOK
  <2>5. \A d \in lock' : ProverKnows(d)'
    <3>1. lock' = {p} /\ pc'[p] = "save" /\ Q'[p] = q /\ wc' = wc
      BY <1>0, <2>1, <2>2 DEF TypeOK
    <3>2. wc[p].root \in Roots /\ Covers(wc[p])
      BY <2>2 DEF IInv, ProverKnows
    <3> QED BY <2>1, <3>1, <3>2 DEF ProverKnows, Covers, AfterOpen
  <2>6. ASSUME NEW d \in Drivers \ lock', pc'[d] \in {"save", "write"} PROVE EnrollerKnows(d)'
    <3>1. d # p /\ EnrollerKnows(d) /\ Q'[d] = Q[d]
      BY <1>0, <2>1, <2>2, <2>6 DEF IInv, TypeOK
    <3> QED BY <2>1, <2>2, <3>1 DEF EnrollerKnows
  <2> QED BY <2>3, <2>4, <2>5, <2>6 DEF IInv
<1> QED BY <1>1, <1>2

\* Booking the columns leaves the handle covering and the .part unreadable.
LEMMA OpenPartStep == ASSUME IInv, TypeOK', NEW p \in Drivers, OpenPart(p) PROVE IInv'
<1> USE UnreadableIsHandle, LedgerAssumption
<1>0. TypeOK
  BY DEF IInv
<1>1. /\ pc[p] = "save"
      /\ pc' = [pc EXCEPT ![p] = "write"]
      /\ wc' = [wc EXCEPT ![p].opened = @ \cup Q[p]]
      /\ part'.data = Unreadable
      /\ UNCHANGED <<want, Q, lock, file, survives, released, enrolled>>
  BY DEF OpenPart, Goto
<1>2. Contents' \subseteq Contents \cup {Unreadable}
  BY <1>1 DEF Contents
<1>3. /\ wc'[p].root = wc[p].root
      /\ wc'[p].opened = wc[p].opened \cup Q[p]
      /\ \A d \in Drivers \ {p} : wc'[d] = wc[d] /\ pc'[d] = pc[d]
      /\ pc'[p] = "write"
  BY <1>0, <1>1 DEF TypeOK, Handle
<1>4. (\A c \in Contents' : Covers(c)') /\ UndrawnRoots'
  BY <1>0, <1>1, <1>2, <1>3 DEF IInv, Covers, UndrawnRoots, TypeOK
<1>5. LockedSteps' /\ IdleHoldsNothing'
  BY <1>0, <1>1, <1>3 DEF IInv, LockedSteps, IdleHoldsNothing, TypeOK
<1>6. ASSUME NEW q \in lock' PROVE ProverKnows(q)'
  <2>1. q \in lock /\ q \in Drivers /\ ProverKnows(q)
    BY <1>0, <1>1, <1>6 DEF IInv, TypeOK
  <2>2. CASE q = p
    <3>1. PB!Fits(wc'[p].opened, Q'[p])
      <4>1. PB!Fits(wc[p].opened, Q[p])
        BY <1>1, <2>1, <2>2 DEF ProverKnows
      <4>2. wc'[p].opened \cup Q'[p] = wc[p].opened \cup Q[p]
        BY <1>1, <1>3
      <4> QED BY <4>1, <4>2 DEF PB!Fits
    <3>2. wc'[p].root \in Roots /\ Covers(wc[p])
      BY <1>1, <1>3, <2>1, <2>2 DEF ProverKnows
    <3> QED BY <1>1, <1>3, <2>2, <3>1, <3>2 DEF ProverKnows, Covers, Ahead
  <2>3. CASE q # p
    BY <1>1, <1>3, <2>1, <2>3 DEF ProverKnows, Covers, Ahead, AfterOpen
  <2> QED BY <2>2, <2>3
<1>7. ASSUME NEW q \in Drivers \ lock', pc'[q] \in {"save", "write"} PROVE EnrollerKnows(q)'
  <2>1. EnrollerKnows(q)
    BY <1>1, <1>3, <1>7 DEF IInv
  <2>2. \A d \in Drivers : wc'[d].root = wc[d].root
    BY <1>3
  <2>3. wc'[q].opened = {}
    BY <1>3, <2>1 DEF EnrollerKnows
  <2> QED BY <1>0, <1>1, <1>2, <2>1, <2>2, <2>3 DEF EnrollerKnows, TypeOK
<1> QED BY <1>4, <1>5, <1>6, <1>7 DEF IInv

\* Writing the inode, wherever it is by now, puts only covering handles there.
LEMMA WritePartStep == ASSUME IInv, TypeOK', NEW p \in Drivers, WritePart(p) PROVE IInv'
<1> USE UnreadableIsHandle, LedgerAssumption
<1>0. TypeOK
  BY DEF IInv
<1>1. /\ pc[p] = "write"
      /\ pc' = [pc EXCEPT ![p] = "fsync"]
      /\ UNCHANGED <<wc, want, Q, lock, fd, released, enrolled>>
  BY DEF WritePart, Goto
<1>2. /\ part'.data \in {part.data, wc[p], Unreadable}
      /\ file'.data \in {file.data, wc[p], Unreadable}
      /\ survives' \subseteq survives \cup {wc[p], Unreadable}
  <2>1. CASE fd[p] = "part"
    <3>1. PICK d \in Mixed(p, part.data) : part' = [part EXCEPT !.data = d, !.synced = FALSE]
      BY <2>1 DEF WritePart
    <3>2. d \in {wc[p], Unreadable}
      BY <3>1 DEF Mixed
    <3>3. part \in [there : BOOLEAN, data : Handle, synced : BOOLEAN]
      BY <1>0 DEF TypeOK
    <3>4. part'.data = d
      BY <3>1, <3>3
    <3>5. UNCHANGED <<file, survives>>
      BY <2>1 DEF WritePart
    <3> QED BY <3>2, <3>4, <3>5
  <2>2. CASE fd[p] = "file"
    <3>1. PICK d \in Mixed(p, file.data) : /\ file' = [data |-> d, synced |-> FALSE]
                                           /\ survives' = survives \cup {d, Unreadable}
      BY <2>2 DEF WritePart
    <3>2. d \in {wc[p], Unreadable}
      BY <3>1 DEF Mixed
    <3>3. UNCHANGED part
      BY <2>2 DEF WritePart
    <3> QED BY <3>1, <3>2, <3>3
  <2>3. CASE fd[p] = "gone"
    BY <2>3 DEF WritePart
  <2> QED BY <2>1, <2>2, <2>3 DEF WritePart
<1>3. Contents' \subseteq Contents \cup {wc[p], Unreadable}
  BY <1>2 DEF Contents
<1>4. wc[p].root \in Roots /\ Covers(wc[p])
  <2>1. CASE p \in lock
    BY <1>1, <2>1 DEF IInv, ProverKnows
  <2>2. CASE p \notin lock
    BY <1>0, <1>1, <2>2 DEF IInv, EnrollerKnows, Covers, TypeOK
  <2> QED BY <2>1, <2>2
<1>5. (\A c \in Contents' : Covers(c)') /\ UndrawnRoots'
  BY <1>0, <1>1, <1>3, <1>4 DEF IInv, Covers, UndrawnRoots, TypeOK
<1>6. LockedSteps' /\ IdleHoldsNothing'
  BY <1>0, <1>1 DEF IInv, LockedSteps, IdleHoldsNothing, TypeOK
<1>7. ASSUME NEW q \in lock' PROVE ProverKnows(q)'
  <2>1. q \in lock /\ q \in Drivers /\ ProverKnows(q)
    BY <1>0, <1>1, <1>7 DEF IInv, TypeOK
  <2>2. Ahead(q, wc[p]) /\ (wc[q].root \in Roots => Ahead(q, Unreadable))
    <3>1. CASE q = p
      BY <3>1 DEF Ahead
    <3>2. CASE q # p
      BY <1>0, <1>1, <2>1, <3>2 DEF IInv, EnrollerKnows, Ahead, TypeOK
    <3> QED BY <3>1, <3>2
  <2>3. \A c : Ahead(q, c)' <=> Ahead(q, c)
    BY <1>1 DEF Ahead
  <2>4. CASE q = p
    <3>1. pc'[p] = "fsync"
      BY <1>0, <1>1 DEF TypeOK
    <3>2. Ahead(p, part.data) /\ Q[p] \subseteq wc[p].opened /\ PB!Fits(wc[p].opened, Q[p])
      BY <1>1, <2>1, <2>4 DEF ProverKnows, AfterOpen
    <3>3. Ahead(p, part'.data)
      BY <1>2, <1>4, <2>2, <2>4, <3>2
    <3> QED BY <1>1, <1>4, <2>3, <2>4, <3>1, <3>2, <3>3 DEF ProverKnows, Covers, AfterOpen
  <2>5. CASE q # p
    <3>1. pc'[q] = pc[q]
      BY <1>1, <2>5
    <3> QED BY <1>1, <1>2, <2>1, <2>2, <2>3, <3>1 DEF ProverKnows, Covers, AfterOpen
  <2> QED BY <2>4, <2>5
<1>8. ASSUME NEW q \in Drivers \ lock', pc'[q] \in {"save", "write"} PROVE EnrollerKnows(q)'
  <2>1. q # p /\ EnrollerKnows(q)
    BY <1>0, <1>1, <1>8 DEF IInv, TypeOK
  <2> QED BY <1>0, <1>1, <1>3, <2>1 DEF EnrollerKnows, TypeOK
<1> QED BY <1>5, <1>6, <1>7, <1>8 DEF IInv

\* Fsync changes no contents.
LEMMA FsyncPartStep == ASSUME IInv, TypeOK', NEW p \in Drivers, FsyncPart(p) PROVE IInv'
<1>0. TypeOK
  BY DEF IInv
<1>1. /\ pc[p] = "fsync"
      /\ pc' = [pc EXCEPT ![p] = "replace"]
      /\ UNCHANGED <<wc, want, Q, lock, survives, released, enrolled>>
      /\ part'.data = part.data /\ file'.data = file.data
      /\ Contents' = Contents
  BY <1>0 DEF FsyncPart, Goto, TypeOK, Contents
<1>2. (\A c \in Contents' : Covers(c)') /\ UndrawnRoots'
  BY <1>1 DEF IInv, Covers, UndrawnRoots
<1>3. LockedSteps' /\ IdleHoldsNothing'
  BY <1>0, <1>1 DEF IInv, LockedSteps, IdleHoldsNothing, TypeOK
<1>4. ASSUME NEW q \in lock' PROVE ProverKnows(q)'
  <2>1. q \in Drivers /\ ProverKnows(q)
    BY <1>0, <1>1, <1>4 DEF IInv, TypeOK
  <2>2. IF q = p THEN pc'[q] = "replace" ELSE pc'[q] = pc[q]
    BY <1>0, <1>1, <2>1 DEF TypeOK
  <2> QED BY <1>1, <2>1, <2>2 DEF ProverKnows, Ahead, Covers, AfterOpen
<1>5. ASSUME NEW q \in Drivers \ lock', pc'[q] \in {"save", "write"} PROVE EnrollerKnows(q)'
  <2>1. EnrollerKnows(q)
    BY <1>0, <1>1, <1>5 DEF IInv, TypeOK
  <2> QED BY <1>1, <2>1 DEF EnrollerKnows
<1> QED BY <1>2, <1>3, <1>4, <1>5 DEF IInv

\* The rename shows what the .part held, which is ahead of the locked driver.
LEMMA ReplaceStep == ASSUME IInv, TypeOK', NEW p \in Drivers, Replace(p) PROVE IInv'
<1> USE UnreadableIsHandle, LedgerAssumption
<1>0. TypeOK
  BY DEF IInv
<1>1. CASE ~part.there
  BY <1>1, EndPreserves DEF Replace, IInv
<1>2. CASE part.there
  <2>1. /\ pc[p] = "replace"
        /\ pc' = [pc EXCEPT ![p] = "dirsync"]
        /\ UNCHANGED <<wc, want, Q, lock, released, enrolled>>
        /\ file'.data = part.data
        /\ part'.data = Unreadable
        /\ survives' \subseteq survives \cup {part.data, Unreadable}
    BY <1>2, NoPartType DEF Replace, Goto
  <2>2. Contents' \subseteq Contents \cup {Unreadable}
    BY <2>1 DEF Contents
  <2>3. (\A c \in Contents' : Covers(c)') /\ UndrawnRoots'
    BY <1>0, <2>1, <2>2 DEF IInv, Covers, UndrawnRoots, TypeOK
  <2>4. LockedSteps' /\ IdleHoldsNothing'
    BY <1>0, <2>1 DEF IInv, LockedSteps, IdleHoldsNothing, TypeOK
  <2>5. ASSUME NEW q \in lock' PROVE ProverKnows(q)'
    <3>1. q \in Drivers /\ ProverKnows(q)
      BY <1>0, <2>1, <2>5 DEF IInv, TypeOK
    <3>2. IF q = p THEN pc'[q] = "dirsync" ELSE pc'[q] = pc[q]
      BY <1>0, <2>1, <3>1 DEF TypeOK
    <3>3. \A c : Ahead(q, c)' <=> Ahead(q, c)
      BY <2>1 DEF Ahead
    <3>4. wc[q].root \in Roots => Ahead(q, Unreadable)
      BY DEF Ahead
    <3> QED BY <2>1, <3>1, <3>2, <3>3, <3>4 DEF ProverKnows, Covers, AfterOpen
  <2>6. ASSUME NEW q \in Drivers \ lock', pc'[q] \in {"save", "write"} PROVE EnrollerKnows(q)'
    <3>1. EnrollerKnows(q)
      BY <1>0, <2>1, <2>6 DEF IInv, TypeOK
    <3> QED BY <1>0, <2>1, <2>2, <3>1 DEF EnrollerKnows, TypeOK
  <2> QED BY <2>3, <2>4, <2>5, <2>6 DEF IInv
<1> QED BY <1>1, <1>2

\* After the directory sync only what the path shows can survive.
LEMMA SyncDirStep == ASSUME IInv, TypeOK', NEW p \in Drivers, SyncDir(p) PROVE IInv'
<1> USE UnreadableIsHandle, LedgerAssumption
<1>0. TypeOK
  BY DEF IInv
<1>1. /\ pc[p] = "dirsync"
      /\ survives' \subseteq {file.data, Unreadable}
      /\ UNCHANGED <<file, part, released, enrolled>>
  BY DEF SyncDir
<1>2. CASE p \notin lock
  BY <1>1, <1>2, EndPreserves DEF SyncDir, IInv
<1>3. CASE p \in lock
  <2>1. /\ pc' = [pc EXCEPT ![p] = "dump"]
        /\ UNCHANGED <<wc, want, Q, lock>>
    BY <1>3 DEF SyncDir, Goto
  <2>2. Contents' \subseteq Contents \cup {Unreadable}
    BY <1>1 DEF Contents
  <2>3. (\A c \in Contents' : Covers(c)') /\ UndrawnRoots'
    BY <1>0, <1>1, <2>1, <2>2 DEF IInv, Covers, UndrawnRoots, TypeOK
  <2>4. LockedSteps' /\ IdleHoldsNothing'
    BY <1>0, <1>3, <2>1 DEF IInv, LockedSteps, IdleHoldsNothing, TypeOK
  <2>5. ASSUME NEW q \in lock' PROVE ProverKnows(q)'
    <3>1. q = p /\ ProverKnows(p) /\ pc'[p] = "dump"
      BY <1>0, <1>3, <2>1, <2>5 DEF IInv, TypeOK
    <3>2. \A c : Ahead(p, c)' <=> Ahead(p, c)
      BY <2>1 DEF Ahead
    <3>3. wc[p].root \in Roots => Ahead(p, Unreadable)
      BY DEF Ahead
    <3> QED BY <1>1, <2>1, <3>1, <3>2, <3>3 DEF ProverKnows, Covers, AfterOpen
  <2>6. ASSUME NEW q \in Drivers \ lock', pc'[q] \in {"save", "write"} PROVE EnrollerKnows(q)'
    <3>1. EnrollerKnows(q)
      BY <1>0, <2>1, <2>6 DEF IInv, TypeOK
    <3> QED BY <1>0, <1>1, <2>1, <2>2, <3>1 DEF EnrollerKnows, TypeOK
  <2> QED BY <2>3, <2>4, <2>5, <2>6 DEF IInv
<1> QED BY <1>2, <1>3

\* A release is covered by everything the path shows or could fall back to.
LEMMA DumpStep == ASSUME IInv, TypeOK', NEW p \in Drivers, Dump(p) PROVE IInv'
<1> USE UnreadableIsHandle, LedgerAssumption
<1>0. TypeOK
  BY DEF IInv
<1> DEFINE r == wc[p].root
<1>1. /\ pc[p] = "dump"
      /\ pc' = [pc EXCEPT ![p] = "idle"]
      /\ wc' = [wc EXCEPT ![p] = Unreadable]
      /\ Q' = [Q EXCEPT ![p] = {}]
      /\ lock' = lock \ {p}
      /\ released' = [released EXCEPT ![r] = @ \cup Q[p]]
      /\ UNCHANGED <<file, survives, part, enrolled>>
      /\ Contents' = Contents
  BY DEF Dump, Exit, Goto, Contents
<1>2. p \in lock /\ lock' = {} /\ ProverKnows(p)
  BY <1>0, <1>1 DEF IInv, LockedSteps, TypeOK
<1>3. r \in Roots /\ Q[p] \subseteq wc[p].opened /\ \A c \in Contents : Ahead(p, c)
  BY <1>1, <1>2 DEF ProverKnows, AfterOpen, Contents
<1>4. released'[r] \subseteq wc[p].opened /\ \A s \in Roots \ {r} : released'[s] = released[s]
  BY <1>0, <1>1, <1>2, <1>3 DEF ProverKnows, Covers, TypeOK
<1>5. \A c \in Contents' : Covers(c)'
  <2> SUFFICES ASSUME NEW c \in Contents, c.root \in Roots
               PROVE  released'[c.root] \subseteq c.opened
    BY <1>1 DEF Covers
  <2>1. Covers(c) /\ Ahead(p, c)
    BY <1>3 DEF IInv
  <2> QED BY <1>4, <2>1 DEF Covers, Ahead
<1>6. UndrawnRoots'
  BY <1>0, <1>1, <1>3, <1>4 DEF IInv, UndrawnRoots, TypeOK
<1>7. LockedSteps' /\ IdleHoldsNothing'
  BY <1>0, <1>1, <1>2 DEF IInv, LockedSteps, IdleHoldsNothing, TypeOK
<1>8. ASSUME NEW q \in Drivers \ lock', pc'[q] \in {"save", "write"} PROVE EnrollerKnows(q)'
  <2>1. q # p /\ q \notin lock /\ pc[q] \in {"save", "write"}
    BY <1>0, <1>1, <1>2, <1>8 DEF TypeOK
  <2>2. EnrollerKnows(q) /\ wc'[q] = wc[q] /\ Q'[q] = Q[q]
    BY <1>0, <1>1, <2>1 DEF IInv, TypeOK
  <2>3. wc[q].root # r
    BY <2>1, <2>2 DEF EnrollerKnows
  <2>4. \A d \in Drivers : wc'[d] = wc[d] \/ wc'[d] = Unreadable
    BY <1>0, <1>1 DEF TypeOK
  <2> QED BY <1>0, <1>1, <1>4, <2>1, <2>2, <2>3, <2>4 DEF EnrollerKnows, TypeOK
<1> QED BY <1>2, <1>5, <1>6, <1>7, <1>8 DEF IInv

\* A power loss leaves one of the contents that could survive, and no driver.
LEMMA PowerLossStep == ASSUME IInv, TypeOK', PowerLoss PROVE IInv'
<1> USE UnreadableIsHandle, NoPartType, LedgerAssumption
<1>0. TypeOK
  BY DEF IInv
<1>1. /\ lock' = {}
      /\ \A p \in Drivers : pc'[p] = "idle" /\ wc'[p] = Unreadable /\ Q'[p] = {}
      /\ UNCHANGED <<released, enrolled>>
  BY DEF PowerLoss
<1>2. Contents' \subseteq Contents \cup {Unreadable}
  <2>1. part'.data \in {part.data, Unreadable}
    BY <1>0 DEF PowerLoss, TypeOK
  <2> QED BY <2>1 DEF PowerLoss, Contents
<1>3. (\A c \in Contents' : Covers(c)') /\ UndrawnRoots'
  BY <1>0, <1>1, <1>2 DEF IInv, Covers, UndrawnRoots, TypeOK
<1> QED BY <1>1, <1>3 DEF IInv, LockedSteps, IdleHoldsNothing

\* Every step keeps the inductive invariant.
LEMMA InvStep == IInv /\ [Next]_vars => IInv'
<1> SUFFICES ASSUME IInv, [Next]_vars PROVE IInv'
  OBVIOUS
<1>1. TypeOK'
  BY TypeStep DEF IInv
<1>2. CASE UNCHANGED vars
  BY <1>2 DEF vars, IInv, TypeOK, Contents, Covers, UndrawnRoots, LockedSteps,
     IdleHoldsNothing, ProverKnows, EnrollerKnows, Ahead
<1>3. ASSUME NEW p \in Drivers, Die(p) PROVE IInv'
  BY <1>1, <1>3, EndPreserves DEF Die, IInv
<1> QED
  BY <1>1, <1>2, <1>3, StartEnrollingStep, StartProvingStep, LoadStep, ProveStep,
     OpenPartStep, WritePartStep, FsyncPartStep, ReplaceStep, SyncDirStep, DumpStep,
     PowerLossStep DEF Next

\* The inductive invariant holds throughout every behaviour.
LEMMA Invariance == Spec => []IInv
  BY InvInit, InvStep, PTL DEF Spec
--------------------------------------------------------------------------------
(***************************************************************************)
(* Results                                                                 *)
(***************************************************************************)
\* The state keeps its types, at most one driver holds the flock, and a driver
\* that ended in any way holds neither the flock nor a descriptor.
THEOREM TypeCorrect == Spec => []TypeOK
<1>1. IInv => TypeOK
  BY DEF IInv
<1> QED BY <1>1, Invariance, PTL

\* Neither the path nor anything a power loss may leave at it forgets a column
\* that was written to a proof file.
THEOREM BookedFirst == Spec => []BookedBeforeReleased
<1>1. IInv => BookedBeforeReleased
  BY DEF IInv, BookedBeforeReleased, Contents
<1> QED BY <1>1, Invariance, PTL

\* The ledger a proving driver decides on is never stale.
THEOREM FreshLedger == Spec => []LedgerIsFresh
<1>1. IInv => LedgerIsFresh
  BY DEF IInv, LedgerIsFresh, ProverKnows
<1> QED BY <1>1, Invariance, PTL

\* The driver implements PadBudget: each proof file reveals columns that fit the
\* budget together with everything its root revealed before.
THEOREM Refinement == Spec => ImplementsPadBudget
<1>1. Init => PB!Init
  BY DEF Init, PB!Init
<1>2. IInv /\ [Next]_vars => [PB!Next]_released
  <2> SUFFICES ASSUME IInv, [Next]_vars, released' # released
               PROVE  PB!Next
    OBVIOUS
  <2>1. PICK p \in Drivers : Dump(p)
    BY DEF Next, vars, StartEnrolling, StartProving, Load, Prove, OpenPart,
       WritePart, FsyncPart, Replace, SyncDir, Die, PowerLoss
  <2> DEFINE r == wc[p].root
  <2>2. p \in lock /\ ProverKnows(p) /\ pc[p] = "dump"
    BY <2>1 DEF IInv, LockedSteps, Dump
  <2>3. r \in Roots /\ released[r] \subseteq wc[p].opened /\ Q[p] \subseteq wc[p].opened
    BY <2>2 DEF ProverKnows, Covers, AfterOpen
  <2>4. Q[p] \in SUBSET Columns /\ wc[p].opened \in SUBSET Columns
    BY <2>2 DEF IInv, TypeOK, Handle
  <2>5. PB!Fits(released[r], Q[p])
    <3>1. PB!Fits(wc[p].opened, Q[p])
      BY <2>2 DEF ProverKnows, AfterOpen
    <3>2. IsFiniteSet(wc[p].opened \cup Q[p])
      BY <2>4, LedgerAssumption, FS_Subset
    <3>3. released[r] \cup Q[p] \subseteq wc[p].opened \cup Q[p]
      BY <2>3
    <3>4. /\ Cardinality(released[r] \cup Q[p]) <= Cardinality(wc[p].opened \cup Q[p])
          /\ Cardinality(released[r] \cup Q[p]) \in Nat
          /\ Cardinality(wc[p].opened \cup Q[p]) \in Nat
      BY <3>2, <3>3, FS_Subset, FS_CardinalityType
    <3>5. PB!Budget \in Int
      BY LedgerAssumption DEF PB!Budget
    <3>6. \A S : PB!Cardinality(S) = Cardinality(S)
      BY DEF PB!Cardinality, Cardinality
    <3> QED BY <3>1, <3>4, <3>5, <3>6 DEF PB!Fits
  <2>6. released' = [released EXCEPT ![r] = @ \cup Q[p]]
    BY <2>1 DEF Dump
  <2> QED BY <2>3, <2>4, <2>5, <2>6 DEF PB!Next, PB!Reveal
<1> QED BY <1>1, <1>2, Invariance, PTL DEF Spec, PB!Spec, ImplementsPadBudget

================================================================================
