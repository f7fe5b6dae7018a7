---------------------------- MODULE DispatchProofs ----------------------------
(***************************************************************************)
(* For any number of threads and any set of processors: the dispatch table  *)
(* is written once, never read in a race, fits the processor, and the state *)
(* machine implements OnceTable.  All of it follows from IInv, which says   *)
(* what each prefix of the modification order tells about the threads.      *)
(***************************************************************************)
EXTENDS Dispatch, TLAPS

Uninit == [val |-> "UNINIT", rel |-> FALSE]
Locked == [val |-> "LOCKED", rel |-> FALSE]
Done   == [val |-> "DONE",   rel |-> TRUE]

\* The modification order is a prefix of UNINIT, LOCKED, DONE, and only DONE
\* carries the table.
OrderInv ==
  /\ mo[1] = Uninit
  /\ Len(mo) >= 2 => mo[2] = Locked
  /\ Len(mo) = 3 => mo[3] = Done

\* There is an owner exactly while LOCKED is the newest message, and one only.
OwnerInv ==
  /\ \A t \in Threads : Owner(t) => Len(mo) = 2
  /\ \A t, u \in Threads : Owner(t) /\ Owner(u) => t = u
  /\ Len(mo) = 2 => \E t \in Threads : Owner(t)
  /\ \A t \in Threads : pc[t] = "spin" => Len(mo) >= 2

\* The cell holds the table from the write on.
CellInv ==
  /\ cell \in {None, Table(cpu)}
  /\ Len(mo) = 1 => cell = None
  /\ \A t \in Threads : pc[t] = "write" => cell = None
  /\ \A t \in Threads : pc[t] = "store" => cell = Table(cpu) /\ sees[t]
  /\ Len(mo) = 3 => cell = Table(cpu)

\* What a thread may rely on: having loaded DONE it has the write in its past.
ViewInv ==
  \A t \in Threads :
    /\ view[t] = 3 => sees[t]
    /\ pc[t] = "return" => view[t] = 3
    /\ got[t] # None => got[t] = Table(cpu) /\ view[t] = 3
    /\ got[t] # None => pc[t] \in {"idle", "load", "return"}

IInv == TypeOK /\ OrderInv /\ OwnerInv /\ CellInv /\ ViewInv

-------------------------------------------------------------------------------
(***************************************************************************)
(* The table.                                                               *)
(***************************************************************************)

\* Whatever the processor, every entry has a backend that was detected: SSE2
\* needs no detection and every entry offers it.
LEMMA BestDetected ==
  ASSUME NEW e \in Entries, NEW features
  PROVE  Best(e, features) \in Offered[e] /\ Detected(Best(e, features), features)
<1>1. \E tier \in Offered[e] :
        /\ Detected(tier, features)
        /\ \A u \in Offered[e] : Detected(u, features) => Rank[u] <= Rank[tier]
  <2>1. "sse2" \in Offered[e] /\ Detected("sse2", features)
    BY DEF Entries, Offered, Tiers, Detected, Detects
  <2>2. Offered[e] \subseteq Tiers
    BY DEF Entries, Offered, Tiers
  <2> QED
    BY <2>1, <2>2 DEF Tiers, Rank
<1> QED
  BY <1>1 DEF Best

LEMMA TableType == \A features : Table(features) \in AllTables
BY BestDetected DEF Table, AllTables, Offered, Entries, Tiers

\* The backends of the table may run on a processor that has its features.
LEMMA TableSupported ==
  ASSUME NEW c \in CpuSets, NEW e \in Entries
  PROVE  Requires[Table(c)[e]] \subseteq c
<1>1. Table(c)[e] \in Tiers /\ Detects[Table(c)[e]] \subseteq c
  BY BestDetected DEF Table, Detected, Offered, Entries, Tiers
<1>2. FeatureClosed(c)
  BY CpuAssumption
<1> QED
  BY <1>1, <1>2 DEF FeatureClosed, Tiers, Detects, Requires

LEMMA TableNotNone == \A features : Table(features) # None /\ Table(features) # Poison
BY TableType, NoneAssumption

-------------------------------------------------------------------------------
(***************************************************************************)
(* The inductive invariant.                                                 *)
(***************************************************************************)

LEMMA InitInv == Init => IInv
<1> SUFFICES ASSUME Init PROVE IInv
  OBVIOUS
<1>1. TypeOK
  BY DEF Init, TypeOK, Message, Places
<1>2. OrderInv
  BY DEF Init, OrderInv, Uninit
<1>3. OwnerInv /\ CellInv /\ ViewInv
  BY DEF Init, OwnerInv, Owner, CellInv, ViewInv
<1> QED
  BY <1>1, <1>2, <1>3 DEF IInv

LEMMA Positions ==
  \A n \in 1 .. 3 : \A i \in 1 .. n : i = 1 \/ (i = 2 /\ n >= 2) \/ (i = 3 /\ n = 3)
OBVIOUS

\* Loading any message in view keeps the invariant's claims about the loader.
LEMMA LoadView ==
  ASSUME IInv, NEW t \in Threads, NEW i \in Readable(t), AcquireLoad(t, i)
  PROVE  /\ i \in 1 .. Len(mo)
         /\ view' \in [Threads -> 1 .. Len(mo)] /\ sees' \in [Threads -> BOOLEAN]
         /\ view'[t] = i /\ view[t] <= i
         /\ \A u \in Threads : u # t => view'[u] = view[u] /\ sees'[u] = sees[u]
         /\ \A u \in Threads : sees[u] => sees'[u]
         /\ view'[t] = 3 => sees'[t]
         /\ mo[i].val = "DONE" <=> i = 3
         /\ mo[i].val # "UNINIT" => Len(mo) >= 2
<1>1. TypeOK /\ OrderInv
  BY DEF IInv
<1>2. Len(mo) \in 1 .. 3 /\ view[t] \in 1 .. Len(mo)
  BY <1>1 DEF TypeOK
<1>3. i \in 1 .. Len(mo) /\ view[t] <= i
  BY <1>2 DEF Readable
<1>4. mo[i] \in Message
  BY <1>1, <1>3 DEF TypeOK
<1>5. /\ view' \in [Threads -> 1 .. Len(mo)] /\ sees' \in [Threads -> BOOLEAN]
      /\ view'[t] = i
      /\ \A u \in Threads : u # t => view'[u] = view[u] /\ sees'[u] = sees[u]
      /\ \A u \in Threads : sees[u] => sees'[u]
      /\ sees'[t] = (sees[t] \/ mo[i].rel)
  BY <1>1, <1>3, <1>4 DEF AcquireLoad, Message, TypeOK
<1>6. i = 1 \/ (i = 2 /\ Len(mo) >= 2) \/ (i = 3 /\ Len(mo) = 3)
  BY <1>2, <1>3, Positions
<1>7. i = 1 => mo[i].val = "UNINIT"
  BY <1>1 DEF OrderInv, Uninit
<1>8. i = 2 => mo[i].val = "LOCKED"
  BY <1>1, <1>6 DEF OrderInv, Locked
<1>9. i = 3 => mo[i].val = "DONE" /\ mo[i].rel
  BY <1>1, <1>6 DEF OrderInv, Done
<1> QED
  BY <1>2, <1>3, <1>5, <1>6, <1>7, <1>8, <1>9

\* A step that only moves the loader and its view: both loads and the failed
\* exchange are of this form.
LEMMA LoadStep ==
  ASSUME IInv, NEW t \in Threads, NEW i \in Readable(t), AcquireLoad(t, i),
         NEW place \in Places, Goto(t, place),
         pc[t] \in {"load", "cas", "spin"},
         place \in {"cas", "spin"} => got[t] = None \/ mo[i].val # "DONE",
         place \in {"cas", "spin", "return"},
         place = "spin" => Len(mo) >= 2,
         place = "return" => mo[i].val = "DONE",
         UNCHANGED <<cpu, mo, cell, got>>
  PROVE  IInv'
<1>1. TypeOK /\ OrderInv /\ OwnerInv /\ CellInv /\ ViewInv
  BY DEF IInv
<1>2. /\ i \in 1 .. Len(mo)
      /\ view' \in [Threads -> 1 .. Len(mo)] /\ sees' \in [Threads -> BOOLEAN]
      /\ view'[t] = i /\ view[t] <= i
      /\ \A u \in Threads : u # t => view'[u] = view[u] /\ sees'[u] = sees[u]
      /\ \A u \in Threads : sees[u] => sees'[u]
      /\ view'[t] = 3 => sees'[t]
      /\ mo[i].val = "DONE" <=> i = 3
      /\ mo[i].val # "UNINIT" => Len(mo) >= 2
  BY LoadView
<1>3. /\ pc' \in [Threads -> Places] /\ pc'[t] = place
      /\ \A u \in Threads : u # t => pc'[u] = pc[u]
  BY <1>1 DEF TypeOK, Goto
<1>4. ~ Owner(t) /\ \A u \in Threads : Owner(u)' <=> Owner(u)
  BY <1>3 DEF Owner
<1>5. TypeOK'
  BY <1>1, <1>2, <1>3 DEF TypeOK
<1>6. OrderInv'
  BY <1>1 DEF OrderInv
<1>7. OwnerInv'
  BY <1>1, <1>2, <1>3, <1>4 DEF OwnerInv
<1>8. CellInv'
  <2>1. pc'[t] # "write" /\ pc'[t] # "store"
    BY <1>3
  <2> QED
    BY <1>1, <1>2, <1>3, <2>1 DEF CellInv
<1>9. got[t] # None => i = 3
  <2>1. got[t] # None => view[t] = 3
    BY <1>1 DEF ViewInv
  <2>2. Len(mo) \in 1 .. 3
    BY <1>1 DEF TypeOK
  <2> QED
    BY <1>2, <2>1, <2>2, Positions
<1>10. ViewInv'
  BY <1>1, <1>2, <1>3, <1>9 DEF ViewInv
<1> QED
  BY <1>5, <1>6, <1>7, <1>8, <1>10 DEF IInv

\* The two stores: appending LOCKED and appending DONE.
LEMMA AppendMessage ==
  ASSUME TypeOK, OrderInv, Len(mo) \in {1, 2}, NEW m \in Message,
         Len(mo) = 1 => m = Locked, Len(mo) = 2 => m = Done,
         mo' = Append(mo, m)
  PROVE  /\ mo' \in Seq(Message) /\ Len(mo') = Len(mo) + 1 /\ Len(mo') \in 1 .. 3
         /\ OrderInv'
<1>1. mo \in Seq(Message)
  BY DEF TypeOK
<1>2. /\ mo' \in Seq(Message) /\ Len(mo') = Len(mo) + 1
      /\ \A j \in 1 .. Len(mo) : mo'[j] = mo[j]
      /\ mo'[Len(mo) + 1] = m
  BY <1>1
<1>3. CASE Len(mo) = 1
  BY <1>2, <1>3 DEF OrderInv
<1>4. CASE Len(mo) = 2
  BY <1>2, <1>4 DEF OrderInv
<1> QED
  BY <1>2, <1>3, <1>4

LEMMA NewestMessage ==
  ASSUME TypeOK, OrderInv
  PROVE  /\ Last.val = "UNINIT" <=> Len(mo) = 1
         /\ Published <=> Len(mo) = 3
         /\ Last.rel => Len(mo) = 3
         /\ Len(mo) \in 1 .. 3
<1>1. Len(mo) \in 1 .. 3
  BY DEF TypeOK
<1> QED
  BY <1>1, Positions DEF OrderInv, Last, Published, Uninit, Locked, Done

LEMMA Inductive == IInv /\ [Next]_vars => IInv'
<1> SUFFICES ASSUME IInv, [Next]_vars PROVE IInv'
  OBVIOUS
<1>1. TypeOK /\ OrderInv /\ OwnerInv /\ CellInv /\ ViewInv
  BY DEF IInv
<1>2. /\ Last.val = "UNINIT" <=> Len(mo) = 1
      /\ Published <=> Len(mo) = 3
      /\ Last.rel => Len(mo) = 3
      /\ Len(mo) \in 1 .. 3
  BY <1>1, NewestMessage
<1>3. ASSUME NEW t \in Threads, Call(t) PROVE IInv'
  <2>1. TypeOK' /\ OrderInv'
    BY <1>1, <1>3 DEF Call, Goto, TypeOK, OrderInv, Places
  <2>2. OwnerInv'
    BY <1>1, <1>3 DEF Call, Goto, TypeOK, OwnerInv, Owner
  <2>3. CellInv'
    BY <1>1, <1>3 DEF Call, Goto, TypeOK, CellInv
  <2>4. ViewInv'
    BY <1>1, <1>3 DEF Call, Goto, TypeOK, ViewInv
  <2> QED
    BY <2>1, <2>2, <2>3, <2>4 DEF IInv
<1>4. ASSUME NEW t \in Threads, FastLoad(t) PROVE IInv'
  <2>1. PICK i \in Readable(t) :
          AcquireLoad(t, i) /\ Goto(t, IF mo[i].val = "DONE" THEN "return" ELSE "cas")
    BY <1>4 DEF FastLoad
  <2>2. CASE mo[i].val = "DONE"
    BY <1>4, <2>1, <2>2, LoadStep, "return" \in Places DEF FastLoad, Places
  <2>3. CASE mo[i].val # "DONE"
    BY <1>4, <2>1, <2>3, LoadStep, "cas" \in Places DEF FastLoad, Places
  <2> QED
    BY <2>2, <2>3
<1>5. ASSUME NEW t \in Threads, CasWin(t) PROVE IInv'
  <2>1. Len(mo) = 1
    BY <1>2, <1>5 DEF CasWin
  <2>2. Last = Uninit
    BY <1>1, <2>1 DEF Last, OrderInv
  <2>3. mo' = Append(mo, Locked) /\ Locked \in Message
    BY <1>5, <2>2 DEF CasWin, Uninit, Locked, Message
  <2>4. mo' \in Seq(Message) /\ Len(mo') = 2 /\ OrderInv'
    BY <1>1, <2>1, <2>3, AppendMessage
  <2>5. /\ pc' \in [Threads -> Places] /\ pc'[t] = "write"
        /\ \A u \in Threads : u # t => pc'[u] = pc[u]
        /\ view'[t] = 2 /\ \A u \in Threads : u # t => view'[u] = view[u]
        /\ view' \in [Threads -> 1 .. 2] /\ sees' = sees
        /\ got[t] = None
    BY <1>1, <1>5, <2>1, <2>2 DEF CasWin, Goto, Places, TypeOK, ViewInv, Uninit
  <2>6. TypeOK'
    BY <1>1, <1>5, <2>4, <2>5 DEF TypeOK, CasWin
  <2>7. \A u \in Threads : ~ Owner(u) /\ pc[u] # "spin"
    BY <1>1, <2>1 DEF OwnerInv
  <2>8. OwnerInv'
    BY <2>4, <2>5, <2>7 DEF OwnerInv, Owner
  <2>9. CellInv'
    BY <1>1, <1>5, <2>1, <2>4, <2>5, <2>7 DEF CellInv, CasWin, Owner
  <2>10. ViewInv'
    BY <1>1, <1>5, <2>5 DEF ViewInv, CasWin
  <2> QED
    BY <2>4, <2>6, <2>8, <2>9, <2>10 DEF IInv
<1>6. ASSUME NEW t \in Threads, CasLose(t) PROVE IInv'
  <2>1. PICK i \in Readable(t) : mo[i].val # "UNINIT" /\ AcquireLoad(t, i)
    BY <1>6 DEF CasLose
  <2>2. got[t] = None
    BY <1>1, <1>6 DEF ViewInv, CasLose
  <2>3. Len(mo) >= 2
    BY <2>1, LoadView
  <2> QED
    BY <1>6, <2>1, <2>2, <2>3, LoadStep, "spin" \in Places DEF CasLose, Places
<1>7. ASSUME NEW t \in Threads, WriteTable(t) PROVE IInv'
  <2>1. Len(mo) = 2 /\ cell = None /\ \A u \in Threads : Owner(u) => u = t
    BY <1>1, <1>7 DEF OwnerInv, Owner, CellInv, WriteTable
  <2>2. /\ pc' \in [Threads -> Places] /\ pc'[t] = "store" /\ sees'[t]
        /\ \A u \in Threads : u # t => pc'[u] = pc[u] /\ sees'[u] = sees[u]
        /\ sees' \in [Threads -> BOOLEAN]
    BY <1>1, <1>7 DEF WriteTable, Goto, Places, TypeOK
  <2>3. TypeOK' /\ OrderInv'
    BY <1>1, <1>7, <2>2, TableType DEF TypeOK, OrderInv, WriteTable
  <2>4. OwnerInv'
    BY <1>1, <1>7, <2>1, <2>2 DEF OwnerInv, Owner, WriteTable
  <2>5. CellInv'
    BY <1>1, <1>7, <2>1, <2>2 DEF CellInv, Owner, WriteTable
  <2>6. ViewInv'
    BY <1>1, <1>7, <2>2 DEF ViewInv, WriteTable
  <2> QED
    BY <2>3, <2>4, <2>5, <2>6 DEF IInv
<1>8. ASSUME NEW t \in Threads, StoreDone(t) PROVE IInv'
  <2>1. Len(mo) = 2 /\ cell = Table(cpu) /\ sees[t] /\ \A u \in Threads : Owner(u) => u = t
    BY <1>1, <1>8 DEF OwnerInv, Owner, CellInv, StoreDone
  <2>2. mo' = Append(mo, Done) /\ Done \in Message
    BY <1>1, <1>8, <2>1 DEF StoreDone, ReleaseFlag, Done, Message, TypeOK
  <2>3. mo' \in Seq(Message) /\ Len(mo') = 3 /\ OrderInv'
    BY <1>1, <2>1, <2>2, AppendMessage
  <2>4. /\ pc' \in [Threads -> Places] /\ pc'[t] = "return"
        /\ \A u \in Threads : u # t => pc'[u] = pc[u]
        /\ view'[t] = 3 /\ \A u \in Threads : u # t => view'[u] = view[u]
        /\ view' \in [Threads -> 1 .. 3]
    BY <1>1, <1>8, <2>1 DEF StoreDone, Goto, Places, TypeOK
  <2>5. TypeOK'
    BY <1>1, <1>8, <2>3, <2>4 DEF TypeOK, StoreDone
  <2>6. OwnerInv'
    BY <1>1, <2>1, <2>3, <2>4 DEF OwnerInv, Owner
  <2>7. CellInv'
    BY <1>1, <1>8, <2>1, <2>3, <2>4 DEF CellInv, Owner, StoreDone
  <2>8. ViewInv'
    BY <1>1, <1>8, <2>1, <2>4 DEF ViewInv, StoreDone
  <2> QED
    BY <2>3, <2>5, <2>6, <2>7, <2>8 DEF IInv
<1>9. ASSUME NEW t \in Threads, Spin(t) PROVE IInv'
  <2>1. got[t] = None
    BY <1>1, <1>9 DEF ViewInv, Spin, SpinAgain, SpinDone
  <2>2. CASE SpinAgain(t)
    <3>1. PICK i \in Readable(t) : mo[i].val # "DONE" /\ AcquireLoad(t, i)
      BY <2>2 DEF SpinAgain
    <3>2. Goto(t, "spin") /\ Len(mo) >= 2
      BY <1>1, <2>2 DEF SpinAgain, Goto, TypeOK, OwnerInv
    <3> QED
      BY <2>1, <2>2, <3>1, <3>2, LoadStep, "spin" \in Places DEF SpinAgain, Places
  <2>3. CASE SpinDone(t)
    <3>1. PICK i \in Readable(t) : mo[i].val = "DONE" /\ AcquireLoad(t, i)
      BY <2>3 DEF SpinDone
    <3> QED
      BY <2>1, <2>3, <3>1, LoadStep, "return" \in Places DEF SpinDone, Places
  <2> QED
    BY <1>9, <2>2, <2>3 DEF Spin
<1>10. ASSUME NEW t \in Threads, Return(t) PROVE IInv'
  <2>1. sees[t] /\ Len(mo) = 3 /\ view[t] = 3
    <3>1. view[t] = 3 /\ sees[t]
      BY <1>1, <1>10 DEF ViewInv, Return
    <3>2. view[t] \in 1 .. Len(mo)
      BY <1>1 DEF TypeOK
    <3>3. view[t] = 1 \/ (view[t] = 2 /\ Len(mo) >= 2) \/ (view[t] = 3 /\ Len(mo) = 3)
      BY <1>2, <3>2, Positions
    <3> QED
      BY <3>1, <3>3
  <2>2. cell = Table(cpu)
    BY <1>1, <2>1 DEF CellInv
  <2>3. /\ pc' \in [Threads -> Places] /\ pc'[t] = "idle"
        /\ \A u \in Threads : u # t => pc'[u] = pc[u] /\ got'[u] = got[u]
        /\ got'[t] = Table(cpu)
        /\ got' \in [Threads -> AllTables \union {None, Poison}]
    BY <1>1, <1>10, <2>1, <2>2, TableType DEF Return, Goto, Places, TypeOK
  <2>4. TypeOK' /\ OrderInv'
    BY <1>1, <1>10, <2>3 DEF TypeOK, OrderInv, Return
  <2>5. OwnerInv'
    BY <1>1, <1>10, <2>3 DEF OwnerInv, Owner, Return
  <2>6. CellInv'
    BY <1>1, <1>10, <2>3 DEF CellInv, Return
  <2>7. ViewInv'
    BY <1>1, <1>10, <2>1, <2>3 DEF ViewInv, Return
  <2> QED
    BY <2>4, <2>5, <2>6, <2>7 DEF IInv
<1>11. CASE UNCHANGED vars
  BY <1>1, <1>11 DEF vars, IInv, TypeOK, OrderInv, OwnerInv, Owner, CellInv, ViewInv
<1> QED
  BY <1>3, <1>4, <1>5, <1>6, <1>7, <1>8, <1>9, <1>10, <1>11 DEF Next, Step

\* The invariant holds throughout every behaviour.
THEOREM Invariance == Spec => []IInv
<1> QED
  BY InitInv, Inductive, PTL DEF Spec, SafeSpec

-------------------------------------------------------------------------------
(***************************************************************************)
(* What the invariant gives.                                                *)
(***************************************************************************)

\* The range of every variable; in particular DISPATCH_STATE is stored to at
\* most twice, by however many threads race on it.
THEOREM TypeCorrect == Spec => []TypeOK
<1>1. IInv => TypeOK
  BY DEF IInv
<1> QED
  BY <1>1, Invariance, PTL

\* No thread reads the cell without the completed write in its past: the
\* Acquire loads and the one Release store of dispatch.rs are enough.
THEOREM RaceFree == Spec => []NoRacyRead
<1>1. IInv => NoRacyRead
  <2> SUFFICES ASSUME IInv, NEW t \in Threads, pc[t] = "return"
               PROVE  sees[t] /\ cell # None
    BY DEF NoRacyRead
  <2>1. view[t] = 3 /\ sees[t] /\ Len(mo) \in 1 .. 3 /\ view[t] \in 1 .. Len(mo)
    BY DEF IInv, ViewInv, TypeOK
  <2>2. view[t] = 1 \/ (view[t] = 2 /\ Len(mo) >= 2) \/ (view[t] = 3 /\ Len(mo) = 3)
    BY <2>1, Positions
  <2> QED
    BY <2>1, <2>2, TableNotNone DEF IInv, CellInv
<1> QED
  BY <1>1, Invariance, PTL

\* One initialiser at a time, and none after DONE.
THEOREM OneInitialiser == Spec => []SingleInitialiser
<1>1. IInv => SingleInitialiser
  <2> SUFFICES ASSUME IInv, NEW t \in Threads, Owner(t)
               PROVE  ~ Published /\ \A u \in Threads \ {t} : ~ Owner(u)
    BY DEF SingleInitialiser
  <2>1. TypeOK /\ OrderInv /\ OwnerInv
    BY DEF IInv
  <2>2. Len(mo) = 2 /\ \A u \in Threads : Owner(u) => u = t
    BY <2>1 DEF OwnerInv
  <2>3. ~ Published
    BY <2>1, <2>2, NewestMessage
  <2> QED
    BY <2>2, <2>3
<1> QED
  BY <1>1, Invariance, PTL

\* A spinning thread always has somebody to wait for, or nothing left to.
THEOREM NeverWaitsInVain == Spec => []SpinHasOwner
<1>1. IInv => SpinHasOwner
  <2> SUFFICES ASSUME IInv, NEW t \in Threads, pc[t] = "spin"
               PROVE  Published \/ \E u \in Threads : Owner(u)
    BY DEF SpinHasOwner
  <2>1. Len(mo) \in 1 .. 3 /\ Len(mo) >= 2
    BY DEF IInv, OwnerInv, TypeOK
  <2>2. Len(mo) = 2 \/ Len(mo) = 3
    BY <2>1
  <2> QED
    BY <2>2, NewestMessage DEF IInv, OwnerInv
<1> QED
  BY <1>1, Invariance, PTL

\* Every backend a thread can get may be run on the processor.
THEOREM SupportedOnly == Spec => []OnlySupportedCalled
<1>1. IInv => OnlySupportedCalled
  <2> SUFFICES ASSUME IInv, NEW t \in Threads, got[t] # None
               PROVE  /\ got[t] \in AllTables
                      /\ \A e \in Entries : Requires[got[t][e]] \subseteq cpu
    BY DEF OnlySupportedCalled
  <2>1. got[t] = Table(cpu) /\ cpu \in CpuSets
    BY DEF IInv, ViewInv, TypeOK
  <2> QED
    BY <2>1, TableType, TableSupported
<1> QED
  BY <1>1, Invariance, PTL

\* The cold path is for a thread's first call only.
THEOREM FastPathSuffices == Spec => []FastAfterFirst
<1>1. IInv => FastAfterFirst
  BY DEF IInv, ViewInv, FastAfterFirst
<1> QED
  BY <1>1, Invariance, PTL

\* The reference handed out points to a table nobody writes again.
THEOREM TableImmutable == Spec => HandedOutImmutable
<1>1. IInv /\ [Next]_vars =>
        [(\E t \in Threads : got[t] # None \/ pc[t] = "return")
           => ~ \E t \in Threads : WriteTable(t)]_vars
  <2> SUFFICES ASSUME IInv, NEW t \in Threads, got[t] # None \/ pc[t] = "return",
                      NEW u \in Threads, WriteTable(u)
               PROVE  FALSE
    OBVIOUS
  <2>1. view[t] = 3 /\ Len(mo) \in 1 .. 3 /\ view[t] \in 1 .. Len(mo)
    BY DEF IInv, ViewInv, TypeOK
  <2>2. view[t] = 1 \/ (view[t] = 2 /\ Len(mo) >= 2) \/ (view[t] = 3 /\ Len(mo) = 3)
    BY <2>1, Positions
  <2>3. Len(mo) = 2
    BY DEF IInv, OwnerInv, Owner, WriteTable
  <2> QED
    BY <2>1, <2>2, <2>3
<1> QED
  BY <1>1, Invariance, PTL DEF HandedOutImmutable, Spec, SafeSpec

-------------------------------------------------------------------------------
(***************************************************************************)
(* The state machine implements the once-only decision.                     *)
(***************************************************************************)

\* Every step of the code's state machine is a step of OnceTable or hidden
\* from the callers; the store of DONE is the decision.
THEOREM Implements == Spec => Once!SafeSpec
<1>1. Init => Once!Init
  BY NoneAssumption DEF Init, Once!Init, Published, Last
<1>2. IInv /\ IInv' /\ [Next]_vars => [Once!Next]_Once!vars
  <2> SUFFICES ASSUME IInv, IInv', [Next]_vars PROVE [Once!Next]_Once!vars
    OBVIOUS
  <2> DEFINE Calling == {t \in Threads : pc[t] # "idle"}
             Value == IF Published THEN cell ELSE None
  <2>0. pc \in [Threads -> Places] /\ got \in [Threads -> AllTables \union {None, Poison}]
    BY DEF IInv, TypeOK
  <2>1. ASSUME NEW t \in Threads, Call(t) PROVE Once!Call(t)
    <3>1. Calling' = Calling \union {t} /\ t \notin Calling
      BY <2>0, <2>1 DEF Call, Goto
    <3>2. Value' = Value /\ got' = got
      BY <2>1 DEF Call, Published, Last
    <3> QED
      BY <3>1, <3>2 DEF Once!Call
  <2>2. ASSUME NEW t \in Threads, UNCHANGED <<mo, got>>, pc[t] # "idle",
               \E place \in Places \ {"idle"} : Goto(t, place) \/ pc' = pc,
               cell' = cell \/ Len(mo) # 3
        PROVE  UNCHANGED Once!vars
    <3>1. Calling' = Calling
      BY <2>0, <2>2 DEF Goto
    <3>2. Value' = Value
      BY <2>2, NewestMessage DEF IInv, Published, Last
    <3> QED
      BY <2>2, <3>1, <3>2 DEF Once!vars
  <2>3. ASSUME NEW t \in Threads, FastLoad(t) PROVE UNCHANGED Once!vars
    BY <2>2, <2>3 DEF FastLoad, Places
  <2>4. ASSUME NEW t \in Threads, CasWin(t) PROVE UNCHANGED Once!vars
    <3>1. Calling' = Calling
      BY <2>0, <2>4 DEF CasWin, Goto
    <3>2. ~ Published /\ ~ Published'
      <4>1. Last.val = "UNINIT" /\ mo \in Seq(Message)
        BY <2>4 DEF CasWin, IInv, TypeOK
      <4>2. Len(mo) = 1
        BY <4>1, NewestMessage DEF IInv
      <4>3. Len(mo') = 2
        <5>1. Last = Uninit
          BY <4>2 DEF Last, IInv, OrderInv
        <5>2. mo' = Append(mo, Locked) /\ Locked \in Message
          BY <2>4, <5>1 DEF CasWin, Uninit, Locked, Message
        <5> QED
          BY <4>1, <4>2, <5>2, AppendMessage DEF IInv
      <4>4. Published' <=> Len(mo') = 3
        BY <4>3 DEF IInv, OrderInv, Published, Last, Locked
      <4> QED
        BY <4>1, <4>3, <4>4 DEF Published
    <3> QED
      BY <2>4, <3>1, <3>2 DEF CasWin, Once!vars
  <2>5. ASSUME NEW t \in Threads, CasLose(t) PROVE UNCHANGED Once!vars
    BY <2>2, <2>5 DEF CasLose, Places
  <2>6. ASSUME NEW t \in Threads, WriteTable(t) PROVE UNCHANGED Once!vars
    <3>1. Len(mo) = 2
      BY <2>6 DEF IInv, OwnerInv, Owner, WriteTable
    <3> QED
      BY <2>2, <2>6, <3>1 DEF WriteTable, Places
  <2>7. ASSUME NEW t \in Threads, StoreDone(t) PROVE Once!Decide
    <3>1. Calling' = Calling /\ t \in Calling
      BY <2>0, <2>7 DEF StoreDone, Goto
    <3>2. Len(mo) = 2 /\ cell = Table(cpu) /\ mo \in Seq(Message)
      BY <2>7 DEF IInv, OwnerInv, Owner, CellInv, TypeOK, StoreDone
    <3>3. ~ Published
      BY <3>2, NewestMessage DEF IInv
    <3>4. Published'
      BY <2>7, <3>2 DEF StoreDone, Published, Last
    <3> QED
      BY <2>7, <3>1, <3>2, <3>3, <3>4, TableType DEF StoreDone, Once!Decide
  <2>8. ASSUME NEW t \in Threads, Spin(t) PROVE UNCHANGED Once!vars
    BY <2>2, <2>8 DEF Spin, SpinAgain, SpinDone, Places
  <2>9. ASSUME NEW t \in Threads, Return(t) PROVE Once!Return(t)
    <3>1. Calling' = Calling \ {t} /\ t \in Calling
      BY <2>0, <2>9 DEF Return, Goto
    <3>2. view[t] = 3 /\ sees[t] /\ Len(mo) \in 1 .. 3 /\ view[t] \in 1 .. Len(mo)
      BY <2>9 DEF IInv, ViewInv, TypeOK, Return
    <3>3. view[t] = 1 \/ (view[t] = 2 /\ Len(mo) >= 2) \/ (view[t] = 3 /\ Len(mo) = 3)
      BY <3>2, Positions
    <3>4. Published /\ cell = Table(cpu)
      BY <3>2, <3>3, NewestMessage DEF IInv, CellInv
    <3>5. Published' /\ cell' = cell
      BY <2>9, <3>4 DEF Return, Published, Last
    <3> QED
      BY <2>9, <3>1, <3>2, <3>4, <3>5, TableNotNone DEF Return, Once!Return
  <2>10. CASE UNCHANGED vars
    BY <2>10 DEF vars, Once!vars, Published, Last
  <2> QED
    BY <2>1, <2>3, <2>4, <2>5, <2>6, <2>7, <2>8, <2>9, <2>10 DEF Next, Step, Once!Next
<1> QED
  BY <1>1, <1>2, Invariance, PTL DEF Spec, SafeSpec, Once!SafeSpec
===============================================================================
