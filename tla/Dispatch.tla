------------------------------- MODULE Dispatch -------------------------------
(***************************************************************************)
(* The x86_64 dispatch table of src/src/byte_utils/dispatch.rs: a static    *)
(* cell written once, guarded by an AtomicU8 that goes UNINIT, LOCKED,      *)
(* DONE.  Any number of threads call get_dispatch, over and over.           *)
(*                                                                          *)
(* The atomic is not sequentially consistent in the code, so it is not one  *)
(* variable here.  `mo` is its modification order; a load may return any    *)
(* message not older than the newest one the thread has seen (coherence),   *)
(* and an Acquire load of a message published with Release makes the table  *)
(* write visible to the thread (`sees`).  Reading the cell without having   *)
(* it in view is a data race: the read returns Poison.                      *)
(***************************************************************************)
EXTENDS Naturals, Sequences

CONSTANTS
  Threads,     \* the threads that compare strings
  CpuSets,     \* the feature sets of the processors the program may run on
  None,        \* no table: the cell is uninitialised, or a thread holds none
  Poison       \* what a racy read of the cell yields

Features == {"sse2", "sse4.1", "sse4.2", "avx2", "avx512f", "avx512bw"}

Tiers == {"sse2", "sse41", "sse42", "avx2", "avx512"}

Entries == {"skip_equal", "skip_while_digit", "is_ascii"}

(***************************************************************************)
(* Every x86_64 processor has SSE2, and each extension is shipped (and      *)
(* reported by CPUID) only together with the older ones it builds on.       *)
(***************************************************************************)
FeatureClosed(cpu) ==
  /\ "sse2" \in cpu
  /\ "sse4.2" \in cpu => "sse4.1" \in cpu
  /\ "avx2" \in cpu => "sse4.2" \in cpu
  /\ "avx512f" \in cpu => "avx2" \in cpu
  /\ "avx512bw" \in cpu => "avx512f" \in cpu

ASSUME CpuAssumption ==
  /\ CpuSets \subseteq SUBSET Features
  /\ \A cpu \in CpuSets : FeatureClosed(cpu)

AllTables == [Entries -> Tiers]

ASSUME NoneAssumption ==
  /\ None \notin AllTables
  /\ Poison \notin AllTables
  /\ None # Poison

VARIABLES
  cpu,    \* the features of this processor
  mo,     \* the modification order of DISPATCH_STATE: its messages so far
  cell,   \* DISPATCH_VALUE
  pc,     \* where each thread is in get_dispatch and init_dispatch_lock
  view,   \* the newest message of mo each thread has seen
  sees,   \* whether the write of the cell happens before the thread's present
  got     \* the table each thread's last finished call returned

vars == <<cpu, mo, cell, pc, view, sees, got>>

Places == {"idle", "load", "cas", "write", "store", "spin", "return"}

(***************************************************************************)
(* The choice of the backends.                                              *)
(***************************************************************************)

\* The features the cpufeatures tokens of lines 25-28 look for, per tier.
Detects == [avx512 |-> {"avx512f", "avx512bw"}, avx2 |-> {"avx2"},
            sse42 |-> {"sse4.2"}, sse41 |-> {"sse4.1"}, sse2 |-> {}]

\* The target_feature attributes of the backends: what the compiler may emit.
Requires == [avx512 |-> {"avx512bw", "avx2"}, avx2 |-> {"avx2"},
             sse42 |-> {"sse4.2"}, sse41 |-> {"sse4.1"}, sse2 |-> {"sse2"}]

\* The tiers each entry of the table has a backend for.
Offered == [skip_equal       |-> Tiers,
            skip_while_digit |-> {"avx512", "avx2", "sse2"},
            is_ascii         |-> {"avx512", "avx2", "sse41", "sse2"}]

Rank == [avx512 |-> 4, avx2 |-> 3, sse42 |-> 2, sse41 |-> 1, sse2 |-> 0]

Detected(tier, features) == Detects[tier] \subseteq features

\* An entry that takes a tier the cpuid tokens did not report.
BestUnchecked(e, features) ==
  CHOOSE tier \in Offered[e] : \A u \in Offered[e] : Rank[u] <= Rank[tier]

Best(e, features) ==
  CHOOSE tier \in Offered[e] :
    /\ Detected(tier, features)
    /\ \A u \in Offered[e] : Detected(u, features) => Rank[u] <= Rank[tier]

Table(features) == [e \in Entries |-> Best(e, features)]

(***************************************************************************)
(* The memory.  A message is a value of the atomic and whether an Acquire   *)
(* load of it synchronises with the write of the cell.                      *)
(***************************************************************************)
Message == [val : {"UNINIT", "LOCKED", "DONE"}, rel : BOOLEAN]

Last == mo[Len(mo)]

Published == Last.val = "DONE"

Readable(t) == view[t] .. Len(mo)

\* A load that does not synchronise: Ordering::Relaxed.
RelaxedLoad(t, i) ==
  /\ view' = [view EXCEPT ![t] = i]
  /\ UNCHANGED sees

AcquireLoad(t, i) ==
  /\ view' = [view EXCEPT ![t] = i]
  /\ sees' = [sees EXCEPT ![t] = @ \/ mo[i].rel]

\* A store that does not publish: Ordering::Relaxed.
RelaxedFlag(t) == FALSE

\* Ordering::Release publishes whatever happens before the store.
ReleaseFlag(t) == sees[t]

Goto(t, place) == pc' = [pc EXCEPT ![t] = place]

(***************************************************************************)
(* get_dispatch: one Acquire load, and the table at once if it is DONE.     *)
(***************************************************************************)
Init ==
  /\ cpu \in CpuSets
  /\ mo = <<[val |-> "UNINIT", rel |-> FALSE]>>
  /\ cell = None
  /\ pc = [t \in Threads |-> "idle"]
  /\ view = [t \in Threads |-> 1]
  /\ sees = [t \in Threads |-> FALSE]
  /\ got = [t \in Threads |-> None]

Call(t) ==
  /\ pc[t] = "idle"
  /\ Goto(t, "load")
  /\ UNCHANGED <<cpu, mo, cell, view, sees, got>>

\* The fast path left out: every call takes the cold one.
FastLoadAlwaysCold(t) ==
  /\ pc[t] = "load"
  /\ \E i \in Readable(t) : AcquireLoad(t, i)
  /\ Goto(t, "cas")
  /\ UNCHANGED <<cpu, mo, cell, got>>

FastLoad(t) ==
  /\ pc[t] = "load"
  /\ \E i \in Readable(t) :
       /\ AcquireLoad(t, i)
       /\ Goto(t, IF mo[i].val = "DONE" THEN "return" ELSE "cas")
  /\ UNCHANGED <<cpu, mo, cell, got>>

(***************************************************************************)
(* init_dispatch_lock.  A successful compare_exchange reads the newest      *)
(* message and appends to it; it extends that message's release sequence    *)
(* and, being Acquire only, publishes nothing of its own.  One that fails   *)
(* may read any message in view that is not UNINIT: the exchange is strong. *)
(***************************************************************************)

\* A load of the state and then a store to it, not one exchange.
CasWinNotAtomic(t) ==
  /\ pc[t] = "cas"
  /\ Last.val # "DONE" /\ mo[view[t]].val = "UNINIT"
  /\ mo' = Append(mo, [val |-> "LOCKED", rel |-> FALSE])
  /\ view' = [view EXCEPT ![t] = Len(mo) + 1]
  /\ Goto(t, "write")
  /\ UNCHANGED <<cpu, cell, sees, got>>

\* The state published before the cell is written.
CasWinSkipsWrite(t) ==
  /\ pc[t] = "cas"
  /\ Last.val = "UNINIT"
  /\ mo' = Append(mo, [val |-> "DONE", rel |-> FALSE])
  /\ view' = [view EXCEPT ![t] = Len(mo) + 1]
  /\ Goto(t, "write")
  /\ UNCHANGED <<cpu, cell, sees, got>>

CasWin(t) ==
  /\ pc[t] = "cas"
  /\ Last.val = "UNINIT"
  /\ mo' = Append(mo, [val |-> "LOCKED", rel |-> Last.rel])
  /\ view' = [view EXCEPT ![t] = Len(mo) + 1]
  /\ sees' = [sees EXCEPT ![t] = @ \/ Last.rel]
  /\ Goto(t, "write")
  /\ UNCHANGED <<cpu, cell, got>>

\* compare_exchange_weak: it may fail although it read UNINIT.
CasLoseWeak(t) ==
  /\ pc[t] = "cas"
  /\ \E i \in Readable(t) : AcquireLoad(t, i)
  /\ Goto(t, "spin")
  /\ UNCHANGED <<cpu, mo, cell, got>>

CasLose(t) ==
  /\ pc[t] = "cas"
  /\ \E i \in Readable(t) :
       /\ mo[i].val # "UNINIT"
       /\ AcquireLoad(t, i)
  /\ Goto(t, "spin")
  /\ UNCHANGED <<cpu, mo, cell, got>>

WriteTable(t) ==
  /\ pc[t] = "write"
  /\ cell' = Table(cpu)
  /\ sees' = [sees EXCEPT ![t] = TRUE]
  /\ Goto(t, "store")
  /\ UNCHANGED <<cpu, mo, view, got>>

\* The initialiser returns and leaves the state LOCKED.
StoreForgotten(t) ==
  /\ pc[t] = "store"
  /\ Goto(t, "return")
  /\ UNCHANGED <<cpu, mo, cell, view, sees, got>>

StoreDone(t) ==
  /\ pc[t] = "store"
  /\ mo' = Append(mo, [val |-> "DONE", rel |-> ReleaseFlag(t)])
  /\ view' = [view EXCEPT ![t] = Len(mo) + 1]
  /\ Goto(t, "return")
  /\ UNCHANGED <<cpu, cell, sees, got>>

\* One turn of the spin loop that loads something older than DONE.
SpinAgain(t) ==
  /\ pc[t] = "spin"
  /\ \E i \in Readable(t) : mo[i].val # "DONE" /\ AcquireLoad(t, i)
  /\ UNCHANGED <<cpu, mo, cell, pc, got>>

\* The turn that loads DONE.
SpinDone(t) ==
  /\ pc[t] = "spin"
  /\ \E i \in Readable(t) : mo[i].val = "DONE" /\ AcquireLoad(t, i)
  /\ Goto(t, "return")
  /\ UNCHANGED <<cpu, mo, cell, got>>

Spin(t) == SpinAgain(t) \/ SpinDone(t)

\* assume_init_ref, on the fast path and at the end of the cold one.
Return(t) ==
  /\ pc[t] = "return"
  /\ got' = [got EXCEPT ![t] = IF sees[t] THEN cell ELSE Poison]
  /\ Goto(t, "idle")
  /\ UNCHANGED <<cpu, mo, cell, view, sees>>

Step(t) ==
  \/ FastLoad(t) \/ CasWin(t) \/ CasLose(t) \/ WriteTable(t)
  \/ StoreDone(t) \/ Spin(t) \/ Return(t)

Next == \E t \in Threads : Call(t) \/ Step(t)

(***************************************************************************)
(* A thread inside a call is scheduled again and again, and a store reaches *)
(* every thread in the end, so a spinning thread loads DONE if it is there  *)
(* for good.  No thread is obliged to call.                                 *)
(***************************************************************************)
Fairness ==
  \A t \in Threads : WF_vars(Step(t)) /\ WF_vars(SpinDone(t))

SafeSpec == Init /\ [][Next]_vars

Spec == SafeSpec /\ Fairness

(***************************************************************************)
(* Properties.                                                              *)
(***************************************************************************)

\* The range of every variable.  The atomic is stored to at most twice: the state
\* machine of lines 30-32 goes through its three values once.
TypeOK ==
  /\ cpu \in CpuSets
  /\ mo \in Seq(Message) /\ Len(mo) \in 1 .. 3
  /\ cell \in AllTables \union {None}
  /\ pc \in [Threads -> Places]
  /\ view \in [Threads -> 1 .. Len(mo)]
  /\ sees \in [Threads -> BOOLEAN]
  /\ got \in [Threads -> AllTables \union {None, Poison}]

Owner(t) == pc[t] \in {"write", "store"}

\* The SAFETY comment of DispatchCell: whoever is about to read the cell has
\* the completed write of it in its past, on the fast path, on the cold one and
\* as the initialiser, whatever stale values its loads returned on the way.
NoRacyRead ==
  \A t \in Threads : pc[t] = "return" => sees[t] /\ cell # None

\* "Only one writer (LOCKED)": no two threads are ever between the exchange and
\* the store, and none is once DONE has been stored.
SingleInitialiser ==
  \A t \in Threads : Owner(t) =>
    ~ Published /\ \A u \in Threads \ {t} : ~ Owner(u)

\* Waiting is never in vain: while a thread spins, either DONE is stored or some
\* thread is on its way to storing it.  (A compare_exchange that may fail
\* spuriously would break it: all threads could wait for nobody.)
SpinHasOwner ==
  \A t \in Threads : pc[t] = "spin" =>
    Published \/ \E u \in Threads : Owner(u)

\* lib.rs promises that only features the CPU supports are used: every
\* backend in a table a thread holds may be run on this processor.
OnlySupportedCalled ==
  \A t \in Threads : got[t] # None =>
    /\ got[t] \in AllTables
    /\ \A e \in Entries : Requires[got[t][e]] \subseteq cpu

\* get_dispatch hands out a &'static Dispatch: once any thread may read through
\* it, no step of any thread writes the cell, not even the same table again.
HandedOutImmutable ==
  [][(\E t \in Threads : got[t] # None \/ pc[t] = "return")
       => ~ \E t \in Threads : WriteTable(t)]_vars

\* The cold path is taken at most once per thread: a thread that has a table
\* never again gets past the fast path's load, nor spins.
FastAfterFirst ==
  \A t \in Threads : got[t] # None => pc[t] \in {"idle", "load", "return"}

\* Every call of get_dispatch returns, whoever initialises and however often
\* the waiting threads load a stale state.
CallsReturn == \A t \in Threads : (pc[t] # "idle") ~> (pc[t] = "idle")

(***************************************************************************)
(* The table is the once-only value of OnceTable, decided by the store of   *)
(* DONE.                                                                    *)
(***************************************************************************)
Once == INSTANCE OnceTable WITH
  Values  <- AllTables,
  NoValue <- None,
  value   <- IF Published THEN cell ELSE None,
  calling <- {t \in Threads : pc[t] # "idle"},
  got     <- got

\* Seen from its callers the state machine is a once-only decision: every step
\* is Call, Decide or Return of OnceTable, or changes nothing they can see, and
\* the progress it promises is kept.
RefinesOnce == Once!Spec
==============================================================================
