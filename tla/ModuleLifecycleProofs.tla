------------------------ MODULE ModuleLifecycleProofs ------------------------
(***************************************************************************)
(* For any number of users, of major numbers and of blocks, and for every  *)
(* capacity: what the scripts and the module's reference count give to     *)
(* whoever has the device open, and who owns the driver's memory.          *)
(***************************************************************************)
EXTENDS ModuleLifecycle, FiniteSetTheorems, TLAPS

-----------------------------------------------------------------------------
(***************************************************************************)
(* Where the module is when the script is at a command or inside one.      *)
(***************************************************************************)
Coming == {"alloc_region", "setup_cdev", "setup_buffer"}
Going  == {"free_entries", "free_working", "cdev_del", "unregister"}
AtLoad == {"rm", "mknod", "loaded"}

ModuleStates == {"gone", "coming", "live", "going"}

ScriptOK ==
  /\ state = "coming" <=> script \in Coming
  /\ state = "going" <=> script \in Going
  /\ script \in AtLoad => state = "live"
  /\ script = "rm_stale" => state = "gone"

\* What the kernel has of the module.
KernelOK ==
  /\ state = "gone" \/ script = "alloc_region" => region = NULL
  /\ state = "gone" \/ script \in {"alloc_region", "setup_cdev", "unregister"} => ~cdev
  /\ state = "live" \/ script = "setup_buffer" => cdev
  /\ opened # {} => cdev /\ state \in {"coming", "live"}

\* Only an interrupted script leaves a node without a module.
NodeOK ==
  /\ ~stale /\ state \in {"gone", "coming"} => node = NULL \/ script = "rm_stale"
  /\ opened # {} /\ state = "coming" => stale
  /\ script = "loaded" => node = region

ControlTypes ==
  /\ state \in ModuleStates /\ script \in Commands \cup Inside
  /\ cdev \in BOOLEAN /\ stale \in BOOLEAN /\ exposed \in BOOLEAN /\ opened \subseteq Users
  /\ region \in Majors \cup {NULL} /\ node \in Majors \cup {NULL}

Control == ControlTypes /\ ScriptOK /\ KernelOK /\ NodeOK

LEMMA ControlInit == Init => Control
  BY DEF Init, Control, ControlTypes, ModuleStates, Commands, Inside, ScriptOK, KernelOK, NodeOK,
         Coming, Going, AtLoad

LEMMA ControlLoading ==
  ASSUME Control,
         Insmod \/ AllocRegion \/ aesd_setup_cdev \/ SetupBuffer \/ Rm \/ Mknod
  PROVE  Control'
<1> USE DEF Control, ControlTypes, ModuleStates, Commands, Inside, ScriptOK, KernelOK,
            NodeOK, Coming, Going, AtLoad
<1>1. CASE Insmod
  BY <1>1 DEF Insmod, memory
<1>2. CASE AllocRegion
  BY <1>2 DEF AllocRegion, Fails
<1>3. CASE aesd_setup_cdev
  <2>1. CASE state' = "gone"
    BY <1>3, <2>1 DEF aesd_setup_cdev, Fails, RegionAfterError
  <2>2. CASE script' = "setup_buffer" /\ cdev' = TRUE
    BY <1>3, <2>2 DEF aesd_setup_cdev
  <2> QED
    BY <1>3, <2>1, <2>2 DEF aesd_setup_cdev, Fails
<1>4. CASE SetupBuffer
  BY <1>4 DEF SetupBuffer, Goes
<1>5. CASE Rm
  BY <1>5 DEF Rm, Goes, kernel
<1>6. CASE Mknod
  BY <1>6 DEF Mknod, Goes, kernel, major
<1> QED
  BY <1>1, <1>2, <1>3, <1>4, <1>5, <1>6

LEMMA ControlUnloading ==
  ASSUME Control,
         Rmmod \/ FreeEntries \/ FreeWorking \/ CdevDel \/ Unregister \/ RmStale
  PROVE  Control'
<1> USE DEF Control, ControlTypes, ModuleStates, Commands, Inside, ScriptOK, KernelOK,
            NodeOK, Coming, Going, AtLoad
<1>1. CASE Rmmod
  BY <1>1 DEF Rmmod, Owned
<1>2. CASE FreeEntries
  BY <1>2 DEF FreeEntries, Goes, kernel
<1>3. CASE FreeWorking
  BY <1>3 DEF FreeWorking, Goes, kernel
<1>4. CASE CdevDel
  BY <1>4 DEF CdevDel, Goes
<1>5. CASE Unregister
  BY <1>5 DEF Unregister, Goes
<1>6. CASE RmStale
  BY <1>6 DEF RmStale, Goes, kernel
<1> QED
  BY <1>1, <1>2, <1>3, <1>4, <1>5, <1>6

LEMMA ControlAdministrator ==
  ASSUME Control, RunScript \/ Interrupted
  PROVE  Control'
<1> USE DEF Control, ControlTypes, ModuleStates, Commands, Inside, ScriptOK, KernelOK,
            NodeOK, Coming, Going, AtLoad
<1>1. CASE RunScript
  BY <1>1 DEF RunScript, Goes, kernel
<1>2. CASE Interrupted
  BY <1>2 DEF Interrupted, kernel
<1> QED
  BY <1>1, <1>2

LEMMA ControlUsers ==
  ASSUME Control, NEW u \in Users, Open(u) \/ Close(u) \/ Write(u)
  PROVE  Control'
<1> USE DEF Control, ControlTypes, ModuleStates, Commands, Inside, ScriptOK, KernelOK,
            NodeOK, Coming, Going, AtLoad
<1>1. CASE Open(u)
  BY <1>1, LifecycleAssumption DEF Open, Owned, kernel
<1>2. CASE Close(u)
  BY <1>2 DEF Close, kernel
<1>3. CASE Write(u)
  BY <1>3 DEF Write, kernel
<1> QED
  BY <1>1, <1>2, <1>3

LEMMA ControlStutters ==
  ASSUME Control, UNCHANGED vars
  PROVE  Control'
  BY DEF Control, ControlTypes, ScriptOK, KernelOK, NodeOK, vars, kernel

LEMMA ControlStep == Control /\ [Next]_vars => Control'
  BY ControlLoading, ControlUnloading, ControlAdministrator, ControlUsers,
     ControlStutters DEF Next

LEMMA ControlInvariance == Spec => []Control
  BY ControlStep, ControlInit, PTL DEF Spec

(***************************************************************************)
(* Whoever has the device open meets a live module, although cdev_add      *)
(* comes before mutex_init (main.c:384-401) and the entries are freed      *)
(* before cdev_del, as long as no script has been interrupted.             *)
(***************************************************************************)
THEOREM OpenOnlyWhenReady == Spec => []OpenMeansReady
<1>1. Control => OpenMeansReady
  BY DEF Control, OpenMeansReady, KernelOK, NodeOK
<1> QED
  BY <1>1, ControlInvariance, PTL

(***************************************************************************)
(* A load that succeeds ends with a node of the device's own number,       *)
(* whatever the scripts before it have left (aesdchar_load:26-29).         *)
(***************************************************************************)
THEOREM LoadGivesDevice == Spec => []LoadedMeansUsable
<1>1. Control => LoadedMeansUsable
  BY DEF Control, LoadedMeansUsable, ScriptOK, KernelOK, NodeOK, AtLoad
<1> QED
  BY <1>1, ControlInvariance, PTL

-----------------------------------------------------------------------------
(***************************************************************************)
(* The memory.  What d leads to is what is allocated and has not been lost *)
(* before, and no block is led to twice.                                   *)
(***************************************************************************)
Devices == [entries : Seq(Blocks), working : Blocks \cup {NULL, ZeroSize},
            buffer : Blocks \cup {NULL}]

Pointers(d) == (ToSet(d.entries) \cup {d.working, d.buffer}) \ {NULL, ZeroSize}

Distinct(d) ==
  /\ \A i, j \in 1 .. Len(d.entries) : d.entries[i] = d.entries[j] => i = j
  /\ d.working \notin ToSet(d.entries) /\ d.buffer \notin ToSet(d.entries)
  /\ d.working = d.buffer => d.working \notin Blocks

Owns(d, h, l) ==
  /\ d \in Devices /\ h \subseteq Blocks /\ l \subseteq h
  /\ h \ l = Pointers(d) /\ Distinct(d)

\* The buffer is never overfull; while the module comes and goes, some pointers
\* are not set.
PhaseOK ==
  /\ Len(dev.entries) <= Capacity
  /\ state = "gone" \/ script \in {"alloc_region", "setup_cdev"} => dev = Zeroed
  /\ script \in {"free_working", "cdev_del", "unregister"} => dev.entries = << >>
  /\ script \in {"cdev_del", "unregister"} => dev.working = NULL

Memory == Owns(dev, heap, lost) /\ PhaseOK

LEMMA HeldIsPointers == Held = Pointers(dev)
  BY DEF Held, Pointers

LEMMA ToSetIsImage ==
  ASSUME NEW s \in Seq(Blocks)
  PROVE  ToSet(s) = {s[i] : i \in 1 .. Len(s)} /\ ToSet(s) \subseteq Blocks
  BY DEF ToSet

LEMMA EmptyOwnsNothing ==
  ASSUME NEW h, NEW l, h \subseteq Blocks, l = h
  PROVE  Owns(Zeroed, h, l)
<1>1. << >> \in Seq(Blocks) /\ Len(<< >>) = 0
  OBVIOUS
<1>2. Zeroed \in Devices /\ Zeroed.entries = << >>
  BY <1>1 DEF Zeroed, Devices
<1>3. ToSet(Zeroed.entries) = {}
  BY <1>2 DEF ToSet
<1> QED
  BY <1>1, <1>2, <1>3, LifecycleAssumption DEF Owns, Pointers, Distinct, Zeroed

\* krealloc: working_entry comes to lead to block b, and the one it had is freed.
LEMMA WorkingMoves ==
  ASSUME NEW d, NEW h, NEW l, Owns(d, h, l), NEW b \in (Blocks \ h) \cup ({d.working} \cap Blocks)
  PROVE  Owns([d EXCEPT !.working = b], (h \ {d.working}) \cup {b}, l)
<1> DEFINE e == [d EXCEPT !.working = b]
<1>1. e \in Devices /\ e.working = b /\ e.entries = d.entries /\ e.buffer = d.buffer
  BY DEF Owns, Devices
<1>2. b \in Blocks /\ b # NULL /\ b # ZeroSize
  BY LifecycleAssumption
<1>3. ToSet(d.entries) \subseteq Blocks
  BY ToSetIsImage DEF Owns, Devices
<1>4. ToSet(d.entries) \cup ({d.buffer} \cap Blocks) \subseteq h
  BY <1>3, LifecycleAssumption DEF Owns, Pointers
<1>5. Distinct(e)
  BY <1>1, <1>2, <1>4 DEF Owns, Distinct
<1>6. d.working \notin l /\ b \notin l
  BY LifecycleAssumption DEF Owns, Pointers
<1>7. ((h \ {d.working}) \cup {b}) \ l = Pointers(e)
  <2>1. d.working \notin ToSet(d.entries) /\ (d.working = d.buffer => d.working \notin Blocks)
    BY DEF Owns, Distinct
  <2> QED
    BY <1>1, <1>2, <1>3, <1>6, <2>1, LifecycleAssumption DEF Owns, Pointers, Devices
<1> QED
  BY <1>1, <1>2, <1>5, <1>6, <1>7 DEF Owns

\* kfree(working_entry), and the pointer with it.
LEMMA WorkingGoes ==
  ASSUME NEW d, NEW h, NEW l, Owns(d, h, l), NEW n \in {NULL, ZeroSize}
  PROVE  Owns([d EXCEPT !.working = n], h \ {d.working}, l)
<1> DEFINE e == [d EXCEPT !.working = n]
<1>1. e \in Devices /\ e.working = n /\ e.entries = d.entries /\ e.buffer = d.buffer
  BY DEF Owns, Devices
<1>2. n \notin Blocks /\ ToSet(d.entries) \subseteq Blocks
  BY ToSetIsImage, LifecycleAssumption DEF Owns, Devices
<1>3. Distinct(e)
  BY <1>1, <1>2, LifecycleAssumption DEF Owns, Distinct
<1>4. d.working \notin l
  BY LifecycleAssumption DEF Owns, Pointers
<1>5. (h \ {d.working}) \ l = Pointers(e)
  BY <1>1, <1>2, LifecycleAssumption DEF Owns, Pointers, Devices, Distinct
<1> QED
  BY <1>1, <1>3, <1>4, <1>5 DEF Owns

\* A failing krealloc: the pointer goes, its block stays.
LEMMA WorkingIsLost ==
  ASSUME NEW d, NEW h, NEW l, Owns(d, h, l)
  PROVE  Owns([d EXCEPT !.working = NULL], h, l \cup (Pointers(d) \cap {d.working}))
<1> DEFINE e == [d EXCEPT !.working = NULL]
<1>1. e \in Devices /\ e.working = NULL /\ e.entries = d.entries /\ e.buffer = d.buffer
  BY DEF Owns, Devices
<1>2. NULL \notin Blocks /\ ToSet(d.entries) \subseteq Blocks
  BY ToSetIsImage, LifecycleAssumption DEF Owns, Devices
<1>3. Distinct(e)
  BY <1>1, <1>2 DEF Owns, Distinct
<1>4. h \ (l \cup (Pointers(d) \cap {d.working})) = Pointers(e)
  BY <1>1, <1>2, LifecycleAssumption DEF Owns, Pointers, Devices, Distinct
<1> QED
  BY <1>1, <1>3, <1>4 DEF Owns

\* kfree of every entry.
LEMMA EntriesGo ==
  ASSUME NEW d, NEW h, NEW l, Owns(d, h, l)
  PROVE  Owns([d EXCEPT !.entries = << >>], h \ ToSet(d.entries), l)
<1> DEFINE e == [d EXCEPT !.entries = << >>]
<1>1. << >> \in Seq(Blocks) /\ Len(<< >>) = 0
  OBVIOUS
<1>2. e \in Devices /\ e.entries = << >> /\ e.working = d.working /\ e.buffer = d.buffer
  BY <1>1 DEF Owns, Devices
<1>3. ToSet(e.entries) = {} /\ ToSet(d.entries) \subseteq Blocks
  BY <1>1, <1>2, ToSetIsImage DEF Owns, Devices
<1>4. Distinct(e)
  BY <1>1, <1>2, <1>3 DEF Owns, Distinct
<1>5. ToSet(d.entries) \cap l = {}
  BY <1>3, LifecycleAssumption DEF Owns, Pointers
<1>6. (h \ ToSet(d.entries)) \ l = Pointers(e)
  BY <1>2, <1>3, LifecycleAssumption DEF Owns, Pointers, Distinct
<1> QED
  BY <1>2, <1>4, <1>5, <1>6 DEF Owns

\* A new entry with a block c of its own.
LEMMA EntryComes ==
  ASSUME NEW d, NEW h, NEW l, Owns(d, h, l), NEW c \in Blocks \ h
  PROVE  Owns([d EXCEPT !.entries = Append(d.entries, c)], h \cup {c}, l)
<1> DEFINE s == d.entries
           t == Append(s, c)
           e == [d EXCEPT !.entries = t]
<1>1. s \in Seq(Blocks) /\ Len(s) \in Nat /\ t \in Seq(Blocks) /\ Len(t) = Len(s) + 1
  BY DEF Owns, Devices
<1>2. t[Len(s) + 1] = c /\ \A i \in 1 .. Len(s) : t[i] = s[i]
  BY <1>1
<1>3. e \in Devices /\ e.entries = t /\ e.working = d.working /\ e.buffer = d.buffer
  BY <1>1 DEF Owns, Devices
<1> HIDE DEF s, t, e
<1>4. ToSet(t) = ToSet(s) \cup {c}
  BY <1>1, <1>2, ToSetIsImage
<1>5. ToSet(s) \cup ({d.working, d.buffer} \cap Blocks) \subseteq h
  BY <1>1, ToSetIsImage, LifecycleAssumption DEF Owns, Pointers, s
<1>6. c \notin ToSet(s) /\ c # d.working /\ c # d.buffer
  BY <1>5
<1>7. Distinct(e)
  <2>1. \A i, j \in 1 .. Len(t) : t[i] = t[j] => i = j
    <3>1. \A i \in 1 .. Len(s) : s[i] # c
      BY <1>1, <1>6, ToSetIsImage
    <3>2. \A i, j \in 1 .. Len(s) : s[i] = s[j] => i = j
      BY DEF Owns, Distinct, s
    <3> QED
      BY <1>1, <1>2, <3>1, <3>2
  <2> QED
    BY <1>3, <1>4, <1>6, <2>1 DEF Owns, Distinct, s
<1>8. (h \cup {c}) \ l = Pointers(e)
  BY <1>3, <1>4, LifecycleAssumption DEF Owns, Pointers, s
<1> QED
  BY <1>3, <1>7, <1>8 DEF Owns, e, t, s

\* The oldest entry is overwritten.
LEMMA OldestIsLost ==
  ASSUME NEW d, NEW h, NEW l, Owns(d, h, l), Len(d.entries) > 0
  PROVE  Owns([d EXCEPT !.entries = Tail(d.entries)], h, l \cup {Head(d.entries)})
<1> DEFINE s == d.entries
           t == Tail(s)
           e == [d EXCEPT !.entries = t]
<1>1. s \in Seq(Blocks) /\ Len(s) \in Nat \ {0} /\ t \in Seq(Blocks) /\ Len(t) = Len(s) - 1
  BY DEF Owns, Devices
<1>2. Head(s) = s[1] /\ \A i \in 1 .. Len(t) : t[i] = s[i + 1]
  BY <1>1
<1>3. e \in Devices /\ e.entries = t /\ e.working = d.working /\ e.buffer = d.buffer
  BY <1>1 DEF Owns, Devices
<1>4. \A i, j \in 1 .. Len(s) : s[i] = s[j] => i = j
  BY DEF Owns, Distinct
<1> HIDE DEF s, t, e
<1>5. ToSet(t) = ToSet(s) \ {s[1]}
  <2>1. \A i \in 1 .. Len(s) : i = 1 \/ (i - 1 \in 1 .. Len(t) /\ s[i] = t[i - 1])
    BY <1>1, <1>2
  <2>2. \A i \in 1 .. Len(t) : i + 1 \in 1 .. Len(s) /\ i + 1 # 1 /\ 1 \in 1 .. Len(s)
    BY <1>1
  <2>3. \A i \in 1 .. Len(t) : t[i] # s[1]
    BY <1>2, <1>4, <2>2
  <2>4. \A x \in ToSet(t) : x \in ToSet(s) /\ x # s[1]
    BY <1>1, <1>2, <2>2, <2>3, ToSetIsImage
  <2>5. \A x \in ToSet(s) : x # s[1] => x \in ToSet(t)
    BY <1>1, <2>1, ToSetIsImage
  <2> QED
    BY <2>4, <2>5
<1>6. Distinct(e)
  <2>1. \A i, j \in 1 .. Len(t) : t[i] = t[j] => i = j
    BY <1>1, <1>2, <1>4
  <2> QED
    BY <1>3, <1>5, <2>1 DEF Owns, Distinct, s
<1>7. s[1] \in ToSet(s) /\ s[1] \in Blocks
  BY <1>1, ToSetIsImage
<1>8. s[1] \in Pointers(d)
  BY <1>7, LifecycleAssumption DEF Pointers, s
<1>9. h \ (l \cup {s[1]}) = Pointers(e)
  BY <1>3, <1>5, <1>7, <1>8, LifecycleAssumption DEF Owns, Pointers, Distinct, s
<1> QED
  BY <1>2, <1>3, <1>6, <1>8, <1>9 DEF Owns, e, t, s

-----------------------------------------------------------------------------
LEMMA MemoryInit == Init => Memory
  BY EmptyOwnsNothing, LifecycleAssumption DEF Init, Memory, PhaseOK, Zeroed

LEMMA MemoryLoading ==
  ASSUME Memory, Control, Insmod \/ AllocRegion \/ aesd_setup_cdev \/ Rm \/ Mknod
  PROVE  Memory'
<1> USE DEF Memory, PhaseOK
<1>1. CASE Insmod
  BY <1>1 DEF Insmod, memory, Owns, Distinct, Pointers
<1>2. CASE AllocRegion
  <2>1. dev = Zeroed
    BY <1>2 DEF AllocRegion, Control, ScriptOK, Coming
  <2> QED
    BY <1>2, <2>1 DEF AllocRegion, Fails, Owns, Distinct, Pointers
<1>3. CASE aesd_setup_cdev
  BY <1>3 DEF aesd_setup_cdev, Fails, memory, Owns, Distinct, Pointers
<1>4. CASE Rm
  BY <1>4 DEF Rm, Goes, kernel, memory, Owns, Distinct, Pointers
<1>5. CASE Mknod
  BY <1>5 DEF Mknod, Goes, kernel, memory, Owns, Distinct, Pointers
<1> QED
  BY <1>1, <1>2, <1>3, <1>4, <1>5

LEMMA MemorySetup ==
  ASSUME Memory, SetupBuffer
  PROVE  Memory'
<1>1. PICK b \in (Blocks \ heap) \cup {NULL} :
        dev' = [Zeroed EXCEPT !.buffer = b] /\ heap' = heap \cup ({b} \ {NULL})
  BY DEF SetupBuffer
<1>2. /\ dev' \in Devices /\ dev'.entries = << >> /\ dev'.working = NULL
      /\ dev'.buffer = b
  <2>1. dev' = [entries |-> << >>, working |-> NULL, buffer |-> b]
    BY <1>1 DEF Zeroed
  <2>2. << >> \in Seq(Blocks) /\ b \in Blocks \cup {NULL}
    BY <1>1
  <2> QED
    BY <2>1, <2>2 DEF Devices
<1>3. Pointers(dev) = heap \ lost /\ heap \subseteq Blocks /\ lost \subseteq heap
  BY DEF Memory, Owns
<1>4. lost' = heap
  BY <1>3, HeldIsPointers DEF SetupBuffer
<1>5. ToSet(dev'.entries) = {} /\ Len(dev'.entries) = 0
  BY <1>2 DEF ToSet
<1>6. Distinct(dev')
  BY <1>2, <1>5, LifecycleAssumption DEF Distinct
<1>7. Owns(dev', heap', lost')
  BY <1>1, <1>2, <1>3, <1>4, <1>5, <1>6, LifecycleAssumption DEF Owns, Pointers
<1> QED
  BY <1>2, <1>5, <1>7, LifecycleAssumption DEF Memory, PhaseOK, SetupBuffer, Goes

LEMMA MemoryUnloading ==
  ASSUME Memory, Control, Rmmod \/ FreeEntries \/ FreeWorking \/ CdevDel \/ RmStale
  PROVE  Memory'
<1> USE DEF Memory, PhaseOK
<1>1. CASE Rmmod
  BY <1>1 DEF Rmmod, memory, Owns, Distinct, Pointers
<1>2. CASE FreeEntries
  <2>1. state = "going" /\ state' = "going" /\ dev \in Devices
    BY <1>2 DEF FreeEntries, Goes, Control, ScriptOK, Going, kernel, Owns
  <2>2. Owns(dev', heap', lost')
    BY <1>2, EntriesGo DEF FreeEntries
  <2>3. dev'.entries = << >> /\ Len(<< >>) = 0
    BY <1>2, <2>1 DEF FreeEntries, Devices
  <2> QED
    BY <1>2, <2>1, <2>2, <2>3, LifecycleAssumption DEF FreeEntries, Goes
<1>3. CASE FreeWorking
  <2>1. state = "going" /\ state' = "going" /\ dev \in Devices
    BY <1>3 DEF FreeWorking, Goes, Control, ScriptOK, Going, kernel, Owns
  <2>2. Owns(dev', heap', lost')
    BY <1>3, WorkingGoes DEF FreeWorking
  <2>3. dev'.entries = dev.entries /\ dev'.working = NULL
    BY <1>3, <2>1 DEF FreeWorking, Devices
  <2> QED
    BY <1>3, <2>1, <2>2, <2>3 DEF FreeWorking, Goes
<1>4. CASE CdevDel
  BY <1>4 DEF CdevDel, Goes, memory, Owns, Distinct, Pointers
<1>5. CASE RmStale
  BY <1>5 DEF RmStale, Goes, kernel, memory, Owns, Distinct, Pointers, Control, ScriptOK
<1> QED
  BY <1>1, <1>2, <1>3, <1>4, <1>5

\* All that is still allocated when the module is gone has been lost.
LEMMA MemoryUnregister ==
  ASSUME Memory, Unregister
  PROVE  Memory'
<1>1. /\ dev.entries = << >> /\ dev.working = NULL /\ dev' = Zeroed /\ heap' = heap
      /\ lost' = lost \cup ({dev.buffer} \ {NULL})
  BY DEF Unregister, Goes, Memory, PhaseOK
<1>2. ToSet(dev.entries) = {}
  BY <1>1 DEF ToSet
<1>3. lost' = heap'
  BY <1>1, <1>2, LifecycleAssumption DEF Memory, Owns, Pointers, Devices
<1>4. Owns(dev', heap', lost')
  BY <1>1, <1>3, EmptyOwnsNothing DEF Memory, Owns
<1> QED
  BY <1>1, <1>4, LifecycleAssumption DEF Memory, PhaseOK, Unregister, Goes, Zeroed

LEMMA MemoryStays ==
  ASSUME Memory, UNCHANGED <<state, memory>>,
         script' = script \/ script' \in Commands
  PROVE  Memory'
  BY DEF Memory, PhaseOK, memory, Owns, Distinct, Pointers, Commands

\* Two devices with the same pointers are the same.
LEMMA SameDevice ==
  ASSUME NEW d \in Devices, NEW e \in Devices,
         d.entries = e.entries, d.working = e.working, d.buffer = e.buffer
  PROVE  d = e
  BY DEF Devices

\* A write that completes a command: krealloc to b, an entry with c, and the
\* rest in b or nowhere.
LEMMA WriteCompletes ==
  ASSUME Memory,
         NEW b \in (Blocks \ heap) \cup (Held \cap {dev.working}),
         NEW c \in EntryBuf(b), NEW rest \in {b, ZeroSize},
         dev' = [dev EXCEPT !.entries = WithEntry(c), !.working = rest],
         heap' = (Grown(b) \cup {c}) \ (IF rest = b THEN {} ELSE {b}),
         lost' = lost \cup Overwritten
  PROVE  Owns(dev', heap', lost') /\ Len(dev'.entries) <= Capacity
<1> DEFINE s  == dev.entries
           t  == Append(s, c)
           d1 == [dev EXCEPT !.working = b]
           d2 == [d1 EXCEPT !.entries = Append(d1.entries, c)]
           d3 == IF Len(t) > Capacity THEN [d2 EXCEPT !.entries = Tail(d2.entries)] ELSE d2
           l3 == lost \cup (IF Len(t) > Capacity THEN {Head(d2.entries)} ELSE {})
           h3 == Grown(b) \cup {c}
<1>1. Owns(dev, heap, lost) /\ dev \in Devices /\ Len(s) <= Capacity
  BY DEF Memory, PhaseOK, Owns
<1>2. b \in Blocks /\ b \in (Blocks \ heap) \cup ({dev.working} \cap Blocks)
  BY <1>1, HeldIsPointers DEF Owns, Pointers
<1>3. Owns(d1, Grown(b), lost)
  BY <1>1, <1>2, WorkingMoves DEF Grown
<1>4. d1 \in Devices /\ d1.entries = s /\ d1.working = b /\ d1.buffer = dev.buffer
  BY <1>1, <1>2 DEF Devices
<1>5. Owns(d2, h3, lost)
  BY <1>3, EntryComes DEF EntryBuf
<1>6. d2 \in Devices /\ d2.entries = t /\ d2.working = b /\ d2.buffer = dev.buffer
  BY <1>4, <1>5 DEF Owns, Devices
<1>7. /\ s \in Seq(Blocks) /\ Len(s) \in Nat /\ Len(t) = Len(s) + 1 /\ t \in Seq(Blocks)
      /\ Len(s) > 0 => Head(t) = Head(s)
  BY <1>1, <1>2 DEF Devices, EntryBuf
<1>8. Owns(d3, h3, l3)
  <2>1. CASE Len(t) > Capacity
    <3>1. Len(d2.entries) > 0
      BY <1>6, <1>7
    <3>2. Owns([d2 EXCEPT !.entries = Tail(d2.entries)], h3, lost \cup {Head(d2.entries)})
      <4> HIDE DEF d2, h3
      <4> QED
        BY <1>5, <3>1, OldestIsLost
    <3> QED
      BY <2>1, <3>2
  <2>2. CASE ~(Len(t) > Capacity)
    BY <1>5, <2>2
  <2> QED
    BY <2>1, <2>2
<1>9. d3 \in Devices /\ d3.entries = WithEntry(c) /\ d3.working = b /\ d3.buffer = dev.buffer
  BY <1>6, <1>8 DEF Owns, Devices, WithEntry
<1>10. l3 = lost'
  BY <1>1, <1>6, <1>7, LifecycleAssumption DEF Overwritten
<1>11. Len(WithEntry(c)) <= Capacity
  BY <1>1, <1>7, LifecycleAssumption DEF WithEntry
<1>12. WithEntry(c) \in Seq(Blocks)
  BY <1>9 DEF Devices
<1>13. /\ dev' \in Devices /\ dev'.entries = WithEntry(c) /\ dev'.working = rest
       /\ dev'.buffer = dev.buffer
  BY <1>1, <1>2, <1>12 DEF Devices
<1> HIDE DEF d1, d2, d3, l3, h3
<1>14. CASE rest = b
  <2>1. dev' = d3
    BY <1>9, <1>13, <1>14, SameDevice
  <2>2. heap' = h3
    BY <1>14 DEF h3
  <2> QED
    BY <1>8, <1>10, <1>11, <1>13, <2>1, <2>2
<1>15. CASE rest # b
  <2> DEFINE d4 == [d3 EXCEPT !.working = ZeroSize]
  <2>1. d4 \in Devices /\ d4.entries = WithEntry(c) /\ d4.working = rest
        /\ d4.buffer = dev.buffer
    BY <1>9, <1>15 DEF Devices
  <2>2. dev' = d4
    BY <1>13, <2>1, SameDevice
  <2>3. heap' = h3 \ {d3.working}
    BY <1>9, <1>15 DEF h3
  <2>4. Owns(d4, h3 \ {d3.working}, l3)
    BY <1>8, WorkingGoes
  <2> QED
    BY <1>10, <1>11, <1>13, <2>2, <2>3, <2>4
<1> QED
  BY <1>14, <1>15

LEMMA MemoryWrite ==
  ASSUME Memory, Control, NEW u \in Users, Write(u)
  PROVE  Memory'
<1>1. /\ state = "live" /\ UNCHANGED <<state, script>>
      /\ script \notin {"alloc_region", "setup_cdev", "free_working", "cdev_del", "unregister"}
  BY DEF Write, kernel, Control, ScriptOK, Coming, Going
<1>2. Owns(dev, heap, lost) /\ dev \in Devices /\ Len(dev.entries) <= Capacity
  BY DEF Memory, PhaseOK, Owns
<1>3. Owns(dev', heap', lost') /\ Len(dev'.entries) <= Capacity
  <2>1. ASSUME NEW b \in (Blocks \ heap) \cup (Held \cap {dev.working}),
               heap' = Grown(b), dev' = [dev EXCEPT !.working = b], UNCHANGED lost
        PROVE  Owns(dev', heap', lost') /\ Len(dev'.entries) <= Capacity
    <3>1. b \in (Blocks \ heap) \cup ({dev.working} \cap Blocks)
      BY <1>2, HeldIsPointers DEF Owns, Pointers
    <3>2. dev'.entries = dev.entries
      BY <1>2, <2>1 DEF Devices
    <3> QED
      BY <1>2, <2>1, <3>1, <3>2, WorkingMoves DEF Grown
  <2>2. ASSUME dev' = [dev EXCEPT !.working = NULL], UNCHANGED heap,
               lost' = lost \cup (Held \cap {dev.working})
        PROVE  Owns(dev', heap', lost') /\ Len(dev'.entries) <= Capacity
    <3>1. dev'.entries = dev.entries
      BY <1>2, <2>2 DEF Devices
    <3> QED
      BY <1>2, <2>2, <3>1, WorkingIsLost, HeldIsPointers
  <2> QED
    BY <2>1, <2>2, WriteCompletes DEF Write
<1> QED
  BY <1>1, <1>3 DEF Memory, PhaseOK

LEMMA MemoryInvariance == Spec => [](Control /\ Memory)
<1>1. Control /\ Memory /\ [Next]_vars => Memory'
  <2> SUFFICES ASSUME Control, Memory, [Next]_vars PROVE Memory'
    OBVIOUS
  <2>1. CASE RunScript \/ Interrupted \/ (\E u \in Users : Open(u) \/ Close(u)) \/ UNCHANGED vars
    BY <2>1, MemoryStays DEF RunScript, Interrupted, Goes, Open, Close, kernel, vars, Commands
  <2> QED
    BY <2>1, MemoryLoading, MemorySetup, MemoryUnloading, MemoryUnregister, MemoryWrite
       DEF Next
<1> QED
  BY <1>1, ControlStep, ControlInit, MemoryInit, PTL DEF Spec

(***************************************************************************)
(* The types of the module's variables, of struct aesd_dev's pointers and  *)
(* of what the kernel and the scripts have.                                *)
(***************************************************************************)
THEOREM LifecycleTypes == Spec => []TypeOK
<1>1. Control /\ Memory => TypeOK
  BY DEF Control, ControlTypes, ModuleStates, Memory, Owns, Devices, TypeOK
<1> QED
  BY <1>1, MemoryInvariance, PTL

(***************************************************************************)
(* After rmmod or a failed insmod nothing is registered, and what is still *)
(* allocated had been lost before (main.c:330-425): of the memory, as long *)
(* as nobody has opened a coming device.                                   *)
(***************************************************************************)
THEOREM NothingIsLeft == Spec => []NothingLeftBehind
<1>1. Control /\ Memory => NothingLeftBehind
  <2> SUFFICES ASSUME Control, Memory, state = "gone"
               PROVE  region = NULL /\ ~cdev /\ heap = lost
    BY DEF NothingLeftBehind
  <2>1. region = NULL /\ ~cdev
    BY DEF Control, KernelOK
  <2>2. dev = Zeroed
    BY DEF Memory, PhaseOK
  <2>3. ToSet(dev.entries) = {}
    BY <2>2 DEF Zeroed, ToSet
  <2>4. Pointers(dev) = {}
    BY <2>2, <2>3 DEF Pointers, Zeroed
  <2> QED
    BY <2>1, <2>4 DEF Memory, Owns
<1> QED
  BY <1>1, MemoryInvariance, PTL

\* The entries of d are as many as its sequence is long.
LEMMA EntriesAreCounted ==
  ASSUME NEW d \in Devices, Distinct(d)
  PROVE  /\ IsFiniteSet(ToSet(d.entries))
         /\ Cardinality(ToSet(d.entries)) = Len(d.entries)
<1> DEFINE s == d.entries
           n == Len(s)
           f == [i \in 1 .. n |-> s[i]]
<1>1. s \in Seq(Blocks) /\ n \in Nat
  BY DEF Devices
<1>2. \A i, j \in 1 .. n : s[i] = s[j] => i = j
  BY DEF Distinct
<1> HIDE DEF s, n
<1>3. ToSet(s) = {s[i] : i \in 1 .. n}
  BY <1>1, ToSetIsImage DEF n
<1>4. f \in Bijection(1 .. n, ToSet(s))
  BY <1>2, <1>3 DEF Bijection, Injection, IsInjective, Surjection
<1>5. ExistsBijection(1 .. n, ToSet(s))
  BY <1>4 DEF ExistsBijection
<1>6. IsFiniteSet(1 .. n) /\ Cardinality(1 .. n) = n
  BY <1>1, FS_Interval
<1> QED
  BY <1>5, <1>6, FS_Bijection DEF s, n

(***************************************************************************)
(* The pointers of the device lead to allocated blocks, and no two to the  *)
(* same, through every interleaving of writes and scripts in which nobody  *)
(* has opened the device before mutex_init (main.c:384-402).               *)
(***************************************************************************)
THEOREM NoBlockIsShared == Spec => []PointersOwnTheirBlocks
<1>1. Memory => PointersOwnTheirBlocks
  <2> SUFFICES ASSUME Memory
               PROVE  /\ Held \subseteq heap \ lost
                      /\ Cardinality(Held) = Len(dev.entries)
                           + Cardinality({dev.working, dev.buffer} \cap Blocks)
    BY DEF PointersOwnTheirBlocks
  <2> DEFINE E == ToSet(dev.entries)
             R == {dev.working, dev.buffer} \cap Blocks
  <2>1. dev \in Devices /\ Distinct(dev) /\ heap \ lost = Pointers(dev)
    BY DEF Memory, Owns
  <2>2. IsFiniteSet(E) /\ Cardinality(E) = Len(dev.entries)
    BY <2>1, EntriesAreCounted
  <2>3. IsFiniteSet(R)
    <3>1. IsFiniteSet({dev.working} \cup {dev.buffer})
      BY FS_Singleton, FS_Union
    <3>2. R \in SUBSET ({dev.working} \cup {dev.buffer})
      OBVIOUS
    <3> QED
      BY <3>1, <3>2, FS_Subset
  <2>4. E \subseteq Blocks
    BY <2>1, ToSetIsImage DEF Devices
  <2>5. Held = E \cup R /\ E \cap R = {}
    BY <2>1, <2>4, HeldIsPointers, LifecycleAssumption DEF Pointers, Devices, Distinct
  <2>6. Cardinality(E \cap R) = 0
    BY <2>5, FS_EmptySet
  <2> HIDE DEF E, R
  <2>7. Cardinality(E \cup R) = Cardinality(E) + Cardinality(R) - Cardinality(E \cap R)
    BY <2>2, <2>3, FS_Union
  <2>8. Cardinality(E) \in Nat /\ Cardinality(R) \in Nat
    BY <2>2, <2>3, FS_CardinalityType
  <2> QED
    BY <2>1, <2>2, <2>5, <2>6, <2>7, <2>8, HeldIsPointers DEF E, R
<1> QED
  BY <1>1, MemoryInvariance, PTL
=============================================================================
