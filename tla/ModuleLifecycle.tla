--------------------------- MODULE ModuleLifecycle ---------------------------
(***************************************************************************)
(* Loading and unloading the driver: the steps of aesd_init_module and     *)
(* aesd_cleanup_module inside insmod and rmmod, as one administrator runs  *)
(* aesdchar_load and aesdchar_unload, while users open the device node and *)
(* write.  What the driver stores is followed as the blocks of memory its  *)
(* pointers lead to, not as bytes: whose blocks are they, and who frees    *)
(* them?  The calls themselves are in AesdChar; here a write is one step,  *)
(* as its lock makes it once the module is live.  Before that, the lock    *)
(* may be initialised, and the pointers reset, inside a write: what it     *)
(* does to the memory then is not followed, only that it could happen.     *)
(***************************************************************************)
EXTENDS Integers, SequencesExt, FiniteSets

CONSTANTS
  Users,       \* processes that use the device
  Majors,      \* the major numbers the kernel may give it
  Blocks,      \* the memory there is for kmalloc; any kmalloc may fail
  Capacity,    \* AESDCHAR_MAX_WRITE_OPERATIONS_SUPPORTED
  NULL,
  ZeroSize     \* ZERO_SIZE_PTR, which krealloc to size 0 returns

ASSUME LifecycleAssumption ==
  /\ Capacity \in Nat \ {0}
  /\ NULL \notin Blocks \cup Majors /\ ZeroSize \notin Blocks \cup {NULL}

VARIABLES
  state,   \* of the module, as the kernel has it
  region,  \* the major number it has registered, or NULL
  cdev,    \* whether cdev_add has been called, and cdev_del has not
  dev,     \* what the pointers in aesd_device lead to
  heap,    \* the blocks that are allocated
  lost,    \* auxiliary: those of them whose last pointer has been overwritten
  node,    \* the major number of /dev/aesdchar, or NULL if there is none
  script,  \* where the script is: at a command, or inside insmod or rmmod
  opened,  \* the users who have the device open
  stale,   \* history: a script has been interrupted, and none has ended well since
  exposed  \* history: somebody has had the device open before it was set up

kernel == <<state, region, cdev>>
memory == <<dev, heap, lost>>
vars   == <<kernel, memory, node, script, opened, stale, exposed>>

Commands == {"idle", "insmod", "rm", "mknod", "loaded", "rmmod", "rm_stale"}
Inside   == {"alloc_region", "setup_cdev", "setup_buffer",
             "free_entries", "free_working", "cdev_del", "unregister"}

TypeOK ==
  /\ state \in {"gone", "coming", "live", "going"}
  /\ region \in Majors \cup {NULL} /\ node \in Majors \cup {NULL}
  /\ cdev \in BOOLEAN
  /\ dev \in [entries : Seq(Blocks), working : Blocks \cup {NULL, ZeroSize},
              buffer : Blocks \cup {NULL}]
  /\ lost \subseteq heap /\ heap \subseteq Blocks
  /\ script \in Commands \cup Inside
  /\ opened \subseteq Users
  /\ stale \in BOOLEAN /\ exposed \in BOOLEAN

Zeroed == [entries |-> << >>, working |-> NULL, buffer |-> NULL]

Init ==
  /\ state = "gone" /\ region = NULL /\ cdev = FALSE
  /\ dev = Zeroed /\ heap = {} /\ lost = {}
  /\ node = NULL /\ script = "idle" /\ opened = {}
  /\ stale = FALSE /\ exposed = FALSE

Goes(from, to) == script = from /\ script' = to

-----------------------------------------------------------------------------
(***************************************************************************)
(* insmod.                                                                 *)
(***************************************************************************)
\* If there is a module of that name, insmod fails ("|| exit 1"), and modprobe,
\* which the script takes where there is no .ko file, has nothing to do.
Insmod ==
  /\ script = "insmod"
  /\ IF state = "gone" THEN state' = "coming" /\ script' = "alloc_region"
     ELSE state' = state /\ script' \in {"idle", "rm"}
  /\ UNCHANGED <<region, cdev, memory, node, opened, stale, exposed>>

\* aesd_init_module returns an error: insmod fails, and so does the script.
Fails == state' = "gone" /\ script' = "idle"

AllocRegion ==
  /\ script = "alloc_region"
  /\ \/ Fails /\ UNCHANGED <<region, dev>>
     \/ /\ region' \in Majors
        /\ dev' = Zeroed
        /\ script' = "setup_cdev" /\ UNCHANGED state
  /\ UNCHANGED <<cdev, heap, lost, node, opened, stale, exposed>>

\* Mutant: the number stays registered when cdev_add fails.
keep_region == region

\* unregister_chrdev_region(dev, 1)
RegionAfterError == NULL

\* From cdev_add on, the device can be opened.
aesd_setup_cdev ==
  /\ script = "setup_cdev"
  /\ \/ Fails /\ region' = RegionAfterError /\ UNCHANGED cdev
     \/ cdev' = TRUE /\ script' = "setup_buffer" /\ UNCHANGED <<state, region>>
  /\ UNCHANGED <<memory, node, opened, stale, exposed>>

\* The blocks the device's pointers lead to.
Held == (ToSet(dev.entries) \cup {dev.working, dev.buffer}) \ {NULL, ZeroSize}

\* mutex_init to the end: whatever the pointers led to, they do no longer.
SetupBuffer ==
  /\ Goes("setup_buffer", "rm")
  /\ state' = "live"
  /\ \E b \in (Blocks \ heap) \cup {NULL} :
       /\ dev' = [Zeroed EXCEPT !.buffer = b]
       /\ heap' = heap \cup ({b} \ {NULL})
  /\ lost' = lost \cup Held
  /\ UNCHANGED <<region, cdev, node, opened, stale, exposed>>

\* rm -f; mknod c $major, with the number from /proc/devices; the end.
Rm ==
  /\ Goes("rm", "mknod")
  /\ node' = NULL
  /\ UNCHANGED <<kernel, memory, opened, stale, exposed>>

\* Mutant: the number of the first load.
same_number_as_ever == CHOOSE m \in Majors : TRUE

major == region

Mknod ==
  /\ Goes("mknod", "loaded")
  /\ node' = major /\ stale' = FALSE
  /\ UNCHANGED <<kernel, memory, opened, exposed>>

-----------------------------------------------------------------------------
(***************************************************************************)
(* rmmod.                                                                  *)
(***************************************************************************)
\* Mutant: owner is not set.
no_owner == FALSE

\* dev->cdev.owner = THIS_MODULE: an open file counts as a use of the module.
Owned == TRUE

Rmmod ==
  /\ script = "rmmod"
  /\ IF state = "live" /\ (Owned => opened = {})
     THEN state' = "going" /\ script' = "free_entries"
     ELSE state' = state /\ script' = "idle"
  /\ UNCHANGED <<region, cdev, memory, node, opened, stale, exposed>>

FreeEntries ==
  /\ Goes("free_entries", "free_working")
  /\ heap' = heap \ ToSet(dev.entries)
  /\ dev' = [dev EXCEPT !.entries = << >>]
  /\ UNCHANGED <<kernel, lost, node, opened, stale, exposed>>

FreeWorking ==
  /\ Goes("free_working", "cdev_del")
  /\ heap' = heap \ {dev.working}
  /\ dev' = [dev EXCEPT !.working = NULL]
  /\ UNCHANGED <<kernel, lost, node, opened, stale, exposed>>

\* device_destroy and class_destroy find no class and do nothing.
CdevDel ==
  /\ Goes("cdev_del", "unregister")
  /\ cdev' = FALSE
  /\ UNCHANGED <<state, region, memory, node, opened, stale, exposed>>

\* The end of the module, and of its variables: nobody has freed dev->buffer.
Unregister ==
  /\ Goes("unregister", "rm_stale")
  /\ region' = NULL /\ state' = "gone"
  /\ lost' = lost \cup ({dev.buffer} \ {NULL})
  /\ dev' = Zeroed
  /\ UNCHANGED <<cdev, heap, node, opened, stale, exposed>>

\* "Remove stale nodes"
RmStale ==
  /\ Goes("rm_stale", "idle")
  /\ node' = NULL /\ stale' = FALSE
  /\ UNCHANGED <<kernel, memory, opened, exposed>>

-----------------------------------------------------------------------------
(***************************************************************************)
(* The administrator, who runs one script at a time.                       *)
(***************************************************************************)
RunScript ==
  /\ Goes("idle", "insmod") \/ Goes("idle", "rmmod") \/ Goes("loaded", "idle")
  /\ UNCHANGED <<kernel, memory, node, opened, stale, exposed>>

\* Between two commands.
Interrupted ==
  /\ script \in Commands \ {"idle", "loaded"}
  /\ script' = "idle" /\ stale' = TRUE
  /\ UNCHANGED <<kernel, memory, node, opened, exposed>>

-----------------------------------------------------------------------------
(***************************************************************************)
(* The users.  The kernel finds the device by the number of the node, and  *)
(* takes a reference to its owner unless that is going.                    *)
(***************************************************************************)
Open(u) ==
  /\ u \notin opened
  /\ node # NULL /\ node = region /\ cdev
  /\ Owned => state # "going"
  /\ opened' = opened \cup {u}
  /\ exposed' = (exposed \/ state = "coming")
  /\ UNCHANGED <<kernel, memory, node, script, stale>>

Close(u) ==
  /\ u \in opened
  /\ opened' = opened \ {u}
  /\ UNCHANGED <<kernel, memory, node, script, stale, exposed>>

\* krealloc of working_entry, in place or to a free block b.
Grown(b) == (heap \ {dev.working}) \cup {b}

\* add_entry with block c: in a full buffer it overwrites the oldest pointer.
WithEntry(c) ==
  LET all == Append(dev.entries, c)
  IN  IF Len(all) > Capacity THEN Tail(all) ELSE all

Overwritten == IF Len(dev.entries) = Capacity THEN {Head(dev.entries)} ELSE {}

\* Mutant: the entry gets working_entry itself.
entry_shares_working(b) == {b}

\* kmalloc(entry_size)
EntryBuf(b) == Blocks \ Grown(b)

\* aesd_write: the bytes are kept; one command is completed, with nothing or
\* something left over; or the first or the second allocation fails.
Write(u) ==
  /\ u \in opened /\ state = "live"
  /\ \/ \E b \in (Blocks \ heap) \cup (Held \cap {dev.working}) :
          \/ /\ heap' = Grown(b)
             /\ dev' = [dev EXCEPT !.working = b]
             /\ UNCHANGED lost
          \/ \E c \in EntryBuf(b), rest \in {b, ZeroSize} :
               /\ heap' = (Grown(b) \cup {c}) \ (IF rest = b THEN {} ELSE {b})
               /\ dev' = [dev EXCEPT !.entries = WithEntry(c), !.working = rest]
               /\ lost' = lost \cup Overwritten
     \/ /\ dev' = [dev EXCEPT !.working = NULL]
        /\ lost' = lost \cup (Held \cap {dev.working})
        /\ UNCHANGED heap
  /\ UNCHANGED <<kernel, node, script, opened, stale, exposed>>

Next ==
  \/ RunScript \/ Interrupted
  \/ Insmod \/ AllocRegion \/ aesd_setup_cdev \/ SetupBuffer \/ Rm \/ Mknod
  \/ Rmmod \/ FreeEntries \/ FreeWorking \/ CdevDel \/ Unregister \/ RmStale
  \/ \E u \in Users : Open(u) \/ Close(u) \/ Write(u)

Spec == Init /\ [][Next]_vars

-----------------------------------------------------------------------------
(***************************************************************************)
(* Whoever has the device open meets one whose lock and buffer have been   *)
(* set up and whose entries have not been freed, although cdev_add comes   *)
(* before mutex_init and the entries are freed before cdev_del.  This      *)
(* needs the scripts: there is no node while the module is coming, unless  *)
(* one that was interrupted has left it.                                   *)
(***************************************************************************)
OpenMeansReady == ~stale /\ opened # {} => state = "live"

(***************************************************************************)
(* Every pointer of the device leads to an allocated block, and no two to  *)
(* the same: so no block is freed twice, or used after that.  Nothing is   *)
(* said once somebody has opened the device by a stale node before         *)
(* mutex_init: that may let two writers in at once, and the resets after   *)
(* it take the pointers from under them.                                   *)
(***************************************************************************)
PointersOwnTheirBlocks ==
  ~exposed =>
    /\ Held \subseteq heap \ lost
    /\ Cardinality(Held) = Len(dev.entries)
                             + Cardinality({dev.working, dev.buffer} \cap Blocks)

(***************************************************************************)
(* After rmmod, or a failed insmod, nothing is registered, and no memory   *)
(* is left but the blocks that were lost before: entries that add_entry    *)
(* has overwritten, bytes lost by a failing krealloc, and dev->buffer.     *)
(* (Of the memory only as long as nobody has opened a coming device.)      *)
(***************************************************************************)
NothingLeftBehind ==
  state = "gone" => region = NULL /\ ~cdev /\ (exposed \/ heap = lost)

(***************************************************************************)
(* Whatever number the kernel gives the device, and whatever an            *)
(* interrupted script has left, a load that succeeds ends with a node that *)
(* leads to the device.                                                    *)
(***************************************************************************)
LoadedMeansUsable == script = "loaded" => state = "live" /\ cdev /\ node = region
=============================================================================
