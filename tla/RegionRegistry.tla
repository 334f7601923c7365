--------------------------- MODULE RegionRegistry ---------------------------
(***************************************************************************)
(* The registry of shared-memory regions (engine/src/arena/reaper): every  *)
(* process of a user appends the regions it creates to one file, removes   *)
(* them when it drops them, and sweeps those of dead processes.  A stable  *)
(* lock covers append and compaction, not the creation and the unlinking   *)
(* of a region by its owner.  Any process may die at any step.             *)
(***************************************************************************)
EXTENDS Integers, Sequences, FiniteSets

CONSTANTS
    Processes,      \* process incarnations
    Pids,           \* process identifiers, reused
    Regions,        \* region names: token and sequence
    OwnerOf(_),     \* the process whose token a name carries
    Torn,           \* a write may stop halfway (a kill, a full disk)
    Failures,       \* a write or a synchronisation may fail
    MaxCreations    \* bound on the regions created

NoPid == 0
None == "none"

RegistryAssumption ==
    /\ Processes # {} /\ Pids # {} /\ NoPid \notin Pids /\ MaxCreations \in Nat
    /\ None \notin Processes
    /\ \A n \in Regions : OwnerOf(n) \in Processes
    /\ Torn \in BOOLEAN /\ Failures \in BOOLEAN

VARIABLES
    regions,    \* names in the shared-memory namespace
    file,       \* complete lines of the registry
    torn,       \* it ends with an incomplete line
    lock,       \* holder of the lock file
    status,     \* "new", "alive" or "dead"
    pid,        \* each live process's identifier
    op,         \* what each process is doing
    held,       \* regions each process holds
    creations,
    failed      \* a write of a live process has failed

vars == <<regions, file, torn, lock, status, pid, op, held, creations, failed>>

Idle == [kind |-> "idle"]

(* A line: a record, or what is left of two records run together.          *)
Entry(n) == [whole |-> TRUE, name |-> n]
Garbage == [whole |-> FALSE]

Init ==
    /\ regions = {} /\ file = << >> /\ torn = FALSE /\ lock = None
    /\ status = [p \in Processes |-> "new"]
    /\ pid = [p \in Processes |-> NoPid]
    /\ op = [p \in Processes |-> Idle]
    /\ held = [p \in Processes |-> {}]
    /\ creations = 0 /\ failed = FALSE

Alive(p) == status[p] = "alive"

Start(p) ==
    /\ status[p] = "new"
    /\ status' = [status EXCEPT ![p] = "alive"]
    /\ \E i \in Pids : /\ \A q \in Processes : Alive(q) => pid[q] # i
                       /\ pid' = [pid EXCEPT ![p] = i]
    /\ UNCHANGED <<regions, file, torn, lock, op, held, creations, failed>>

-----------------------------------------------------------------------------

(* parse_snapshot: the entries, and whether an issue suppresses everything *)
(* destructive.                                                            *)
Entries(lines) ==
    LET names(i) == {lines[j].name : j \in {k \in 1..(i - 1) : lines[k].whole}}
    IN  {i \in DOMAIN lines : lines[i].whole /\ lines[i].name \notin names(i)}
Sound(lines) == Entries(lines) = DOMAIN lines /\ ~torn
Registered(n) == \E i \in Entries(file) : file[i].name = n

(* One write of a line: it ends an incomplete one, if there is one.        *)
Written(n) ==
    /\ file' = Append(file, IF torn THEN Garbage ELSE Entry(n))
    /\ torn' = FALSE

(* A write that stopped short of the line's end, or wrote nothing.         *)
WrittenInPart ==
    /\ \/ Torn /\ torn' = TRUE
       \/ UNCHANGED torn
    /\ UNCHANGED file

(* create_region: create the region, refused while the name exists ...     *)
Create(p, n) ==
    /\ op[p] = Idle /\ creations < MaxCreations
    /\ OwnerOf(n) = p /\ n \notin regions
    /\ regions' = regions \cup {n}
    /\ creations' = creations + 1
    /\ op' = [op EXCEPT ![p] = [kind |-> "register", name |-> n]]
    /\ UNCHANGED <<file, torn, lock, status, pid, held, failed>>

(* ... and register it under the lock.                                     *)
Register(p) ==
    /\ op[p].kind = "register" /\ lock = None
    /\ Written(op[p].name)
    /\ held' = [held EXCEPT ![p] = @ \cup {op[p].name}]
    /\ op' = [op EXCEPT ![p] = Idle]
    /\ UNCHANGED <<regions, lock, status, pid, creations, failed>>

(* A failed append or a failed synchronisation: the region is unlinked.    *)
RegisterFails(p) ==
    /\ Failures
    /\ op[p].kind = "register" /\ lock = None
    /\ WrittenInPart \/ Written(op[p].name)
    /\ regions' = regions \ {op[p].name}
    /\ op' = [op EXCEPT ![p] = Idle]
    /\ failed' = TRUE
    /\ UNCHANGED <<lock, status, pid, held, creations>>

(* Drop of a region's owner: unlink, then retain; its result is ignored.   *)
Unlink(p, n) ==
    /\ op[p] = Idle /\ n \in held[p]
    /\ regions' = regions \ {n}
    /\ held' = [held EXCEPT ![p] = @ \ {n}]
    /\ op' = [op EXCEPT ![p] = [kind |-> "forget", name |-> n]]
    /\ UNCHANGED <<file, torn, lock, status, pid, creations, failed>>

(* Seeded defect: a dropped region stays in the registry.                  *)
ForgetNothing(p) ==
    /\ op[p].kind = "forget" /\ lock = None
    /\ op' = [op EXCEPT ![p] = Idle]
    /\ UNCHANGED <<regions, file, torn, lock, status, pid, held, creations, failed>>

(* retain: a registry that reads as sound has one record of a name.        *)
Retained(n) ==
    IF \E i \in DOMAIN file : file[i].name = n
    THEN \E i \in DOMAIN file :
            /\ file[i].name = n
            /\ file' = [j \in 1..(Len(file) - 1) |->
                          IF j < i THEN file[j] ELSE file[j + 1]]
    ELSE UNCHANGED file

Forget(p) ==
    /\ op[p].kind = "forget" /\ lock = None
    /\ \/ /\ Sound(file)
          /\ Retained(op[p].name)
          /\ UNCHANGED failed
       \/ /\ ~Sound(file)
          /\ UNCHANGED <<file, failed>>
       \/ /\ Failures /\ failed' = TRUE
          /\ UNCHANGED file
    /\ op' = [op EXCEPT ![p] = Idle]
    /\ UNCHANGED <<regions, torn, lock, status, pid, held, creations>>

-----------------------------------------------------------------------------
(* sweep: classify every entry, unlink the orphans, replace the file.      *)

(* Seeded defect: the lock is not taken.                                   *)
SweepUnlocked(p) ==
    /\ op[p] = Idle /\ lock = None /\ Sound(file)
    /\ op' = [op EXCEPT ![p] = [kind |-> "sweep", left |-> file, keep |-> << >>]]
    /\ UNCHANGED <<regions, file, torn, lock, status, pid, held, creations, failed>>

Sweep(p) ==
    /\ op[p] = Idle /\ lock = None /\ Sound(file)
    /\ lock' = p
    /\ op' = [op EXCEPT ![p] = [kind |-> "sweep", left |-> file, keep |-> << >>]]
    /\ UNCHANGED <<regions, file, torn, status, pid, held, creations, failed>>

(* Seeded defect: a process whose identity cannot be read counts as dead.  *)
MaybeOrphaned(owner) == TRUE

(* observe: the identifier is free, or another process has it now; it may  *)
(* also be impossible to tell, and then the entry is kept.                 *)
Orphaned(owner) == \A q \in Processes : Alive(q) /\ pid[q] = pid[owner] => q # owner

Classify(p) ==
    /\ op[p].kind = "sweep" /\ op[p].left # << >>
    /\ LET line == Head(op[p].left)
       IN  \/ /\ op' = [op EXCEPT ![p].left = Tail(@),
                                  ![p].keep = Append(@, line)]
              /\ UNCHANGED regions
           \/ /\ Orphaned(OwnerOf(line.name))
              /\ regions' = regions \ {line.name}
              /\ op' = [op EXCEPT ![p].left = Tail(@)]
    /\ UNCHANGED <<file, torn, lock, status, pid, held, creations, failed>>

(* replace_locked: write another file and rename it.                       *)
Replace(p) ==
    /\ op[p].kind = "sweep" /\ op[p].left = << >>
    /\ \/ file' = op[p].keep /\ UNCHANGED failed
       \/ Failures /\ failed' = TRUE /\ UNCHANGED file
    /\ lock' = None
    /\ op' = [op EXCEPT ![p] = Idle]
    /\ UNCHANGED <<regions, torn, status, pid, held, creations>>

(* The system releases a dead process's lock; an append it was in may have *)
(* reached the file whole, in part, or not at all.                         *)
Crash(p) ==
    /\ status' = [status EXCEPT ![p] = "dead"]
    /\ held' = [held EXCEPT ![p] = {}]
    /\ lock' = IF lock = p THEN None ELSE lock
    /\ \/ WrittenInPart
       \/ op[p].kind = "register" /\ lock = None /\ Written(op[p].name)
    /\ torn' # torn => op[p].kind = "register" /\ lock = None
    /\ UNCHANGED <<regions, pid, op, creations, failed>>

Step(p) ==
    \/ Start(p)
    \/ /\ Alive(p)
       /\ \/ \E n \in Regions : Create(p, n) \/ Unlink(p, n)
          \/ Register(p) \/ RegisterFails(p)
          \/ Forget(p) \/ Sweep(p) \/ Classify(p) \/ Replace(p)
          \/ Crash(p)

Next == \E p \in Processes : Step(p)

Spec == Init /\ [][Next]_vars

-----------------------------------------------------------------------------

Registering(n) ==
    LET doing == op[OwnerOf(n)]
    IN  doing.kind = "register" /\ doing.name = n

(* A sweep never unlinks a region that a live process holds, whatever      *)
(* identifiers were reused and whatever it could not observe ("Guarded     *)
(* orphan classification and cleanup", sweep.rs).                          *)
LiveRegionsKept == \A p \in Processes : held[p] \subseteq regions

(* Every region is in the registry, where a sweep will find it once its    *)
(* owner is dead, unless its owner had not come to register it ("Append    *)
(* and synchronize one complete ownership record under the stable lock.",  *)
(* store.rs:61).                                                           *)
RegionsRegistered == \A n \in regions : Registered(n) \/ Registering(n)

(* Owners that create, drop and re-create a name, sweeps and deaths never  *)
(* make the registry read as damaged, which would suppress every later     *)
(* removal (retain, parse_snapshot): that takes a write that failed.       *)
SweepsPossible == Sound(file) \/ failed
=============================================================================
