---------------------------- MODULE CompatLoader ----------------------------
(***************************************************************************)
(* python/hyperloader/compat/__init__.py: a compatibility loader is of the *)
(* zero-worker kind or of the multi-worker kind for its life, and each     *)
(* operation goes to the regime that prepare chose.                        *)
(***************************************************************************)
EXTENDS CompatLanes

CONSTANTS ZeroBatches, MaxZeroEvents

VARIABLE zero

Zero == INSTANCE CompatZero

loaderVars == <<config, call, generator, loader, pool, lane, it, saved, spent, zero>>

PrepareMulti == Init /\ Zero!ZeroUnused

(* The regime of no workers leaves the lanes alone.                        *)
PrepareZero ==
    /\ \E explicit \in BOOLEAN : Zero!ZeroInit(explicit)
    /\ config = [zero |-> TRUE]
    /\ call = "idle" /\ generator = 0
    /\ loader = [seed |-> 0, resume |-> None]
    /\ pool = ClosedPool /\ lane = NoLanes /\ it = NoIterator
    /\ saved = None /\ spent = 0

LoaderInit == PrepareMulti \/ PrepareZero

LoaderNext ==
    \/ zero = None /\ Next /\ UNCHANGED zero
    \/ zero # None /\ Zero!ZeroNext /\ UNCHANGED vars

LoaderSpec ==
    /\ LoaderInit /\ [][LoaderNext]_loaderVars
    /\ WF_vars(zero = None /\ OwnerStep /\ UNCHANGED zero)
    /\ \A w \in Lane : /\ WF_vars(zero = None /\ (Fetch(w) \/ FetchRaises(w)) /\ UNCHANGED zero)
                       /\ WF_vars(zero = None /\ LaneResets(w) /\ UNCHANGED zero)

(* compat/zero.py:181: the first batch after a restore, its order and its  *)
(* random state, is the one that would have come after the capture, unless *)
(* the program drew from the same source between the iterator and its      *)
(* first batch.                                                            *)
ZeroContinues == Zero!Continues

(* compat/zero.py:181, "active or pristine": likewise of a state captured  *)
(* before any iteration.                                                   *)
PristineContinues == Zero!PristineContinues
===============================================================================
