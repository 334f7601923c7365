---------------------------- MODULE ResultStorage ----------------------------
(***************************************************************************)
(* Tensor results between a process worker and the owner                   *)
(* (python/hyperloader/process/serialization.py).  A worker sends a tensor *)
(* storage whole the first time it meets its address and by number after   *)
(* that; the owner keeps every storage it decoded.  Both tables live as    *)
(* long as their process does.  A value is its storage here: the sizes,    *)
(* strides and offset of a view travel with it unchanged.                  *)
(***************************************************************************)
EXTENDS Integers, Sequences, FiniteSets

CONSTANTS
    Samples,        \* positions 0..Samples-1
    Workers,        \* positions go round robin to 0..Workers-1
    Storage,        \* tensor storages of the dataset
    Temporary,      \* those it builds for one sample and drops again
    Ascending,      \* workers run their positions in order (no cost profile)
    InOrder,        \* the owner decodes positions in order
    MaxRestarts     \* bound on replaced workers

Unknown == "unknown"
None == "none"

StorageAssumption ==
    /\ Samples \in Nat /\ Workers \in Nat \ {0} /\ MaxRestarts \in Nat
    /\ Storage # {} /\ Temporary \subseteq Storage
    /\ None \notin Storage /\ Unknown \notin Storage
    /\ Ascending \in BOOLEAN /\ InOrder \in BOOLEAN

Sample == 0..(Samples - 1)
Worker == 0..(Workers - 1)

VARIABLES
    source,         \* the storage each sample is a view of
    address,        \* address of each storage, while it lives in a worker
    storage_ids,    \* ResultEncoder._storage_ids: address -> number
    results,        \* what each worker sent and the owner has not decoded
    tensor_bases,   \* ResultDecoder._tensor_bases: <<worker, number>> -> value
    values,         \* what decode returned for each position
    restarts

vars == <<source, address, storage_ids, results, tensor_bases, values, restarts>>

Address == 1..Cardinality(Storage)
Route(p) == p % Workers

(* The dataset: which samples share a storage, and where it is.            *)
Dataset ==
    /\ source \in [Sample -> Storage]
    /\ \A p, q \in Sample : source[p] = source[q] /\ p # q =>
                                source[p] \notin Temporary
    /\ address \in [Storage -> Address]
    /\ \A s, t \in Storage \ Temporary : address[s] = address[t] => s = t
    /\ \A s \in Temporary : address[s] = 1

NothingSent ==
    /\ storage_ids = [w \in Worker |-> << >>]
    /\ results = [w \in Worker |-> << >>]
    /\ tensor_bases = [w \in Worker |-> << >>]
    /\ values = [p \in Sample |-> None]
    /\ restarts = 0

Init == Dataset /\ NothingSent

Sent(w) == {results[w][i].position : i \in DOMAIN results[w]}
Left(w) == {p \in Sample : Route(p) = w /\ values[p] = None} \ Sent(w)

(* The allocator's choice for a storage made for this sample: any address  *)
(* no storage that is still alive has.                                     *)
Placed(s) ==
    IF s \in Temporary
    THEN \E a \in Address :
            /\ \A t \in Storage \ Temporary : address[t] # a
            /\ address' = [address EXCEPT ![s] = a]
    ELSE UNCHANGED address

(* The numbers a worker gave out, in order: the sequence of addresses.     *)
Number(w, a) == CHOOSE i \in DOMAIN storage_ids[w] : storage_ids[w][i] = a

(* Seeded defect: a storage whose number is taken is sent by its number.   *)
EncodeByCount(w, p, a) ==
    LET new == Len(storage_ids[w]) = 0
    IN  /\ storage_ids' = [storage_ids EXCEPT ![w] = IF new THEN <<a>> ELSE @]
        /\ results' = [results EXCEPT ![w] = Append(@,
               [position |-> p, kind |-> IF new THEN "base" ELSE "view",
                id |-> 1, value |-> source[p]])]

(* ResultEncoder.encode                                                    *)
Encode(w, p, a) ==
    \/ /\ \A i \in DOMAIN storage_ids[w] : storage_ids[w][i] # a
       /\ storage_ids' = [storage_ids EXCEPT ![w] = Append(@, a)]
       /\ results' = [results EXCEPT ![w] = Append(@,
              [position |-> p, kind |-> "base", id |-> Len(storage_ids[w]) + 1,
               value |-> source[p]])]
    \/ /\ \E i \in DOMAIN storage_ids[w] : storage_ids[w][i] = a
       /\ results' = [results EXCEPT ![w] = Append(@,
              [position |-> p, kind |-> "view", id |-> Number(w, a),
               value |-> None])]
       /\ UNCHANGED storage_ids

Evaluate(w, p) ==
    /\ p \in Left(w)
    /\ Ascending => \A q \in Left(w) : p <= q
    /\ Placed(source[p])
    /\ Encode(w, p, address'[source[p]])
    /\ UNCHANGED <<source, tensor_bases, values, restarts>>

(* ResultDecoder.decode: a view of a number never received is an error.    *)
Decode(w, i) ==
    LET r == results[w][i]
    IN  \/ /\ r.kind = "base"
           /\ tensor_bases' = [tensor_bases EXCEPT ![w] =
                  [n \in DOMAIN @ \cup {r.id} |->
                      IF n = r.id THEN r.value ELSE @[n]]]
           /\ values' = [values EXCEPT ![r.position] = r.value]
        \/ /\ r.kind = "view"
           /\ values' = [values EXCEPT ![r.position] =
                  IF r.id \in DOMAIN tensor_bases[w]
                  THEN tensor_bases[w][r.id] ELSE Unknown]
           /\ UNCHANGED tensor_bases

Deliver(w, i) ==
    /\ InOrder => \A p \in Sample : values[p] = None =>
                                        results[w][i].position <= p
    /\ Decode(w, i)
    /\ results' = [results EXCEPT ![w] =
           SubSeq(@, 1, i - 1) \o SubSeq(@, i + 1, Len(@))]
    /\ UNCHANGED <<source, address, storage_ids, restarts>>

(* Seeded defect: the replacement takes over the table.                    *)
RenewKeepingTable(w) == UNCHANGED storage_ids

(* A replacement worker has an encoder of its own, with an empty table.    *)
Renew(w) == storage_ids' = [storage_ids EXCEPT ![w] = << >>]

(* The results the owner had not received are evaluated again.             *)
Restart(w) ==
    /\ restarts < MaxRestarts
    /\ restarts' = restarts + 1
    /\ Renew(w)
    /\ \E n \in 0..Len(results[w]) :
            results' = [results EXCEPT ![w] = SubSeq(@, 1, n)]
    /\ UNCHANGED <<source, address, tensor_bases, values>>

Next ==
    \E w \in Worker :
        \/ \E p \in Sample : Evaluate(w, p)
        \/ \E i \in 1..Len(results[w]) : Deliver(w, i)
        \/ Restart(w)

Spec == Init /\ [][Next]_vars

-----------------------------------------------------------------------------

(* Every sample that is decoded is a view of the storage the dataset       *)
(* returned it from, however numbers, restarts and deliveries interleave   *)
(* ("Reconstruct successful values and retain shared tensor storage        *)
(* owners.", ResultDecoder).                                               *)
ValuesFaithful == \A p \in Sample : values[p] \in {None, Unknown, source[p]}

(* No view arrives at the decoder before its storage (decode, the error    *)
(* "Worker tensor storage reference is unknown.").                         *)
StoragesKnown == \A p \in Sample : values[p] # Unknown
==============================================================================
