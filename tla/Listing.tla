------------------------------ MODULE Listing -------------------------------
(***************************************************************************)
(* The transports the ledger lists for a node, and the runs of edits that  *)
(* take them to the ones wanted.                                           *)
(*                                                                         *)
(* A listing is a sequence of transports as they are stored.  Updates      *)
(* count entries from one.                                                 *)
(***************************************************************************)
EXTENDS Naturals, Sequences, FiniteSets, SequencesExt

CONSTANT Overhead  \* of a signed envelope, measured in entries

ASSUME OverheadAssumption == Overhead \in Nat

\* The variants of Update.
Transports(entries) == [whole |-> entries]
Replace(i, entry)   == [replace |-> i, entry |-> entry]
Drop(i)             == [drop |-> i]
Added(entry)        == [append |-> entry]

\* What the ledger makes of one update: a nested write at the array, at one of
\* its entries, or an append.
Updated(listed, u) ==
  CASE "whole" \in DOMAIN u   -> u.whole
    [] "replace" \in DOMAIN u -> [listed EXCEPT ![u.replace] = u.entry]
    [] "drop" \in DOMAIN u    -> RemoveAt(listed, u.drop)
    [] OTHER                  -> Append(listed, u.append)

\* The entries the listing keeps are the first of each that is wanted; every
\* other index is spare, to be written over or dropped.
Spare(listed, wanted) ==
  LET IsSpare(i) == listed[i] \notin Range(wanted) \/ \E j \in 1 .. i - 1 : listed[j] = listed[i]
      upto[i \in 0 .. Len(listed)] ==
        IF i = 0 THEN <<>> ELSE IF IsSpare(i) THEN Append(upto[i - 1], i) ELSE upto[i - 1]
  IN upto[Len(listed)]

Lacking(listed, wanted) ==
  LET upto[i \in 0 .. Len(wanted)] ==
        IF i = 0 THEN <<>>
        ELSE IF wanted[i] \notin Range(listed) THEN Append(upto[i - 1], wanted[i])
        ELSE upto[i - 1]
  IN upto[Len(wanted)]

\* Slip: drops from the lowest index up.
TransportEditsUp(listed, wanted) ==
  LET spare   == Spare(listed, wanted)
      missing == Lacking(listed, wanted)
      paired  == IF Len(spare) < Len(missing) THEN Len(spare) ELSE Len(missing)
  IN [i \in 1 .. Len(missing) - paired |-> Added(missing[paired + i])]
     \o [i \in 1 .. paired |-> Replace(spare[i], missing[i])]
     \o [i \in 1 .. Len(spare) - paired |-> Drop(spare[paired + i])]

\* Core::transport_edits: appends, then entries spent on ones that are missing,
\* then drops from the highest index down.
TransportEdits(listed, wanted) ==
  LET spare   == Spare(listed, wanted)
      missing == Lacking(listed, wanted)
      paired  == IF Len(spare) < Len(missing) THEN Len(spare) ELSE Len(missing)
  IN [i \in 1 .. Len(missing) - paired |-> Added(missing[paired + i])]
     \o [i \in 1 .. paired |-> Replace(spare[i], missing[i])]
     \o [i \in 1 .. Len(spare) - paired |-> Drop(spare[Len(spare) + 1 - i])]

\* batch_bytes, counted in entries: what an envelope costs beyond those it
\* carries is Overhead.
Cost(u) == Overhead + IF "whole" \in DOMAIN u THEN Len(u.whole)
                      ELSE IF "drop" \in DOMAIN u THEN 0 ELSE 1
BatchCost(run) == FoldLeft(LAMBDA sum, u : sum + Cost(u), 0, run)

\* Core::advertise_batch: the array written whole, or edited where that is
\* cheaper.
AdvertiseBatch(listed, wanted) ==
  LET whole == <<Transports(wanted)>>
      edits == TransportEdits(listed, wanted)
  IN IF edits # <<>> /\ BatchCost(edits) < BatchCost(whole) THEN edits ELSE whole

\* Core::sign_updates: the listing after each envelope of a run.
Stages(listed, run) ==
  LET after[i \in 0 .. Len(run)] ==
        IF i = 0 THEN listed ELSE Updated(after[i - 1], run[i])
  IN [i \in DOMAIN run |-> after[i]]
=============================================================================
