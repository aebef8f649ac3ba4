------------------------------- MODULE Ledger -------------------------------
(***************************************************************************)
(* Ledgers over the SQLite store: envelopes judged at the version of their *)
(* parent and committed under their own digest, versions installed and     *)
(* pruned, envelopes logged and removed.                                   *)
(*                                                                         *)
(* A ledger is a cursor, so any version the store holds may be stood on:   *)
(* the actions take the head they work at.  Judgements read the store row  *)
(* by row, as the code does.                                               *)
(***************************************************************************)
EXTENDS Store

CONSTANTS
  Catalogue,    \* the envelopes there are: name -> [msg, sigs]
  Genesis,      \* the name of the Init every chain here starts with
  Probes,       \* paths to read at
  Adoptable,    \* heads a sponsor may hand over with their state
  MaxClock,     \* bound: the readings of the node's clock told apart
  MaxVersions,  \* bound: versions held at once
  MaxDepth,     \* bound: the length of a chain
  Loggable,     \* the envelopes followed through the log
  MaxId         \* bound: the id a node may have before a write

VARIABLES
  db,       \* the tables
  read,     \* what reading all of them back yields
  clock,    \* the node's clock
  panicked  \* an operation did not fit the version it was applied to

vars == <<db, read, clock, panicked>>

\* The whole content of the store, through its reads.
ReadBack(d) ==
  [versions  |-> [h \in d.versions |-> namespaces(d, h)],
   envelopes |-> [h \in DOMAIN d.rows |-> logged_envelope(d, h)],
   children  |-> [p \in {Front(h) : h \in {x \in DOMAIN d.rows : Len(x) > 1}} |->
                    children_of(d, p)]]

\* The reference every backend has to agree with.
M == INSTANCE MemStore WITH
       versions  <- read.versions,
       envelopes <- read.envelopes,
       children  <- read.children,
       clock     <- clock

Tree == read.versions

\* An operation leaves these tables behind.
Become(d) == db' = d /\ read' = ReadBack(d)

Room ==
  /\ Cardinality(db.versions) < MaxVersions
  /\ \A n \in DOMAIN db.nodes : n <= MaxId

Payload(h) == Catalogue[Last(h)].msg

Init ==
  /\ db = EmptyDb /\ read = ReadBack(EmptyDb)
  /\ clock = 0
  /\ panicked = FALSE

\* Ledger::init, in a store the daemon has just created: a checkpoint holds
\* nothing an update would be refused for.
Open ==
  /\ db.versions = {}
  /\ LET state == Payload(<<Genesis>>).state
     IN \A key \in DOMAIN state : Allowed(key, state[key])
  /\ Become(install(db, <<Genesis>>, Payload(<<Genesis>>).state))
  /\ UNCHANGED <<clock, panicked>>

\* Ledger::adopt.
Adopt(h) ==
  /\ Room
  /\ h \notin db.versions
  /\ \A key \in DOMAIN M!Replay(h) : Allowed(key, M!Replay(h)[key])
  /\ Become(install(db, h, M!Replay(h)))
  /\ UNCHANGED <<clock, panicked>>

\* Ledger::apply at a version the store holds: judged, then committed in one
\* transaction.
Apply(h, name) ==
  /\ h \in db.versions /\ Append(h, name) \notin db.versions
  /\ Room /\ Len(h) < MaxDepth
  /\ Judge(Tree[h], Catalogue[name]) = "ok"
  /\ IF M!Prevalidated(Tree[h], Catalogue[name].msg)
     THEN /\ Become(commit(db, h, Append(h, name), Catalogue[name].msg))
          /\ UNCHANGED panicked
     ELSE panicked' = TRUE /\ UNCHANGED <<db, read>>
  /\ UNCHANGED clock

\* Storage::retain with the heads still in use.
Retain(keep) ==
  /\ keep # db.versions
  /\ Become(retain(db, keep))
  /\ UNCHANGED <<clock, panicked>>

\* Storage::put_envelope.
PutEnvelope(h, status) ==
  /\ Become(put_envelope(db, h, status, clock))
  /\ UNCHANGED <<clock, panicked>>

\* Storage::remove_envelope.
RemoveEnvelope(h) ==
  /\ h \in DOMAIN db.rows
  /\ Become(remove_envelope(db, h))
  /\ UNCHANGED <<clock, panicked>>

\* The clock moves on.  It matters only to entries there are.
Tick ==
  /\ clock < MaxClock /\ db.rows # <<>>
  /\ clock' = clock + 1
  /\ UNCHANGED <<db, read, panicked>>

\* The status an envelope is stored with: verified at its parent's version,
\* or as it arrived when there is none to verify it against.
StatusOf(h) ==
  IF Front(h) \in db.versions THEN Verify(Tree[Front(h)], Catalogue[Last(h)].sigs)
  ELSE [unchecked |-> TRUE]

Next ==
  \/ Open
  \/ \E h \in Adoptable : Adopt(h)
  \/ \E h \in db.versions, name \in DOMAIN Catalogue : Apply(h, name)
  \/ \E keep \in SUBSET db.versions : Retain(keep)
  \/ \E h \in Loggable : PutEnvelope(h, StatusOf(h))
  \/ \E h \in DOMAIN db.rows : RemoveEnvelope(h)
  \/ Tick

Spec == Init /\ [][Next]_vars

-----------------------------------------------------------------------------

\* No edge dangles, no two rows share a primary key, an array's indices run
\* from zero without a gap, which new_array_appending counts on, and every
\* lookup by row answers as a walk of the whole tree would.
RowsSound ==
  /\ \A e \in db.edges : e.parent \in DOMAIN db.nodes /\ e.child \in DOMAIN db.nodes
  /\ \A e, f \in db.edges : e.parent = f.parent /\ e.at = f.at => e = f
  /\ \A r, q \in db.roots : r[1] = q[1] /\ r[2] = q[2] => r = q
  /\ \A n \in DOMAIN db.nodes : node_kind(db, n) = "Array" =>
       {e.at.index : e \in EdgesOf(db, n)} = 0 .. Cardinality(EdgesOf(db, n)) - 1
  /\ \A h \in db.versions : \A key \in DOMAIN Tree[h] : \A p \in Probes :
       LET v == Walk(Tree[h][key], p)
       IN /\ resolve(db, h, key, p) = Resolve(Tree[h][key], p)
          /\ value_at(db, h, key, p) = v
          /\ meta_at(db, h, key, p) =
               IF v = Nothing THEN Nothing
               ELSE CASE IsArray(v) -> [len |-> Len(v.array)]
                      [] IsMap(v) -> [keys |-> DOMAIN v.map]
                      [] OTHER -> [leaf |-> TRUE]

\* The value rules of the reserved namespaces hold at every version, however
\* it was written: whole, nested, by an amendment or by a checkpoint.
RulesHold ==
  \A h \in db.versions : \A key \in DOMAIN Tree[h] : Allowed(key, Tree[h][key])

\* What the ledger has judged fits the store: no `expect` of a walk fails.
NeverPanics == ~panicked

\* No chain goes past a revocation or a raised threshold: every version was
\* signed by keys its parent trusts, and their weight, summed without the
\* saturation of a u32, meets the parent's threshold.
SignedByTrusted ==
  \A h \in db.versions : Len(h) > 1 =>
    LET parent == M!Replay(Front(h))
        ids    == DOMAIN Catalogue[Last(h)].sigs
    IN /\ ids \subseteq DOMAIN Trusted(parent)
       /\ \A id \in ids : Catalogue[Last(h)].sigs[id]
       /\ MapThenSumSet(LAMBDA id : Trusted(parent)[id].key.weight, ids)
            >= Threshold(parent, MinEnvelopeWeight)

\* The tables implement the store in memory: no operation and no sharing of
\* rows between versions can be told apart from trees kept whole.
Implements == M!MemSpec
=============================================================================
