----------------------------- MODULE Bootstrap ------------------------------
(***************************************************************************)
(* Joining a cluster by invite: the sponsor's book of invites and its      *)
(* chain, which others extend, reorganise and compact meanwhile, and the   *)
(* two ends of each join.                                                  *)
(*                                                                         *)
(* A path is a sequence of envelopes from the Init on; a log that was      *)
(* compacted reaches back to the index `oldest`.  An attempt to join draws *)
(* fresh keys, so the attempt stands for its key too.                      *)
(***************************************************************************)
EXTENDS Naturals, Sequences, FiniteSets, SequencesExt

CONSTANTS
  Attempts,  \* runs of `lotusd bootstrap`, each with keys of its own, numbered
  Dirs,      \* state directories they run on, numbered as they are first used
  Tokens,    \* what draw_token may yield
  Keep,      \* keep_envelopes
  Floor,     \* the chain's min-keep, in ticks of the clock
  TTL,       \* of an invite
  MaxClock, MaxForeign, MaxFaults,  \* bounds on the environment
  Sponsor, None

ASSUME BootstrapAssumption ==
  /\ Keep \in Nat \ {0} /\ {Floor, TTL, MaxClock, MaxForeign, MaxFaults} \subseteq Nat
  /\ Attempts \subseteq Nat /\ Dirs \subseteq Nat /\ Sponsor \notin Attempts

VARIABLES
  path,     \* the sponsor's canonical path
  made,     \* envelopes there ever were
  oldest,   \* the index its log starts at
  pending,  \* Invites::pending
  issued,   \* the invites operators were given
  now,      \* the sponsor's clock
  dir,      \* what each state directory holds: "blank", "keys", "rooted"
  join,     \* the joiner's end of each attempt
  serve,    \* the sponsor's end
  control,  \* the frame on its way to the joiner on the control stream
  pull,     \* the joiner's stream for a pull, and the answer on it
  conn,     \* the connection: None, "up", "lost"
  admitted, \* <<token, key>> of every admission there ever was
  foreign, faults

\* Where each end of a join can be.
JoinStates  == {"new", "prepared", "joining", "pull1", "await", "pull2", "check",
                "joined", "failed", "refused"}
ServeStates == {"accepted", "pull1", "admitting", "pull2", "ending", "done", "failed"}

\* Why a join failed.
Causes == {"RootMismatch", "Init", "Refused", "NoCommonHistory", "AdmissionMissing",
           "SponsorNotTrusted", "NotTrusted", "Lost", "Broke"}

\* None is none of the values it stands in for.
ASSUME NoneAssumption == None \notin ServeStates /\ None \notin Causes

chain == <<path, made, oldest>>
book  == <<pending, issued, now>>
ends  == <<dir, join, serve, control, pull, conn>>
vars  == <<chain, book, ends, admitted, foreign, faults>>

Envelope(id, kind, key) == [id |-> id, kind |-> kind, key |-> key, at |-> now]

\* Core::trusted_keys: the keys trusted where a chain starts, as its envelopes
\* leave them.
TrustedKeys(base, seq) ==
  {k \in Attempts \cup {Sponsor} :
     LET said == SelectSeq(seq, LAMBDA e : e.kind \in {"trust", "revoke"} /\ e.key = k)
     IN IF said = <<>> THEN k \in base ELSE Last(said).kind = "trust"}

\* Core::signs_alone.
SignsAlone == Sponsor \in TrustedKeys({}, path)

Fault == faults < MaxFaults /\ faults' = faults + 1

-----------------------------------------------------------------------------
(* The sponsor's invites.                                                  *)

Live == {p \in pending : p.expires > now}

\* Invites::pinned_roots.
PinnedRoots == {p.root : p \in Live}

\* Invites::issue.
Issue(t, root) == Live \cup {[token |-> t, root |-> root, expires |-> now + TTL]}

\* Server::create_invite.
CreateInvite(t) ==
  /\ SignsAlone /\ \A i \in issued : i.token # t
  /\ LET root == path[oldest].id
     IN /\ pending' = Issue(t, root)
        /\ issued' = issued \cup {[token |-> t, root |-> root]}
  /\ UNCHANGED <<now, chain, ends, admitted, foreign, faults>>

\* Slip: the invite stays until the node is admitted.
ConsumedLater(found) == Live

\* Invites::redeem takes the invite out, and the expired ones with it.
Consumed(found) == Live \ found

-----------------------------------------------------------------------------
(* The sponsor's chain.                                                    *)

\* Slip: the pins are not looked at.
ChooseCutUnpinned(cutoff) ==
  LET fails == {i \in oldest .. Len(path) : Len(path) - i >= Keep /\ path[i].at < cutoff}
  IN IF fails = {} THEN None ELSE 1 + Max(fails)

\* choose_cut: one above the newest envelope that no clause keeps.
ChooseCut(cutoff) ==
  LET unseen(i) == PinnedRoots \ {path[j].id : j \in i + 1 .. Len(path)}
      fails     == {i \in oldest .. Len(path) : /\ unseen(i) = {}
                                                /\ Len(path) - i >= Keep
                                                /\ path[i].at < cutoff}
  IN IF fails = {} THEN None ELSE 1 + Max(fails)

\* Core::compact, whoever asks for it.
Compact ==
  LET cut == IF now < Floor THEN None ELSE ChooseCut(now - Floor)
  IN /\ cut # None
     /\ oldest' = cut
     /\ UNCHANGED <<path, made, book, ends, admitted, foreign, faults>>

\* Another node's envelope, on the head or on a branch that wins.
Inserted(keep, kind, key) ==
  /\ foreign < MaxForeign /\ foreign' = foreign + 1
  /\ kind = "revoke" => key \in TrustedKeys({}, SubSeq(path, 1, keep))
  /\ made' = made + 1
  /\ path' = Append(SubSeq(path, 1, keep), Envelope(made + 1, kind, key))
  /\ UNCHANGED <<oldest, book, ends, admitted, faults>>

Tick ==
  /\ now < MaxClock /\ now' = now + 1
  /\ UNCHANGED <<chain, pending, issued, ends, admitted, foreign, faults>>

\* The sponsor's daemon restarts: a restart forgets its invites.
Restart ==
  /\ Fault
  /\ pending' = {}
  /\ serve' = [a \in Attempts |-> IF serve[a] \in {"done", None} THEN serve[a] ELSE "failed"]
  /\ conn' = [a \in Attempts |-> IF conn[a] = "up" THEN "lost" ELSE conn[a]]
  /\ UNCHANGED <<chain, issued, now, dir, join, control, pull, admitted, foreign>>

-----------------------------------------------------------------------------
(* The sponsor's end of a join.                                            *)

Says(a, frame) == control' = [control EXCEPT ![a] = frame]
Serves(a, at)  == serve' = [serve EXCEPT ![a] = at]

\* Core::welcome_root: the envelope, and the state standing at it.
Welcome ==
  [type |-> "Welcome", root |-> path[oldest],
   state |-> TrustedKeys({}, SubSeq(path, 1, oldest))]
Admitted(id)  == [type |-> "Admitted", digest |-> id]
Refused       == [type |-> "Refused"]

\* serve_join up to the Welcome: the token redeemed and the root read in one
\* turn of the mainloop.  A root that cannot be read is a refusal, and the
\* invite is gone all the same.
RedeemInvite(a) ==
  LET found == {p \in pending : p.token = join[a].invite.token}
  IN /\ serve[a] = "accepted" /\ conn[a] = "up"
     /\ pending' = Consumed(found)
     /\ \/ /\ found \cap Live # {}
           /\ Says(a, Welcome) /\ Serves(a, "pull1")
           /\ UNCHANGED faults
        \/ /\ IF found \cap Live = {} THEN UNCHANGED faults ELSE Fault
           /\ Says(a, Refused) /\ Serves(a, "failed")
     /\ UNCHANGED <<chain, issued, now, dir, join, pull, conn, admitted, foreign>>

\* The walk a server answers from ends on the pruned parent of its root.
ServerWalk == IF oldest = 1 THEN {path[i] : i \in 1 .. Len(path)}
              ELSE {path[i] : i \in oldest - 1 .. Len(path)}

Stream(at) == [at |-> at, chain |-> <<>>]

\* What a pull leaves the joiner with, or that there is no common history.
Answer(held) ==
  LET shared == {i \in DOMAIN held : held[i] \in ServerWalk}
  IN IF shared = {} THEN Stream("nosplit")
     ELSE LET at == Max(shared)
              on == CHOOSE i \in DOMAIN path : path[i] = held[at]
          IN [at    |-> "synced",
              chain |-> SubSeq(held, 1, at) \o SubSeq(path, on + 1, Len(path))]

Then(at) == IF at = "pull1" THEN "admitting" ELSE "ending"

\* serve_pull: whatever the session came to, and also when the joiner closed
\* its stream between two frames, the join goes on.
ServePull(a) ==
  /\ serve[a] \in {"pull1", "pull2"}
  /\ \/ /\ pull[a].at = "open" /\ conn[a] = "up"
        /\ pull' = [pull EXCEPT ![a] = Answer(join[a].chain)]
     \/ /\ pull[a].at = "closed"
        /\ UNCHANGED pull
  /\ Serves(a, Then(serve[a]))
  /\ UNCHANGED <<chain, book, dir, join, control, conn, admitted, foreign, faults>>

\* Slip: listed before it is trusted.
AdmissionListsFirst(a) ==
  <<Envelope(made + 1, "list", a), Envelope(made + 2, "trust", a)>>

\* Core::admit: trusted first, then listed.
Admission(a) ==
  <<Envelope(made + 1, "trust", a), Envelope(made + 2, "list", a)>>

\* Server::admit: both envelopes in one turn, or the first alone when the
\* second fails, or none when this node may not sign.
Admit(a) ==
  /\ serve[a] = "admitting"
  /\ \/ /\ SignsAlone
        /\ path' = path \o Admission(a) /\ made' = made + 2
        /\ Says(a, Admitted(made + 2)) /\ Serves(a, "pull2")
        /\ admitted' = admitted \cup {<<join[a].invite.token, a>>}
        /\ UNCHANGED faults
     \/ /\ SignsAlone /\ Fault
        /\ path' = Append(path, Admission(a)[1]) /\ made' = made + 1
        /\ Says(a, Refused) /\ Serves(a, "failed")
        /\ admitted' = admitted \cup {<<join[a].invite.token, a>>}
     \/ /\ ~SignsAlone
        /\ Says(a, Refused) /\ Serves(a, "failed")
        /\ UNCHANGED <<path, made, admitted, faults>>
  /\ UNCHANGED <<oldest, book, dir, join, pull, conn, foreign>>

\* A step of the control stream, or accepting a pull, fails or times out.
ServeFails(a) ==
  /\ serve[a] \in {"accepted", "pull1", "pull2"} /\ conn[a] = "lost"
  /\ Serves(a, "failed")
  /\ UNCHANGED <<chain, book, dir, join, control, pull, conn, admitted, foreign, faults>>

\* The joiner finished the control stream, or is gone: the session is done
\* when that end is read, and has failed when it takes longer than a step may.
ServeEnds(a) ==
  /\ serve[a] = "ending" /\ conn[a] = "lost"
  /\ \E how \in {"done", "failed"} : Serves(a, how)
  /\ UNCHANGED <<chain, book, dir, join, control, pull, conn, admitted, foreign, faults>>

-----------------------------------------------------------------------------
(* The joiner's end.                                                       *)

Running(a) == join[a].at \notin {"new", "joined", "failed", "refused"}

\* The joiner's process goes on at this point.
Goes(a, at) == join' = [join EXCEPT ![a].at = at]

\* The join ends: the connection goes with it, and an open stream is finished.
Closes(a) ==
  /\ conn' = [conn EXCEPT ![a] = IF conn[a] = "up" THEN "lost" ELSE @]
  /\ pull' = [pull EXCEPT ![a].at = IF @ = "open" THEN "closed" ELSE @]
Fails(a, why) ==
  /\ join' = [join EXCEPT ![a].at = "failed", ![a].why = why]
  /\ Closes(a)

\* Core::refuse_initialized.
Initialized(d) == dir[d] = "rooted"

\* Core::prepare_join: fresh keys, unless the directory holds a cluster.
PrepareJoin(a, d) ==
  /\ join[a].at = "new" /\ \A b \in Attempts : join[b].dir = d => ~Running(b)
  /\ IF Initialized(d)
     THEN /\ join' = [join EXCEPT ![a].at = "refused", ![a].dir = d]
          /\ UNCHANGED dir
     ELSE /\ join' = [join EXCEPT ![a].at = "prepared", ![a].dir = d]
          /\ dir' = [dir EXCEPT ![d] = "keys"]
  /\ UNCHANGED <<chain, book, serve, control, pull, conn, admitted, foreign, faults>>

\* The connection, the control stream, and Join on it.
Connect(a, invite) ==
  /\ join[a].at = "prepared"
  /\ join' = [join EXCEPT ![a].at = "joining", ![a].invite = invite]
  /\ conn' = [conn EXCEPT ![a] = "up"] /\ Serves(a, "accepted")
  /\ UNCHANGED <<chain, book, dir, control, pull, admitted, foreign, faults>>

\* The Welcome: the root is checked and laid down, the oldest-envelope file
\* last.  Laying it down may fail before that.
ReadWelcome(a) ==
  /\ join[a].at = "joining" /\ control[a] # None /\ control[a].type = "Welcome"
  /\ Says(a, None)
  /\ IF control[a].root.id # join[a].invite.root
     THEN Fails(a, "RootMismatch") /\ UNCHANGED <<dir, faults>>
     ELSE
     \/ /\ join' = [join EXCEPT ![a].at = "pull1", ![a].chain = <<control[a].root>>,
                               ![a].state = control[a].state]
        /\ dir' = [dir EXCEPT ![join[a].dir] = "rooted"]
        /\ pull' = [pull EXCEPT ![a] = Stream("open")]
        /\ UNCHANGED <<conn, faults>>
     \/ /\ Fault /\ Fails(a, "Init")
        /\ UNCHANGED dir
  /\ UNCHANGED <<chain, book, serve, admitted, foreign>>

ReadRefused(a) ==
  /\ join[a].at \in {"joining", "await"} /\ control[a] = Refused
  /\ Says(a, None) /\ Fails(a, "Refused")
  /\ UNCHANGED <<chain, book, dir, serve, admitted, foreign, faults>>

\* The joiner's pull ends.
Pulled(a) ==
  /\ join[a].at \in {"pull1", "pull2"} /\ pull[a].at \in {"synced", "nosplit"}
  /\ IF pull[a].at = "nosplit"
     THEN join' = [join EXCEPT ![a].at = "failed", ![a].why = "NoCommonHistory"]
     ELSE join' = [join EXCEPT ![a].at = IF @ = "pull1" THEN "await" ELSE "check",
                               ![a].chain = pull[a].chain]
  /\ pull' = [pull EXCEPT ![a] = Stream("none")]
  /\ conn' = [conn EXCEPT ![a] = IF pull[a].at = "nosplit" THEN "lost" ELSE @]
  /\ UNCHANGED <<chain, book, dir, serve, control, admitted, foreign, faults>>

ReadAdmitted(a) ==
  /\ join[a].at = "await" /\ control[a] # None /\ control[a].type = "Admitted"
  /\ Says(a, None)
  /\ join' = [join EXCEPT ![a].at = "pull2", ![a].digest = control[a].digest]
  /\ pull' = [pull EXCEPT ![a] = Stream("open")]
  /\ UNCHANGED <<chain, book, dir, serve, conn, admitted, foreign, faults>>

Trusts(a) == TrustedKeys(join[a].state, join[a].chain)

\* Slip: the digest on the chain is taken for the admission.
VerdictByDigest(a) ==
  IF \A i \in DOMAIN join[a].chain : join[a].chain[i].id # join[a].digest
  THEN "AdmissionMissing" ELSE "ok"

\* What join checks before it is done.
Verdict(a) ==
  CASE \A i \in DOMAIN join[a].chain : join[a].chain[i].id # join[a].digest ->
         "AdmissionMissing"
    [] Sponsor \notin Trusts(a) -> "SponsorNotTrusted"
    [] a \notin Trusts(a) -> "NotTrusted"
    [] OTHER -> "ok"

Check(a) ==
  /\ join[a].at = "check"
  /\ IF Verdict(a) = "ok" THEN Goes(a, "joined") /\ Closes(a) ELSE Fails(a, Verdict(a))
  /\ UNCHANGED <<chain, book, dir, serve, control, admitted, foreign, faults>>

\* Slip: the wait for the admission has no end of its own.
WaitsButAdmission == {"joining", "pull1", "pull2"}

\* The states every step of which a timeout or a lost connection ends.
Waits == {"joining", "pull1", "await", "pull2"}

JoinFails(a) ==
  /\ join[a].at \in Waits /\ conn[a] = "lost"
  /\ Fails(a, "Lost")
  /\ UNCHANGED <<chain, book, dir, serve, control, admitted, foreign, faults>>

\* The joiner itself fails in the middle: the sponsor not reached, its disk, a
\* refused run, a signal.
JoinBreaks(a) ==
  /\ Running(a) /\ Fault
  /\ Fails(a, "Broke")
  /\ UNCHANGED <<chain, book, dir, serve, control, admitted, foreign>>

\* The connection is lost, or a peer too slow for the other's patience.
Lost(a) ==
  /\ conn[a] = "up" /\ Fault
  /\ conn' = [conn EXCEPT ![a] = "lost"]
  /\ UNCHANGED <<chain, book, dir, join, serve, control, pull, admitted, foreign>>

-----------------------------------------------------------------------------

Init ==
  /\ now = 0
  /\ path = <<[id |-> 1, kind |-> "trust", key |-> Sponsor, at |-> 0]>>
  /\ made = 1 /\ oldest = 1
  /\ pending = {} /\ issued = {}
  /\ dir = [d \in Dirs |-> "blank"]
  /\ join = [a \in Attempts |-> [at |-> "new", dir |-> None, invite |-> None, chain |-> <<>>,
                                 state |-> {}, digest |-> None, why |-> None]]
  /\ serve = [a \in Attempts |-> None]
  /\ control = [a \in Attempts |-> None] /\ pull = [a \in Attempts |-> Stream("none")]
  /\ conn = [a \in Attempts |-> None]
  /\ admitted = {} /\ foreign = 0 /\ faults = 0

Session(a) ==
  \/ RedeemInvite(a) \/ ServePull(a) \/ Admit(a) \/ ServeFails(a) \/ ServeEnds(a)

Joiner(a) ==
  \/ ReadWelcome(a) \/ ReadRefused(a) \/ Pulled(a) \/ ReadAdmitted(a) \/ Check(a) \/ JoinFails(a)

Environment ==
  \/ \E t \in Tokens : CreateInvite(t)
  \/ \E keep \in oldest .. Len(path) :
       \/ Inserted(keep, "write", None)
       \/ \E key \in Attempts \cup {Sponsor} : Inserted(keep, "revoke", key)
  \/ \E a \in Attempts : JoinBreaks(a) \/ Lost(a)
  \/ \E a \in Attempts, d \in Dirs :
       d <= a /\ (\A b \in Attempts : b < a => join[b].at # "new") /\ PrepareJoin(a, d)
  \/ \E a \in Attempts, i \in issued : Connect(a, i)
  \/ Compact \/ Tick \/ Restart

Next == Environment \/ \E a \in Attempts : Session(a) \/ Joiner(a)

Spec == Init /\ [][Next]_vars

\* Tasks that can run do; a connection whose peer has stopped answering ends
\* by a timeout of either side.
FairSpec ==
  Spec /\ \A a \in Attempts : WF_vars(Session(a)) /\ WF_vars(Joiner(a))

-----------------------------------------------------------------------------

\* An invite that can still be redeemed names the root a Welcome would hand
\* over, through every write, reorganisation, compaction and expiry, and no
\* joiner finds another root than it was promised.
PromiseKept ==
  /\ \A p \in Live : p.root = path[oldest].id
  /\ \A a \in Attempts : join[a].why # "RootMismatch"

\* "Redeems once": no token admits two nodes, whatever is in flight when.
TokenAdmitsOne == \A x, y \in admitted : x[1] = y[1] => x = y

\* A join that reports success left a chain that grew from the promised root
\* and trusts both ends: a reorganisation or a revocation behind the Admitted
\* frame does not slip through.
JoinedIsMember ==
  \A a \in Attempts : join[a].at = "joined" =>
    /\ join[a].chain[1].id = join[a].invite.root
    /\ {a, Sponsor} \subseteq Trusts(a)
    /\ \E t \in Tokens : <<t, a>> \in admitted

\* Wherever a branch cuts the two envelopes of an admission apart, nobody is
\* listed who was not trusted before: what it signs verifies by then.
ListedIsTrusted ==
  \A i \in DOMAIN path : path[i].kind = "list" =>
    \E j \in 1 .. i - 1 : path[j].kind = "trust" /\ path[j].key = path[i].key

\* Every join and every session serving one comes to an end.
JoinsEnd ==
  \A a \in Attempts :
    /\ join[a].at = "joining" ~> join[a].at \in {"joined", "failed"}
    /\ serve[a] = "accepted" ~> serve[a] \in {"done", "failed"}

\* "A joiner that fails part-way leaves nothing in the ledger": one that never
\* got the chain is not trusted.
FailedLeavesNothing ==
  \A a \in Attempts : Len(join[a].chain) <= 1 /\ join[a].at = "failed"
    => a \notin TrustedKeys({}, path)
=============================================================================
