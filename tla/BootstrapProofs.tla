-------------------------- MODULE BootstrapProofs ---------------------------
(***************************************************************************)
(* Theorems about Bootstrap, for every number of joins and directories,    *)
(* every sequence of foreign writes, compactions, expiries, restarts and   *)
(* lost connections.                                                       *)
(***************************************************************************)
EXTENDS Bootstrap, SequenceTheorems, WellFoundedInduction, TLAPS

-----------------------------------------------------------------------------
(* The inductive invariant.                                                *)

Keys   == Attempts \cup {Sponsor}
Env    == [id : Nat, kind : {"trust", "revoke", "list", "write"}, key : Keys \cup {None}, at : Nat]
Invite == [token : Tokens, root : Nat]
Entry  == [token : Tokens, root : Nat, expires : Nat]
Frame  == [type : {"Welcome"}, root : Env, state : SUBSET Keys]
          \cup [type : {"Admitted"}, digest : Nat] \cup [type : {"Refused"}]
PullEnd == [at : {"none", "open", "closed", "synced", "nosplit"}, chain : Seq(Env)]
JoinEnd == [at : JoinStates, dir : Dirs \cup {None}, invite : Invite \cup {None},
            chain : Seq(Env), state : SUBSET Keys, digest : Nat \cup {None},
            why : Causes \cup {None}]

\* The sponsor's path: identifiers are drawn once, the log starts on it, and
\* nobody is listed who was not trusted before.
ChainOK ==
  /\ path \in Seq(Env) /\ made \in Nat /\ oldest \in 1 .. Len(path) /\ now \in Nat
  /\ \A i \in 1 .. Len(path) : path[i].id <= made
  /\ \A i, j \in 1 .. Len(path) : path[i].id = path[j].id => i = j
  /\ ListedIsTrusted

\* The book: a token is issued once, what is pending was issued, and what can
\* still be redeemed promises the root the log starts at.
BookOK ==
  /\ pending \subseteq Entry /\ issued \subseteq Invite
  /\ \A i, j \in issued : i.token = j.token => i = j
  /\ \A p \in pending : [token |-> p.token, root |-> p.root] \in issued
  /\ \A p \in Live : p.root = path[oldest].id

EndsOK ==
  /\ join \in [Attempts -> JoinEnd]
  /\ serve \in [Attempts -> ServeStates \cup {None}]
  /\ control \in [Attempts -> Frame \cup {None}]
  /\ pull \in [Attempts -> PullEnd]
  /\ conn \in [Attempts -> {"up", "lost", None}]

\* One attempt: a session serves it only once it has connected, with the
\* invite it was given; the frames and chains it is sent are that invite's;
\* and it is past the wait for its admission only when it was admitted.
AttemptOK(a) ==
  /\ join[a].at \in {"new", "prepared"} => serve[a] = None
  /\ serve[a] = None => control[a] = None /\ join[a].chain = <<>> /\ pull[a].at = "none"
  /\ serve[a] # None => join[a].invite \in issued
  /\ join[a].at \in {"joining", "pull1", "await", "pull2", "check", "joined"} => serve[a] # None
  /\ control[a] # None /\ control[a].type = "Welcome" =>
       control[a].root.id = join[a].invite.root
  /\ control[a] # None /\ control[a].type = "Admitted" =>
       <<join[a].invite.token, a>> \in admitted
  /\ join[a].at \in {"pull1", "await", "pull2", "check", "joined"} => join[a].chain # <<>>
  /\ join[a].chain # <<>> => join[a].chain[1].id = join[a].invite.root
  /\ pull[a].at = "open" => join[a].chain # <<>>
  /\ pull[a].at = "synced" =>
       pull[a].chain # <<>> /\ pull[a].chain[1].id = join[a].invite.root
  /\ join[a].at \in {"pull2", "check", "joined"} => <<join[a].invite.token, a>> \in admitted
  /\ join[a].at = "joined" => {a, Sponsor} \subseteq Trusts(a)
  /\ join[a].why # "RootMismatch"

\* An attempt whose token was redeemed.
Spent(a) ==
  /\ serve[a] # None
  /\ serve[a] \in {"pull1", "admitting"} \/ <<join[a].invite.token, a>> \in admitted

\* A redeemed token is pending no more, and only one attempt redeemed it.
TokenOK ==
  /\ \A x \in admitted : \E a \in Attempts : serve[a] # None /\ x = <<join[a].invite.token, a>>
  /\ \A a \in Attempts : Spent(a) => \A p \in pending : p.token # join[a].invite.token
  /\ \A a, b \in Attempts :
       Spent(a) /\ Spent(b) /\ join[a].invite.token = join[b].invite.token => a = b

BootInv == ChainOK /\ BookOK /\ EndsOK /\ (\A a \in Attempts : AttemptOK(a)) /\ TokenOK

-----------------------------------------------------------------------------
(* Helpers.                                                                *)

\* A set of naturals that is bounded and not empty has its greatest element.
LEMMA MaxOfBounded ==
  ASSUME NEW S \in SUBSET Nat, S # {}, NEW n \in Nat, \A x \in S : x <= n
  PROVE  Max(S) \in S /\ \A x \in S : x <= Max(S)
<1> DEFINE T == {n - x : x \in S}
           R == OpToRel(<, Nat)
<1>1. T \subseteq Nat /\ T # {}
  <2>1. \A x \in S : n - x \in Nat
    OBVIOUS
  <2>2. PICK z \in S : TRUE
    OBVIOUS
  <2>3. n - z \in T
    OBVIOUS
  <2> QED
    BY <2>1, <2>3
<1>2. IsWellFoundedOn(R, Nat)
  BY NatLessThanWellFounded
<1>3. PICK d \in T : \A y \in T : ~ (<<y, d>> \in R)
  <2> HIDE DEF T, R
  <2> QED
    BY <1>1, <1>2, WFMin
<1>4. \A y \in T : d <= y
  <2> SUFFICES ASSUME NEW y \in T, y < d PROVE FALSE
    BY <1>1
  <2>1. y \in Nat /\ d \in Nat
    BY <1>1
  <2>2. <<y, d>> \in R
    BY <2>1 DEF OpToRel
  <2> QED
    BY <1>3, <2>2
<1>5. PICK m \in S : d = n - m
  OBVIOUS
<1>6. ASSUME NEW x \in S
      PROVE  x <= m
  <2>1. n - x \in T
    OBVIOUS
  <2>2. n - m <= n - x
    BY <1>4, <1>5, <2>1
  <2> QED
    BY <2>2
<1>7. \E z \in S : \A x \in S : z >= x
  BY <1>6
<1>8. Max(S) \in S /\ \A x \in S : Max(S) >= x
  BY <1>7 DEF Max
<1>9. \A x \in S : Max(S) >= x => x <= Max(S)
  BY <1>8
<1> QED
  BY <1>8, <1>9

\* The path after a change that keeps it up to some envelope of the log.
LEMMA PathChanges ==
  ASSUME ChainOK, NEW keep \in oldest .. Len(path), made' \in Nat, made <= made',
         path' \in Seq(Env), Len(path') >= keep, \A i \in 1 .. keep : path'[i] = path[i],
         \A i \in keep + 1 .. Len(path') : path'[i].id \in made + 1 .. made',
         \A i, j \in keep + 1 .. Len(path') : path'[i].id = path'[j].id => i = j,
         \A i \in keep + 1 .. Len(path') : path'[i].kind = "list" =>
           \E j \in 1 .. i - 1 : path'[j].kind = "trust" /\ path'[j].key = path'[i].key,
         UNCHANGED <<oldest, now>>
  PROVE  ChainOK' /\ path'[oldest'] = path[oldest]
<1>1. /\ Len(path) \in Nat /\ Len(path') \in Nat /\ keep \in 1 .. Len(path)
      /\ DOMAIN path = 1 .. Len(path) /\ DOMAIN path' = 1 .. Len(path')
      /\ oldest \in 1 .. Len(path) /\ made \in Nat
  BY DEF ChainOK
<1>2. \A i \in 1 .. Len(path') : i \in 1 .. keep \/ i \in keep + 1 .. Len(path')
  BY <1>1
<1>3. \A i \in 1 .. keep : path[i].id \in Nat /\ path[i].id <= made /\ i \in 1 .. Len(path)
  <2>1. \A i \in 1 .. keep : i \in 1 .. Len(path)
    BY <1>1
  <2>2. \A i \in 1 .. Len(path) : path[i] \in Env
    BY ElementOfSeq DEF ChainOK
  <2>3. \A e \in Env : e.id \in Nat
    BY DEF Env
  <2> QED
    BY <2>1, <2>2, <2>3 DEF ChainOK
<1>4. \A i \in 1 .. Len(path') : path'[i].id <= made'
  <2>1. \A i \in 1 .. keep : path'[i].id <= made'
    BY <1>1, <1>3
  <2>2. \A i \in keep + 1 .. Len(path') : path'[i].id <= made'
    BY <1>1
  <2> QED
    BY <1>2, <2>1, <2>2
<1>5. ASSUME NEW i \in 1 .. Len(path'), NEW j \in 1 .. Len(path'), path'[i].id = path'[j].id
      PROVE  i = j
  <2>1. CASE i \in 1 .. keep /\ j \in 1 .. keep
    BY <1>3, <1>5, <2>1 DEF ChainOK
  <2>2. CASE i \in keep + 1 .. Len(path') /\ j \in keep + 1 .. Len(path')
    BY <1>5, <2>2
  <2>3. CASE i \in 1 .. keep /\ j \in keep + 1 .. Len(path')
    <3>1. path'[i].id <= made /\ path'[i].id \in Nat /\ path'[j].id \in made + 1 .. made'
      BY <1>3, <2>3
    <3> QED
      BY <1>1, <1>5, <3>1
  <2>4. CASE j \in 1 .. keep /\ i \in keep + 1 .. Len(path')
    <3>1. path'[j].id <= made /\ path'[j].id \in Nat /\ path'[i].id \in made + 1 .. made'
      BY <1>3, <2>4
    <3> QED
      BY <1>1, <1>5, <3>1
  <2> QED
    BY <1>2, <2>1, <2>2, <2>3, <2>4
<1>6. ListedIsTrusted'
  <2>1. ASSUME NEW i \in 1 .. Len(path'), path'[i].kind = "list"
        PROVE  \E j \in 1 .. i - 1 : path'[j].kind = "trust" /\ path'[j].key = path'[i].key
    <3>1. CASE i \in 1 .. keep
      <4>1. path'[i] = path[i] /\ i \in DOMAIN path
        BY <1>1, <1>3, <3>1
      <4>2. PICK j \in 1 .. i - 1 : path[j].kind = "trust" /\ path[j].key = path[i].key
        BY <2>1, <4>1 DEF ChainOK, ListedIsTrusted
      <4>3. j \in 1 .. keep
        BY <1>1, <3>1
      <4>4. path'[j] = path[j]
        BY <4>3
      <4> QED
        BY <4>1, <4>2, <4>4
    <3>2. CASE i \in keep + 1 .. Len(path')
      BY <2>1, <3>2
    <3> QED
      BY <1>2, <3>1, <3>2
  <2> QED
    BY <1>1, <2>1 DEF ListedIsTrusted
<1>7. oldest' \in 1 .. Len(path') /\ now' \in Nat
  BY <1>1 DEF ChainOK
<1>8. path'[oldest'] = path[oldest]
  BY <1>1
<1> QED
  BY <1>4, <1>5, <1>6, <1>7, <1>8 DEF ChainOK

\* An envelope of this moment.
LEMMA EnvelopeType ==
  ASSUME ChainOK, NEW id \in Nat, NEW kind \in {"trust", "revoke", "list", "write"},
         NEW key \in Keys \cup {None}
  PROVE  /\ Envelope(id, kind, key) \in Env /\ Envelope(id, kind, key).id = id
         /\ Envelope(id, kind, key).kind = kind /\ Envelope(id, kind, key).key = key
BY DEF ChainOK, Envelope, Env

\* One envelope, listing nobody, on top of what is kept.
LEMMA PathAppends ==
  ASSUME ChainOK, NEW keep \in oldest .. Len(path), NEW e \in Env,
         e.id = made + 1, e.kind # "list",
         path' = Append(SubSeq(path, 1, keep), e), made' = made + 1,
         UNCHANGED <<oldest, now>>
  PROVE  ChainOK' /\ path'[oldest'] = path[oldest]
<1>1. /\ path \in Seq(Env) /\ Len(path) \in Nat /\ keep \in 1 .. Len(path) /\ keep \in Nat
      /\ made \in Nat
  BY DEF ChainOK
<1> DEFINE s == SubSeq(path, 1, keep)
<1>2. \A i \in 1 .. keep : path[i] \in Env
  BY <1>1
<1>3. s \in Seq(Env) /\ Len(s) = keep /\ \A i \in 1 .. keep : s[i] = path[i]
  <2>1. /\ s \in Seq(Env) /\ Len(s) = IF 1 <= keep THEN keep - 1 + 1 ELSE 0
        /\ \A i \in 1 .. keep - 1 + 1 : s[i] = path[1 + i - 1]
    BY <1>1, <1>2, SubSeqProperties
  <2>2. \A i \in 1 .. keep : i \in 1 .. keep - 1 + 1 /\ 1 + i - 1 = i
    BY <1>1
  <2>3. keep - 1 + 1 = keep /\ 1 <= keep
    BY <1>1
  <2> HIDE DEF s
  <2> QED
    BY <2>1, <2>2, <2>3
<1> HIDE DEF s
<1>4. path' = Append(s, e)
  BY DEF s
<1>5. /\ path' \in Seq(Env) /\ Len(path') = keep + 1
      /\ \A i \in 1 .. keep : path'[i] = path[i]
      /\ path'[keep + 1] = e
  BY <1>1, <1>3, <1>4
<1>6. \A i \in keep + 1 .. Len(path') : i = keep + 1
  BY <1>1, <1>5
<1>7. /\ \A i \in keep + 1 .. Len(path') : path'[i].id \in made + 1 .. made'
      /\ \A i, j \in keep + 1 .. Len(path') : path'[i].id = path'[j].id => i = j
      /\ \A i \in keep + 1 .. Len(path') : path'[i].kind # "list"
  BY <1>1, <1>5, <1>6
<1>8. made' \in Nat /\ made <= made' /\ Len(path') >= keep
  BY <1>1, <1>5
<1> QED
  BY <1>5, <1>7, <1>8, PathChanges

\* What is promised of an attempt that stands still.
LEMMA AttemptKept ==
  ASSUME NEW b \in Attempts, AttemptOK(b),
         join'[b] = join[b], serve'[b] = serve[b], control'[b] = control[b],
         pull'[b] = pull[b], issued \subseteq issued', admitted \subseteq admitted'
  PROVE  AttemptOK(b)'
BY DEF AttemptOK, Trusts

\* A book that only loses invites, under the same root.
LEMMA BookShrinks ==
  ASSUME ChainOK, BookOK, pending' \subseteq pending, now' \in Nat, now <= now',
         UNCHANGED issued, path'[oldest'].id = path[oldest].id
  PROVE  BookOK'
<1>1. \A p \in Live' : p \in Live
  <2> SUFFICES ASSUME NEW p \in pending', p.expires > now' PROVE p \in pending /\ p.expires > now
    BY DEF Live
  <2>1. p \in pending /\ p.expires \in Nat
    BY DEF BookOK, Entry
  <2> QED
    BY <2>1 DEF ChainOK
<1> QED
  BY <1>1 DEF BookOK

\* Tokens, when no attempt changes its invite or comes to have redeemed it.
LEMMA TokensKept ==
  ASSUME TokenOK, pending' \subseteq pending, UNCHANGED admitted,
         \A b \in Attempts :
           /\ join'[b].invite = join[b].invite
           /\ serve[b] # None => serve'[b] # None
           /\ Spent(b)' => Spent(b)
  PROVE  TokenOK'
<1>1. \A x \in admitted' : \E a \in Attempts : serve'[a] # None /\ x = <<join'[a].invite.token, a>>
  BY DEF TokenOK
<1>2. \A a \in Attempts : Spent(a)' => \A p \in pending' : p.token # join'[a].invite.token
  BY DEF TokenOK
<1>3. \A a, b \in Attempts :
       Spent(a)' /\ Spent(b)' /\ join'[a].invite.token = join'[b].invite.token => a = b
  BY DEF TokenOK
<1> QED
  BY <1>1, <1>2, <1>3 DEF TokenOK

\* Ends that stand still.
LEMMA EndsKept ==
  ASSUME BootInv, UNCHANGED <<join, serve, control, pull, conn, admitted>>,
         issued \subseteq issued'
  PROVE  EndsOK' /\ \A b \in Attempts : AttemptOK(b)'
<1>1. EndsOK'
  BY DEF BootInv, EndsOK
<1>2. ASSUME NEW b \in Attempts PROVE AttemptOK(b)'
  BY AttemptKept DEF BootInv
<1> QED
  BY <1>1, <1>2

\* A step of one attempt that redeems and admits nothing.
LEMMA AttemptStep ==
  ASSUME BootInv, NEW a \in Attempts, UNCHANGED <<chain, book, admitted>>, EndsOK',
         \A b \in Attempts : b # a =>
           /\ join'[b] = join[b] /\ serve'[b] = serve[b]
           /\ control'[b] = control[b] /\ pull'[b] = pull[b],
         join'[a].invite = join[a].invite,
         serve[a] # None => serve'[a] # None,
         serve'[a] \in {"pull1", "admitting"} => serve[a] \in {"pull1", "admitting"},
         AttemptOK(a)'
  PROVE  BootInv'
<1>1. UNCHANGED <<path, made, oldest, pending, issued, now>>
  BY DEF chain, book
<1>2. ChainOK'
  BY <1>1 DEF BootInv, ChainOK, ListedIsTrusted
<1>3. BookOK'
  BY <1>1 DEF BootInv, BookOK, Live
<1>4. ASSUME NEW b \in Attempts PROVE AttemptOK(b)'
  BY <1>1, AttemptKept DEF BootInv
<1>5. ASSUME NEW b \in Attempts
      PROVE  /\ join'[b].invite = join[b].invite
             /\ serve[b] # None => serve'[b] # None
             /\ Spent(b)' => Spent(b)
  <2>1. CASE b # a
    BY <2>1 DEF Spent
  <2>2. CASE b = a
    <3>1. \A x \in admitted : x[2] = a => serve[a] # None
      BY DEF BootInv, TokenOK
    <3>2. <<join[a].invite.token, a>> \in admitted => serve[a] # None
      BY <3>1
    <3>3. serve[a] \in {"pull1", "admitting"} => serve[a] # None
      BY NoneAssumption DEF ServeStates
    <3> QED
      BY <2>2, <3>2, <3>3 DEF Spent
  <2> QED
    BY <2>1, <2>2
<1>6. TokenOK'
  BY <1>1, <1>5, TokensKept DEF BootInv
<1> QED
  BY <1>2, <1>3, <1>4, <1>6 DEF BootInv

-----------------------------------------------------------------------------
(* Init, the sponsor's chain and its book.                                 *)

LEMMA InvInit == Init => BootInv
<1> SUFFICES ASSUME Init PROVE BootInv
  OBVIOUS
<1> DEFINE e == [id |-> 1, kind |-> "trust", key |-> Sponsor, at |-> 0]
<1>1. e \in Env /\ e.id = 1 /\ e.kind = "trust"
  BY DEF Env, Keys
<1>2. path = <<e>>
  BY DEF Init
<1> HIDE DEF e
<1>3. path \in Seq(Env) /\ Len(path) = 1 /\ DOMAIN path = 1 .. 1 /\ path[1] = e
  BY <1>1, <1>2
<1>4. \A i \in 1 .. 1 : i = 1
  OBVIOUS
<1>5. ListedIsTrusted
  BY <1>1, <1>3, <1>4 DEF ListedIsTrusted
<1>6. ChainOK
  BY <1>1, <1>3, <1>4, <1>5 DEF ChainOK, Init
<1>7. BookOK
  BY DEF Init, BookOK, Live
<1>8. EndsOK
  <2>1. <<>> \in Seq(Env)
    BY EmptySeq
  <2>2. Stream("none") \in PullEnd
    BY <2>1 DEF Stream, PullEnd
  <2> QED
    BY <2>1, <2>2 DEF Init, EndsOK, JoinEnd, JoinStates
<1>9. ASSUME NEW a \in Attempts PROVE AttemptOK(a)
  <2>1. /\ join[a].at = "new" /\ join[a].chain = <<>> /\ join[a].why = None
        /\ serve[a] = None /\ control[a] = None /\ pull[a].at = "none"
    BY DEF Init, Stream
  <2>2. join[a].why # "RootMismatch"
    BY <2>1, NoneAssumption DEF Causes
  <2> QED
    BY <2>1, <2>2 DEF AttemptOK
<1>10. TokenOK
  BY DEF Init, TokenOK, Spent
<1> QED
  BY <1>6, <1>7, <1>8, <1>9, <1>10 DEF BootInv

LEMMA TickInv ==
  ASSUME BootInv, Tick
  PROVE  BootInv'
<1>1. /\ UNCHANGED <<path, made, oldest, pending, issued, join, serve, control, pull, conn, admitted>>
      /\ now' = now + 1
  BY DEF Tick, chain, ends
<1>2. ChainOK' /\ now <= now'
  BY <1>1 DEF BootInv, ChainOK, ListedIsTrusted
<1>3. BookOK'
  BY <1>1, <1>2, BookShrinks DEF BootInv, ChainOK
<1>4. EndsOK' /\ \A b \in Attempts : AttemptOK(b)'
  BY <1>1, EndsKept
<1>5. TokenOK'
  BY <1>1 DEF BootInv, TokenOK, Spent
<1> QED
  BY <1>2, <1>3, <1>4, <1>5 DEF BootInv

LEMMA InsertedInv ==
  ASSUME BootInv, NEW keep \in oldest .. Len(path), NEW kind \in {"write", "revoke"},
         NEW key \in Keys \cup {None}, Inserted(keep, kind, key)
  PROVE  BootInv'
<1>1. /\ UNCHANGED <<oldest, pending, issued, now, join, serve, control, pull, conn, admitted>>
      /\ made' = made + 1
      /\ path' = Append(SubSeq(path, 1, keep), Envelope(made + 1, kind, key))
  BY DEF Inserted, book, ends
<1>2. ChainOK' /\ path'[oldest'] = path[oldest]
  <2>1. made + 1 \in Nat
    BY DEF BootInv, ChainOK
  <2>2. /\ Envelope(made + 1, kind, key) \in Env
        /\ Envelope(made + 1, kind, key).id = made + 1
        /\ Envelope(made + 1, kind, key).kind # "list"
    BY <2>1, EnvelopeType DEF BootInv
  <2> QED
    BY <1>1, <2>2, PathAppends DEF BootInv
<1>3. BookOK'
  BY <1>1, <1>2, BookShrinks DEF BootInv, ChainOK
<1>4. EndsOK' /\ \A b \in Attempts : AttemptOK(b)'
  BY <1>1, EndsKept
<1>5. TokenOK'
  BY <1>1 DEF BootInv, TokenOK, Spent
<1> QED
  BY <1>2, <1>3, <1>4, <1>5 DEF BootInv

LEMMA CreateInviteInv ==
  ASSUME BootInv, NEW t \in Tokens, CreateInvite(t)
  PROVE  BootInv'
<1> DEFINE root == path[oldest].id
           new  == [token |-> t, root |-> root, expires |-> now + TTL]
           inv  == [token |-> t, root |-> root]
<1>1. /\ UNCHANGED <<path, made, oldest, now, join, serve, control, pull, conn, admitted>>
      /\ \A i \in issued : i.token # t
      /\ pending' = Live \cup {new} /\ issued' = issued \cup {inv}
  BY DEF CreateInvite, Issue, chain, ends
<1>2. root \in Nat /\ now + TTL \in Nat
  <2>1. path[oldest] \in Env
    BY ElementOfSeq DEF BootInv, ChainOK
  <2> QED
    BY <2>1, BootstrapAssumption DEF BootInv, ChainOK, Env
<1>3. /\ new \in Entry /\ inv \in Invite /\ new.token = t /\ new.root = root /\ inv.token = t
      /\ [token |-> new.token, root |-> new.root] = inv
  BY <1>2 DEF Entry, Invite
<1>4. Live \subseteq pending
  BY DEF Live
<1>5. ChainOK'
  BY <1>1 DEF BootInv, ChainOK, ListedIsTrusted
<1> HIDE DEF new, inv
<1>6. BookOK'
  <2>1. pending' \subseteq Entry /\ issued' \subseteq Invite
    BY <1>1, <1>3, <1>4 DEF BootInv, BookOK
  <2>2. \A i, j \in issued' : i.token = j.token => i = j
    BY <1>1, <1>3 DEF BootInv, BookOK
  <2>3. \A p \in pending' : [token |-> p.token, root |-> p.root] \in issued'
    BY <1>1, <1>3, <1>4 DEF BootInv, BookOK
  <2>4. \A p \in Live' : p \in Live \/ p = new
    BY <1>1 DEF Live
  <2>5. \A p \in Live' : p.root = path'[oldest'].id
    BY <1>1, <1>3, <2>4 DEF BootInv, BookOK
  <2> QED
    BY <2>1, <2>2, <2>3, <2>5 DEF BookOK
<1>7. EndsOK' /\ \A b \in Attempts : AttemptOK(b)'
  BY <1>1, EndsKept
<1>8. TokenOK'
  <2>1. \A x \in admitted' : \E a \in Attempts : serve'[a] # None /\ x = <<join'[a].invite.token, a>>
    BY <1>1 DEF BootInv, TokenOK
  <2>2. \A a \in Attempts : Spent(a)' <=> Spent(a)
    BY <1>1 DEF Spent
  <2>3. ASSUME NEW a \in Attempts, Spent(a), NEW p \in pending'
        PROVE  p.token # join[a].invite.token
    <3>1. CASE p \in pending
      BY <2>3, <3>1 DEF BootInv, TokenOK
    <3>2. CASE p = new
      <4>1. join[a].invite \in issued
        BY <2>3 DEF Spent, BootInv, AttemptOK
      <4> QED
        BY <1>1, <1>3, <3>2, <4>1
    <3> QED
      BY <1>1, <1>4, <3>1, <3>2
  <2>4. \A a \in Attempts : Spent(a)' => \A p \in pending' : p.token # join'[a].invite.token
    BY <1>1, <2>2, <2>3
  <2>5. \A a, b \in Attempts :
         Spent(a)' /\ Spent(b)' /\ join'[a].invite.token = join'[b].invite.token => a = b
    BY <1>1, <2>2 DEF BootInv, TokenOK
  <2> QED
    BY <2>1, <2>4, <2>5 DEF TokenOK
<1> QED
  BY <1>5, <1>6, <1>7, <1>8 DEF BootInv

\* A cut above the oldest envelope is made only when nothing is promised: a
\* promised root would have to be above the cut, and it is the oldest.
LEMMA CompactInv ==
  ASSUME BootInv, Compact
  PROVE  BootInv'
<1> DEFINE cutoff == now - Floor
           unseen(i) == PinnedRoots \ {path[j].id : j \in i + 1 .. Len(path)}
           fails == {i \in oldest .. Len(path) : /\ unseen(i) = {}
                                                 /\ Len(path) - i >= Keep
                                                 /\ path[i].at < cutoff}
<1>1. /\ UNCHANGED <<path, made, pending, issued, now, join, serve, control, pull, conn, admitted>>
      /\ oldest' = ChooseCut(cutoff) /\ ChooseCut(cutoff) # None
  BY DEF Compact, book, ends
<1>2. ChooseCut(cutoff) = IF fails = {} THEN None ELSE 1 + Max(fails)
  BY DEF ChooseCut
<1>3. fails # {} /\ oldest' = 1 + Max(fails)
  BY <1>1, <1>2
<1>4. Len(path) \in Nat /\ oldest \in 1 .. Len(path) /\ Keep \in Nat \ {0}
  BY BootstrapAssumption DEF BootInv, ChainOK
<1>5. fails \in SUBSET Nat /\ \A x \in fails : x <= Len(path)
  BY <1>4
<1> DEFINE m == Max(fails)
<1>6. m \in fails
  <2> HIDE DEF fails
  <2> QED
    BY <1>3, <1>4, <1>5, MaxOfBounded
<1>7. m \in oldest .. Len(path) /\ unseen(m) = {} /\ Len(path) - m >= Keep
  BY <1>6
<1> HIDE DEF m, fails
<1>8. oldest' = 1 + m
  BY <1>3 DEF m
<1>9. oldest' \in 1 .. Len(path)
  BY <1>4, <1>7, <1>8
<1>10. ChainOK'
  BY <1>1, <1>9 DEF BootInv, ChainOK, ListedIsTrusted
<1>11. ASSUME NEW p \in Live PROVE FALSE
  <2>1. p.root \in PinnedRoots /\ p.root = path[oldest].id
    BY DEF PinnedRoots, BootInv, BookOK
  <2>2. PICK j \in m + 1 .. Len(path) : path[j].id = p.root
    BY <1>7, <2>1
  <2>3. j \in 1 .. Len(path) /\ j # oldest
    BY <1>4, <1>7
  <2> QED
    BY <1>4, <2>1, <2>2, <2>3 DEF BootInv, ChainOK
<1>12. BookOK'
  <2>1. \A p \in Live' : p \in Live
    BY <1>1 DEF Live
  <2> QED
    BY <1>1, <1>11, <2>1 DEF BootInv, BookOK
<1>13. EndsOK' /\ \A b \in Attempts : AttemptOK(b)'
  BY <1>1, EndsKept
<1>14. TokenOK'
  BY <1>1 DEF BootInv, TokenOK, Spent
<1> QED
  BY <1>10, <1>12, <1>13, <1>14 DEF BootInv

LEMMA RestartInv ==
  ASSUME BootInv, Restart
  PROVE  BootInv'
<1>1. /\ UNCHANGED <<path, made, oldest, issued, now, join, control, pull, admitted>>
      /\ pending' = {}
      /\ serve' = [a \in Attempts |-> IF serve[a] \in {"done", None} THEN serve[a] ELSE "failed"]
      /\ conn' = [a \in Attempts |-> IF conn[a] = "up" THEN "lost" ELSE conn[a]]
  BY DEF Restart, chain
<1>2. \A a \in Attempts : /\ serve'[a] = None <=> serve[a] = None
                          /\ serve'[a] \in ServeStates \cup {None}
                          /\ serve'[a] \notin {"pull1", "admitting"} \/ serve'[a] = None
  BY <1>1, NoneAssumption DEF ServeStates, BootInv, EndsOK
<1>3. ChainOK'
  BY <1>1 DEF BootInv, ChainOK, ListedIsTrusted
<1>4. BookOK'
  BY <1>1 DEF BootInv, BookOK, Live
<1>5. EndsOK'
  BY <1>1, <1>2 DEF BootInv, EndsOK
<1>6. ASSUME NEW b \in Attempts PROVE AttemptOK(b)'
  BY <1>1, <1>2 DEF BootInv, AttemptOK, Trusts
<1>7. ASSUME NEW b \in Attempts
      PROVE  /\ join'[b].invite = join[b].invite
             /\ serve[b] # None => serve'[b] # None
             /\ Spent(b)' => Spent(b)
  BY <1>1, <1>2 DEF Spent
<1>8. TokenOK'
  BY <1>1, <1>7, TokensKept DEF BootInv
<1> QED
  BY <1>3, <1>4, <1>5, <1>6, <1>8 DEF BootInv

-----------------------------------------------------------------------------
(* Steps that give an attempt its invite, its session or its admission.    *)

LEMMA ConnectInv ==
  ASSUME BootInv, NEW a \in Attempts, NEW i \in issued, Connect(a, i)
  PROVE  BootInv'
<1>1. /\ UNCHANGED <<path, made, oldest, pending, issued, now, control, pull, admitted>>
      /\ join[a].at = "prepared"
      /\ join' = [join EXCEPT ![a].at = "joining", ![a].invite = i]
      /\ serve' = [serve EXCEPT ![a] = "accepted"] /\ conn' = [conn EXCEPT ![a] = "up"]
  BY DEF Connect, Serves, chain, book
<1>2. join[a] \in JoinEnd /\ i \in Invite
  BY DEF BootInv, EndsOK, BookOK
<1> DEFINE r == [join[a] EXCEPT !.at = "joining", !.invite = i]
<1>3. join' = [join EXCEPT ![a] = r]
  BY <1>1, <1>2 DEF BootInv, EndsOK
<1>4. /\ r \in JoinEnd /\ r.at = "joining" /\ r.invite = i /\ r.chain = join[a].chain
      /\ r.why = join[a].why
  BY <1>2 DEF JoinEnd, JoinStates
<1> HIDE DEF r
<1>5. EndsOK'
  BY <1>1, <1>3, <1>4 DEF BootInv, EndsOK, ServeStates
<1>6. /\ join'[a] = r /\ serve'[a] = "accepted"
      /\ \A b \in Attempts : b # a => join'[b] = join[b] /\ serve'[b] = serve[b]
  BY <1>1, <1>3 DEF BootInv, EndsOK
<1>7. ChainOK' /\ BookOK'
  BY <1>1 DEF BootInv, ChainOK, ListedIsTrusted, BookOK, Live
<1>8. /\ serve[a] = None /\ control[a] = None /\ serve'[a] # None
      /\ join[a].chain = <<>> /\ pull[a].at = "none"
  BY <1>1, <1>6, NoneAssumption DEF BootInv, AttemptOK, ServeStates
<1>9. AttemptOK(a)'
  <2>1. join[a].why # "RootMismatch"
    BY DEF BootInv, AttemptOK
  <2>2. /\ join'[a].at = "joining" /\ join'[a].chain = <<>> /\ join'[a].invite \in issued'
        /\ control'[a] = None /\ pull'[a].at = "none" /\ join'[a].why # "RootMismatch"
    BY <1>1, <1>4, <1>6, <1>8, <2>1
  <2> QED
    BY <1>8, <2>2 DEF AttemptOK
<1>10. ASSUME NEW b \in Attempts PROVE AttemptOK(b)'
  BY <1>1, <1>6, <1>9, AttemptKept DEF BootInv
<1>11. \A x \in admitted : \E b \in Attempts : /\ b # a /\ serve[b] # None
                                              /\ x = <<join[b].invite.token, b>>
  BY <1>8 DEF BootInv, TokenOK
<1>12. ~Spent(a)'
  <2>1. <<join'[a].invite.token, a>> \notin admitted
    BY <1>11
  <2> QED
    BY <1>1, <1>6, <2>1 DEF Spent
<1>13. \A b \in Attempts : b # a => (Spent(b)' <=> Spent(b))
  BY <1>1, <1>6 DEF Spent
<1>14. TokenOK'
  <2>1. \A x \in admitted' : \E b \in Attempts : serve'[b] # None /\ x = <<join'[b].invite.token, b>>
    BY <1>1, <1>6, <1>11
  <2>2. \A b \in Attempts : Spent(b)' => \A p \in pending' : p.token # join'[b].invite.token
    <3> SUFFICES ASSUME NEW b \in Attempts, Spent(b)'
                 PROVE  \A p \in pending' : p.token # join'[b].invite.token
      OBVIOUS
    <3>1. b # a /\ Spent(b)
      BY <1>12, <1>13
    <3> QED
      BY <1>1, <1>6, <3>1 DEF BootInv, TokenOK
  <2>3. \A b, d \in Attempts :
         Spent(b)' /\ Spent(d)' /\ join'[b].invite.token = join'[d].invite.token => b = d
    BY <1>1, <1>6, <1>12, <1>13 DEF BootInv, TokenOK
  <2> QED
    BY <2>1, <2>2, <2>3 DEF TokenOK
<1> QED
  BY <1>5, <1>7, <1>10, <1>14 DEF BootInv

LEMMA FrameTypes ==
  ASSUME BootInv
  PROVE  /\ Welcome \in Frame /\ Welcome.type = "Welcome" /\ Welcome.root = path[oldest]
         /\ Refused \in Frame /\ Refused.type = "Refused"
         /\ \A id \in Nat : Admitted(id) \in Frame /\ Admitted(id).type = "Admitted"
<1>1. path[oldest] \in Env
  BY ElementOfSeq DEF BootInv, ChainOK
<1>2. TrustedKeys({}, SubSeq(path, 1, oldest)) \in SUBSET Keys
  BY DEF TrustedKeys, Keys
<1>3. Welcome \in [type : {"Welcome"}, root : Env, state : SUBSET Keys]
  BY <1>1, <1>2 DEF Welcome
<1>4. Welcome.type = "Welcome" /\ Welcome.root = path[oldest]
  BY DEF Welcome
<1>5. Refused \in [type : {"Refused"}] /\ Refused.type = "Refused"
  BY DEF Refused
<1>6. \A id \in Nat : /\ Admitted(id) \in [type : {"Admitted"}, digest : Nat]
                      /\ Admitted(id).type = "Admitted"
  BY DEF Admitted
<1> QED
  BY <1>3, <1>4, <1>5, <1>6 DEF Frame

LEMMA RedeemInviteInv ==
  ASSUME BootInv, NEW a \in Attempts, RedeemInvite(a)
  PROVE  BootInv'
<1> DEFINE found == {p \in pending : p.token = join[a].invite.token}
<1>1. /\ UNCHANGED <<path, made, oldest, issued, now, join, pull, conn, admitted>>
      /\ serve[a] = "accepted" /\ pending' = Live \ found
      /\ \/ /\ found \cap Live # {}
            /\ control' = [control EXCEPT ![a] = Welcome] /\ serve' = [serve EXCEPT ![a] = "pull1"]
         \/ /\ control' = [control EXCEPT ![a] = Refused] /\ serve' = [serve EXCEPT ![a] = "failed"]
  BY DEF RedeemInvite, Consumed, Says, Serves, chain
<1>2. pending' \subseteq pending /\ \A p \in pending' : p.token # join[a].invite.token
  BY <1>1 DEF Live
<1>3. ChainOK'
  BY <1>1 DEF BootInv, ChainOK, ListedIsTrusted
<1>4. BookOK'
  BY <1>1, <1>2, BookShrinks DEF BootInv, ChainOK
<1>5. EndsOK'
  BY <1>1, FrameTypes DEF BootInv, EndsOK, ServeStates
<1>6. \A b \in Attempts : b # a => serve'[b] = serve[b] /\ control'[b] = control[b]
  BY <1>1 DEF BootInv, EndsOK
<1>7. serve[a] # None /\ serve'[a] # None /\ join[a].invite \in issued
  <2>1. serve[a] # None /\ serve'[a] # None
    BY <1>1, NoneAssumption DEF BootInv, EndsOK, ServeStates
  <2> QED
    BY <2>1 DEF BootInv, AttemptOK
<1>8. control'[a] # None /\ control'[a].type = "Welcome" =>
        /\ control'[a].root.id = join[a].invite.root
        /\ found \cap Live # {} /\ serve'[a] = "pull1"
  <2>1. CASE control' = [control EXCEPT ![a] = Refused]
    BY <2>1, FrameTypes DEF BootInv, EndsOK
  <2>2. CASE /\ found \cap Live # {}
             /\ control' = [control EXCEPT ![a] = Welcome] /\ serve' = [serve EXCEPT ![a] = "pull1"]
    <3>1. PICK p \in Live : p \in pending /\ p.token = join[a].invite.token
      BY <2>2
    <3>2. [token |-> p.token, root |-> p.root] = join[a].invite
      <4>1. [token |-> p.token, root |-> p.root] \in issued
        BY <3>1 DEF BootInv, BookOK
      <4>2. [token |-> p.token, root |-> p.root].token = p.token
        OBVIOUS
      <4> QED
        BY <1>7, <3>1, <4>1, <4>2 DEF BootInv, BookOK
    <3>3. join[a].invite.root = p.root
      <4>1. [token |-> p.token, root |-> p.root].root = p.root
        OBVIOUS
      <4> QED
        BY <3>2, <4>1
    <3>4. p.root = path[oldest].id
      BY DEF BootInv, BookOK
    <3>5. control'[a] = Welcome /\ serve'[a] = "pull1"
      BY <2>2 DEF BootInv, EndsOK
    <3> QED
      BY <2>2, <3>3, <3>4, <3>5, FrameTypes
  <2> QED
    BY <1>1, <2>1, <2>2
<1>9. control'[a] # None => control'[a].type # "Admitted"
  BY <1>1, FrameTypes DEF BootInv, EndsOK
<1>10. AttemptOK(a)'
  BY <1>1, <1>7, <1>8, <1>9 DEF BootInv, AttemptOK, Trusts
<1>11. ASSUME NEW b \in Attempts PROVE AttemptOK(b)'
  BY <1>1, <1>6, <1>10, AttemptKept DEF BootInv
<1>12. CASE serve'[a] = "failed"
  <2>1. "failed" \notin {"pull1", "admitting"}
    OBVIOUS
  <2>2. ASSUME NEW b \in Attempts
        PROVE  /\ join'[b].invite = join[b].invite
               /\ serve[b] # None => serve'[b] # None
               /\ Spent(b)' => Spent(b)
    BY <1>1, <1>6, <1>7, <1>12, <2>1 DEF Spent
  <2>3. TokenOK'
    BY <1>1, <1>2, <2>2, TokensKept DEF BootInv
  <2> QED
    BY <1>3, <1>4, <1>5, <1>11, <2>3 DEF BootInv
<1>13. CASE found \cap Live # {}
  <2>1. PICK p \in pending : p.token = join[a].invite.token
    BY <1>13
  <2>2. \A b \in Attempts : Spent(b) => join[b].invite.token # join[a].invite.token
    BY <2>1 DEF BootInv, TokenOK
  <2>3. \A b \in Attempts : b # a => (Spent(b)' <=> Spent(b))
    BY <1>1, <1>6 DEF Spent
  <2>4. \A x \in admitted' : \E b \in Attempts : serve'[b] # None /\ x = <<join'[b].invite.token, b>>
    BY <1>1, <1>6, <1>7 DEF BootInv, TokenOK
  <2>5. \A b \in Attempts : Spent(b)' => \A q \in pending' : q.token # join'[b].invite.token
    BY <1>1, <1>2, <2>3 DEF BootInv, TokenOK
  <2>6. \A b, d \in Attempts :
         Spent(b)' /\ Spent(d)' /\ join'[b].invite.token = join'[d].invite.token => b = d
    <3> SUFFICES ASSUME NEW b \in Attempts, NEW d \in Attempts, Spent(b)', Spent(d)',
                        join[b].invite.token = join[d].invite.token
                 PROVE  b = d
      BY <1>1
    <3>1. CASE b # a /\ d # a
      BY <2>3, <3>1 DEF BootInv, TokenOK
    <3>2. CASE b = a \/ d = a
      BY <2>2, <2>3, <3>2
    <3> QED
      BY <3>1, <3>2
  <2>7. TokenOK'
    BY <2>4, <2>5, <2>6 DEF TokenOK
  <2> QED
    BY <1>3, <1>4, <1>5, <1>11, <2>7 DEF BootInv
<1> QED
  BY <1>1, <1>12, <1>13 DEF BootInv, EndsOK

\* The two envelopes of an admission, on the head.
LEMMA PathAdmits ==
  ASSUME ChainOK, NEW a \in Attempts, path' = path \o Admission(a), made' = made + 2,
         UNCHANGED <<oldest, now>>
  PROVE  ChainOK' /\ path'[oldest'] = path[oldest]
<1> DEFINE n == Len(path)
           e == Envelope(made + 1, "trust", a)
           f == Envelope(made + 2, "list", a)
<1>1. path \in Seq(Env) /\ n \in Nat /\ n \in oldest .. Len(path) /\ made \in Nat
  BY DEF ChainOK
<1>2. /\ e \in Env /\ e.id = made + 1 /\ e.kind = "trust" /\ e.key = a
      /\ f \in Env /\ f.id = made + 2 /\ f.kind = "list" /\ f.key = a
  <2>1. made + 1 \in Nat /\ made + 2 \in Nat /\ a \in Keys \cup {None}
    BY <1>1 DEF Keys
  <2> QED
    BY <2>1, EnvelopeType
<1> HIDE DEF e, f
<1>3. path' = path \o <<e, f>>
  BY DEF e, f, Admission
<1>4. <<e, f>> \in Seq(Env) /\ Len(<<e, f>>) = 2 /\ <<e, f>>[1] = e /\ <<e, f>>[2] = f
  BY <1>2
<1>5. /\ path' \in Seq(Env) /\ Len(path') = n + 2
      /\ \A i \in 1 .. n + 2 : path'[i] = IF i <= n THEN path[i] ELSE <<e, f>>[i - n]
  BY <1>1, <1>3, <1>4, ConcatProperties
<1>6. \A i \in 1 .. n : path'[i] = path[i]
  BY <1>1, <1>5
<1>7. path'[n + 1] = e /\ path'[n + 2] = f
  <2>1. n + 1 \in 1 .. n + 2 /\ ~(n + 1 <= n) /\ (n + 1) - n = 1
    BY <1>1
  <2>2. n + 2 \in 1 .. n + 2 /\ ~(n + 2 <= n) /\ (n + 2) - n = 2
    BY <1>1
  <2> QED
    BY <1>4, <1>5, <2>1, <2>2
<1>8. \A i \in n + 1 .. Len(path') : i = n + 1 \/ i = n + 2
  BY <1>1, <1>5
<1> HIDE DEF n
<1>9. \A i \in n + 1 .. Len(path') : path'[i].id \in made + 1 .. made'
  BY <1>1, <1>2, <1>7, <1>8
<1>10. \A i, j \in n + 1 .. Len(path') : path'[i].id = path'[j].id => i = j
  <2>1. made + 1 # made + 2
    BY <1>1
  <2> SUFFICES ASSUME NEW i \in n + 1 .. Len(path'), NEW j \in n + 1 .. Len(path'),
                      path'[i].id = path'[j].id
               PROVE  i = j
    OBVIOUS
  <2>2. (i = n + 1 \/ i = n + 2) /\ (j = n + 1 \/ j = n + 2)
    BY <1>8
  <2>3. path'[n + 1].id # path'[n + 2].id
    BY <1>2, <1>7, <2>1
  <2>4. CASE i = n + 1 /\ j = n + 2
    BY <2>3, <2>4, Zenon
  <2>5. CASE i = n + 2 /\ j = n + 1
    BY <2>3, <2>5, Zenon
  <2> QED
    BY <2>2, <2>4, <2>5
<1>11. \A i \in n + 1 .. Len(path') : path'[i].kind = "list" =>
         \E j \in 1 .. i - 1 : path'[j].kind = "trust" /\ path'[j].key = path'[i].key
  <2> SUFFICES ASSUME NEW i \in n + 1 .. Len(path'), path'[i].kind = "list"
               PROVE  \E j \in 1 .. i - 1 : path'[j].kind = "trust" /\ path'[j].key = path'[i].key
    OBVIOUS
  <2>1. i = n + 2
    BY <1>2, <1>7, <1>8
  <2>2. n + 1 \in 1 .. i - 1
    BY <1>1, <2>1
  <2>3. path'[n + 1].kind = "trust" /\ path'[n + 1].key = path'[i].key
    BY <1>2, <1>7, <2>1
  <2> QED
    BY <2>2, <2>3
<1>12. made' \in Nat /\ made <= made' /\ Len(path') >= n
  BY <1>1, <1>5
<1> QED
  BY <1>1, <1>5, <1>6, <1>9, <1>10, <1>11, <1>12, PathChanges DEF n

LEMMA AdmitInv ==
  ASSUME BootInv, NEW a \in Attempts, Admit(a)
  PROVE  BootInv'
<1> DEFINE tok == join[a].invite.token
<1>1. /\ UNCHANGED <<oldest, pending, issued, now, join, pull, conn>> /\ serve[a] = "admitting"
      /\ \/ /\ path' = path \o Admission(a) /\ made' = made + 2
            /\ control' = [control EXCEPT ![a] = Admitted(made + 2)]
            /\ serve' = [serve EXCEPT ![a] = "pull2"]
            /\ admitted' = admitted \cup {<<tok, a>>}
         \/ /\ path' = Append(path, Admission(a)[1]) /\ made' = made + 1
            /\ control' = [control EXCEPT ![a] = Refused] /\ serve' = [serve EXCEPT ![a] = "failed"]
            /\ admitted' = admitted \cup {<<tok, a>>}
         \/ /\ control' = [control EXCEPT ![a] = Refused] /\ serve' = [serve EXCEPT ![a] = "failed"]
            /\ UNCHANGED <<path, made, admitted>>
  BY DEF Admit, Says, Serves, book
<1>2. ChainOK' /\ path'[oldest'] = path[oldest]
  <2>1. CASE path' = path \o Admission(a) /\ made' = made + 2
    BY <1>1, <2>1, PathAdmits DEF BootInv
  <2>2. CASE path' = Append(path, Admission(a)[1]) /\ made' = made + 1
    <3> DEFINE e == Envelope(made + 1, "trust", a)
    <3>1. made + 1 \in Nat /\ a \in Keys \cup {None} /\ Len(path) \in oldest .. Len(path)
      BY DEF BootInv, ChainOK, Keys
    <3>2. e \in Env /\ e.id = made + 1 /\ e.kind # "list"
      BY <3>1, EnvelopeType DEF BootInv
    <3>3. Admission(a)[1] = e
      BY DEF Admission
    <3>4. SubSeq(path, 1, Len(path)) = path
      BY SubSeqFull DEF BootInv, ChainOK
    <3> HIDE DEF e
    <3> QED
      BY <1>1, <2>2, <3>1, <3>2, <3>3, <3>4, PathAppends DEF BootInv
  <2>3. CASE UNCHANGED <<path, made>>
    BY <1>1, <2>3 DEF BootInv, ChainOK, ListedIsTrusted
  <2> QED
    BY <1>1, <2>1, <2>2, <2>3
<1>3. BookOK'
  BY <1>1, <1>2, BookShrinks DEF BootInv, ChainOK
<1>4. EndsOK'
  <2>1. Admitted(made + 2) \in Frame /\ Refused \in Frame
    BY FrameTypes DEF BootInv, ChainOK
  <2> QED
    BY <1>1, <2>1 DEF BootInv, EndsOK, ServeStates
<1>5. \A b \in Attempts : b # a => serve'[b] = serve[b] /\ control'[b] = control[b]
  BY <1>1 DEF BootInv, EndsOK
<1>6. admitted \subseteq admitted' /\ admitted' \subseteq admitted \cup {<<tok, a>>}
  BY <1>1
<1>7. serve[a] # None /\ serve'[a] # None
  BY <1>1, NoneAssumption DEF BootInv, EndsOK, ServeStates
<1>8. /\ control'[a].type # "Welcome"
      /\ control'[a].type = "Admitted" => <<tok, a>> \in admitted'
  <2>1. /\ Admitted(made + 2).type = "Admitted" /\ Refused.type = "Refused"
    BY FrameTypes DEF BootInv, ChainOK
  <2>2. CASE control' = [control EXCEPT ![a] = Refused]
    BY <2>1, <2>2 DEF BootInv, EndsOK
  <2>3. CASE /\ control' = [control EXCEPT ![a] = Admitted(made + 2)]
             /\ admitted' = admitted \cup {<<tok, a>>}
    BY <2>1, <2>3 DEF BootInv, EndsOK
  <2> QED
    BY <1>1, <2>2, <2>3
<1>9. AttemptOK(a)'
  BY <1>1, <1>6, <1>7, <1>8 DEF BootInv, AttemptOK, Trusts
<1>10. ASSUME NEW b \in Attempts PROVE AttemptOK(b)'
  BY <1>1, <1>5, <1>6, <1>9, AttemptKept DEF BootInv
<1>11. ASSUME NEW b \in Attempts, Spent(b)'
       PROVE  Spent(b)
  <2>1. CASE b = a
    BY <1>1, <1>7, <2>1 DEF Spent
  <2>2. CASE b # a
    <3>1. <<join[b].invite.token, b>> # <<tok, a>>
      BY <2>2
    <3> QED
      BY <1>1, <1>5, <1>6, <1>11, <2>2, <3>1 DEF Spent
  <2> QED
    BY <2>1, <2>2
<1>12. TokenOK'
  <2>1. \A x \in admitted' : \E b \in Attempts : serve'[b] # None /\ x = <<join'[b].invite.token, b>>
    <3> SUFFICES ASSUME NEW x \in admitted'
                 PROVE  \E b \in Attempts : serve'[b] # None /\ x = <<join'[b].invite.token, b>>
      OBVIOUS
    <3>1. CASE x = <<tok, a>>
      BY <1>1, <1>7, <3>1
    <3>2. CASE x \in admitted
      <4>1. PICK b \in Attempts : serve[b] # None /\ x = <<join[b].invite.token, b>>
        BY <3>2 DEF BootInv, TokenOK
      <4>2. serve'[b] # None
        BY <1>5, <1>7, <4>1
      <4> QED
        BY <1>1, <4>1, <4>2
    <3> QED
      BY <1>6, <3>1, <3>2
  <2>2. \A b \in Attempts : Spent(b)' => \A q \in pending' : q.token # join'[b].invite.token
    BY <1>1, <1>11 DEF BootInv, TokenOK
  <2>3. \A b, d \in Attempts :
         Spent(b)' /\ Spent(d)' /\ join'[b].invite.token = join'[d].invite.token => b = d
    BY <1>1, <1>11 DEF BootInv, TokenOK
  <2> QED
    BY <2>1, <2>2, <2>3 DEF TokenOK
<1> QED
  BY <1>2, <1>3, <1>4, <1>10, <1>12 DEF BootInv

-----------------------------------------------------------------------------
(* Steps of one attempt.                                                   *)

\* The sponsor's end moves on, past the points where it redeems and admits.
LEMMA ServeMoves ==
  ASSUME BootInv, NEW a \in Attempts, NEW to \in ServeStates,
         to \in {"pull1", "admitting"} => serve[a] \in {"pull1", "admitting"},
         serve[a] # None, serve' = [serve EXCEPT ![a] = to],
         UNCHANGED <<chain, book, join, control, pull, conn, admitted>>
  PROVE  BootInv'
<1>1. EndsOK'
  BY DEF BootInv, EndsOK
<1>2. serve'[a] = to /\ \A b \in Attempts : b # a => serve'[b] = serve[b]
  BY DEF BootInv, EndsOK
<1>3. to # None
  BY NoneAssumption
<1>4. AttemptOK(a)'
  BY <1>2, <1>3 DEF BootInv, AttemptOK, Trusts, book
<1> QED
  BY <1>1, <1>2, <1>3, <1>4, AttemptStep

LEMMA ServeFailsInv ==
  ASSUME BootInv, NEW a \in Attempts, ServeFails(a)
  PROVE  BootInv'
<1>1. /\ serve[a] # None /\ "failed" \in ServeStates
      /\ "failed" \notin {"pull1", "admitting"}
  BY NoneAssumption DEF ServeFails, ServeStates
<1> QED
  BY <1>1, ServeMoves DEF ServeFails, Serves

LEMMA ServeEndsInv ==
  ASSUME BootInv, NEW a \in Attempts, ServeEnds(a)
  PROVE  BootInv'
<1>1. PICK how \in {"done", "failed"} : serve' = [serve EXCEPT ![a] = how]
  BY DEF ServeEnds, Serves
<1>2. /\ serve[a] # None /\ how \in ServeStates
      /\ how \notin {"pull1", "admitting"}
  BY NoneAssumption DEF ServeEnds, ServeStates
<1> QED
  BY <1>1, <1>2, ServeMoves DEF ServeEnds

\* A pull leaves the joiner on a chain that starts where it started.
LEMMA AnswerType ==
  ASSUME ChainOK, NEW held \in Seq(Env), held # <<>>
  PROVE  /\ Answer(held) \in PullEnd /\ Answer(held).at \in {"synced", "nosplit"}
         /\ Answer(held).at = "synced" =>
              Answer(held).chain # <<>> /\ Answer(held).chain[1] = held[1]
<1> DEFINE shared == {i \in DOMAIN held : held[i] \in ServerWalk}
           at == Max(shared)
           on == CHOOSE i \in DOMAIN path : path[i] = held[at]
           answer == SubSeq(held, 1, at) \o SubSeq(path, on + 1, Len(path))
<1>1. /\ Len(held) \in Nat /\ Len(held) # 0 /\ DOMAIN held = 1 .. Len(held)
      /\ path \in Seq(Env) /\ Len(path) \in Nat /\ DOMAIN path = 1 .. Len(path)
      /\ oldest \in 1 .. Len(path)
  BY EmptySeq, LenProperties DEF ChainOK
<1>2. Answer(held) = IF shared = {} THEN Stream("nosplit") ELSE [at |-> "synced", chain |-> answer]
  BY DEF Answer
<1>3. CASE shared = {}
  <2>1. <<>> \in Seq(Env)
    BY EmptySeq
  <2>2. Stream("nosplit") \in PullEnd /\ Stream("nosplit").at = "nosplit"
    BY <2>1 DEF Stream, PullEnd
  <2> QED
    BY <1>2, <1>3, <2>2
<1>4. CASE shared # {}
  <2>1. shared \in SUBSET Nat /\ \A x \in shared : x <= Len(held)
    BY <1>1
  <2>2. at \in shared
    <3> HIDE DEF shared
    <3> QED
      BY <1>1, <1>4, <2>1, MaxOfBounded
  <2>3. at \in 1 .. Len(held) /\ held[at] \in ServerWalk
    BY <1>1, <2>2
  <2> HIDE DEF at
  <2>4. \E i \in DOMAIN path : path[i] = held[at]
    <3>1. \A i \in oldest - 1 .. Len(path) : oldest # 1 => i \in 1 .. Len(path)
      BY <1>1
    <3> QED
      BY <1>1, <2>3, <3>1 DEF ServerWalk
  <2>5. on \in 1 .. Len(path)
    BY <1>1, <2>4
  <2> HIDE DEF on
  <2> DEFINE s == SubSeq(held, 1, at)
             t == SubSeq(path, on + 1, Len(path))
  <2>6. s \in Seq(Env) /\ Len(s) = at /\ s[1] = held[1]
    <3>1. \A i \in 1 .. at : held[i] \in Env
      BY <1>1, <2>3
    <3>2. at \in Int /\ 1 \in Int
      BY <2>3
    <3>3. /\ s \in Seq(Env) /\ Len(s) = IF 1 <= at THEN at - 1 + 1 ELSE 0
          /\ \A i \in 1 .. at - 1 + 1 : s[i] = held[1 + i - 1]
      BY <3>1, <3>2, SubSeqProperties
    <3>4. 1 \in 1 .. at - 1 + 1 /\ 1 + 1 - 1 = 1 /\ at - 1 + 1 = at /\ 1 <= at
      BY <1>1, <2>3
    <3> HIDE DEF s
    <3> QED
      BY <3>3, <3>4
  <2>7. t \in Seq(Env)
    <3>1. \A i \in on + 1 .. Len(path) : path[i] \in Env
      BY <1>1, <2>5
    <3>2. on + 1 \in Int /\ Len(path) \in Int
      BY <1>1, <2>5
    <3> QED
      BY <3>1, <3>2, SubSeqProperties
  <2> HIDE DEF s, t
  <2>8. answer = s \o t
    BY DEF s, t
  <2> HIDE DEF answer
  <2>9. /\ answer \in Seq(Env) /\ Len(answer) = Len(s) + Len(t) /\ Len(t) \in Nat
        /\ \A i \in 1 .. Len(s) + Len(t) : answer[i] = IF i <= Len(s) THEN s[i] ELSE t[i - Len(s)]
    <3>1. /\ s \o t \in Seq(Env) /\ Len(s \o t) = Len(s) + Len(t)
          /\ \A i \in 1 .. Len(s) + Len(t) :
               (s \o t)[i] = IF i <= Len(s) THEN s[i] ELSE t[i - Len(s)]
      BY <2>6, <2>7, ConcatProperties
    <3>2. Len(t) \in Nat
      BY <2>7, LenProperties
    <3> QED
      BY <2>8, <3>1, <3>2, Zenon
  <2>10. answer[1] = held[1] /\ Len(answer) # 0
    <3>1. 1 \in 1 .. Len(s) + Len(t) /\ 1 <= Len(s) /\ Len(answer) # 0
      BY <1>1, <2>3, <2>6, <2>9
    <3> QED
      BY <2>6, <2>9, <3>1
  <2>11. answer # <<>>
    BY <2>9, <2>10, EmptySeq
  <2>12. /\ [at |-> "synced", chain |-> answer] \in PullEnd
         /\ [at |-> "synced", chain |-> answer].at = "synced"
         /\ [at |-> "synced", chain |-> answer].chain = answer
    BY <2>9 DEF PullEnd
  <2> QED
    BY <1>2, <1>4, <2>10, <2>11, <2>12
<1> QED
  BY <1>3, <1>4

LEMMA ServePullInv ==
  ASSUME BootInv, NEW a \in Attempts, ServePull(a)
  PROVE  BootInv'
<1> DEFINE to == IF serve[a] = "pull1" THEN "admitting" ELSE "ending"
<1>1. /\ UNCHANGED <<chain, book, join, control, conn, admitted>>
      /\ serve[a] \in {"pull1", "pull2"} /\ serve' = [serve EXCEPT ![a] = to]
      /\ \/ pull[a].at = "open" /\ pull' = [pull EXCEPT ![a] = Answer(join[a].chain)]
         \/ UNCHANGED pull
  BY DEF ServePull, Serves, Then
<1>2. /\ serve[a] # None /\ to \in ServeStates /\ to # None
      /\ to \in {"pull1", "admitting"} => serve[a] \in {"pull1", "admitting"}
  BY <1>1, NoneAssumption DEF ServeStates
<1>3. CASE UNCHANGED pull
  BY <1>1, <1>2, <1>3, ServeMoves
<1>4. CASE pull[a].at = "open" /\ pull' = [pull EXCEPT ![a] = Answer(join[a].chain)]
  <2> DEFINE p == Answer(join[a].chain)
  <2>1. join[a].chain \in Seq(Env) /\ join[a].chain # <<>>
    BY <1>4 DEF BootInv, EndsOK, JoinEnd, AttemptOK
  <2>2. /\ p \in PullEnd /\ p.at \in {"synced", "nosplit"}
        /\ p.at = "synced" => p.chain # <<>> /\ p.chain[1] = join[a].chain[1]
    BY <2>1, AnswerType DEF BootInv
  <2> HIDE DEF p, to
  <2>3. EndsOK'
    BY <1>1, <1>2, <1>4, <2>2 DEF BootInv, EndsOK, p
  <2>4. /\ serve'[a] = to /\ pull'[a] = p
        /\ \A b \in Attempts : b # a => serve'[b] = serve[b] /\ pull'[b] = pull[b]
    BY <1>1, <1>4 DEF BootInv, EndsOK, p
  <2>5. AttemptOK(a)'
    BY <1>1, <1>2, <2>1, <2>2, <2>4 DEF BootInv, AttemptOK, Trusts, book
  <2> QED
    BY <1>1, <1>2, <2>3, <2>4, <2>5, AttemptStep
<1> QED
  BY <1>1, <1>3, <1>4

\* The joiner's end moves on: what has to hold of where it comes to.
LEMMA JoinMoves ==
  ASSUME BootInv, NEW a \in Attempts, NEW j \in JoinEnd, NEW p \in PullEnd,
         EndsOK', UNCHANGED <<chain, book, serve, admitted>>,
         join'[a] = j, pull'[a] = p, control'[a] \in {control[a], None},
         \A b \in Attempts : b # a =>
           join'[b] = join[b] /\ control'[b] = control[b] /\ pull'[b] = pull[b],
         j.invite = join[a].invite, j.at # "new", j.at = "prepared" => serve[a] = None,
         serve[a] = None =>
           j.at \in {"prepared", "failed", "refused"} /\ j.chain = <<>> /\ p.at = "none",
         j.at \in {"pull1", "await", "pull2", "check", "joined"} => j.chain # <<>>,
         j.chain # <<>> => j.chain[1].id = j.invite.root,
         p.at = "open" => j.chain # <<>>,
         p.at = "synced" => p.chain # <<>> /\ p.chain[1].id = j.invite.root,
         j.at \in {"pull2", "check", "joined"} => <<j.invite.token, a>> \in admitted,
         j.at = "joined" => {a, Sponsor} \subseteq TrustedKeys(j.state, j.chain),
         j.why # "RootMismatch"
  PROVE  BootInv'
<1>1. UNCHANGED issued
  BY DEF book
<1>2. Trusts(a)' = TrustedKeys(j.state, j.chain)
  BY DEF Trusts
<1>3. AttemptOK(a)'
  BY <1>1, <1>2 DEF BootInv, AttemptOK
<1> QED
  BY <1>3, AttemptStep

\* A join that fails for another reason than its root.
LEMMA FailsInv ==
  ASSUME BootInv, NEW a \in Attempts, NEW why \in Causes \ {"RootMismatch"}, Fails(a, why),
         control' = control \/ control' = [control EXCEPT ![a] = None],
         UNCHANGED <<chain, book, serve, admitted>>
  PROVE  BootInv'
<1> DEFINE j == [join[a] EXCEPT !.at = "failed", !.why = why]
           p == [pull[a] EXCEPT !.at = IF @ = "open" THEN "closed" ELSE @]
<1>1. join[a] \in JoinEnd /\ pull[a] \in PullEnd
  BY DEF BootInv, EndsOK
<1>2. /\ j \in JoinEnd /\ j.at = "failed" /\ j.why = why /\ j.chain = join[a].chain
      /\ j.invite = join[a].invite
  BY <1>1 DEF JoinEnd, JoinStates
<1>3. p \in PullEnd /\ p.chain = pull[a].chain
  BY <1>1 DEF PullEnd
<1>4. p.at = (IF pull[a].at = "open" THEN "closed" ELSE pull[a].at)
  BY <1>1 DEF PullEnd
<1>5. join' = [join EXCEPT ![a] = j] /\ pull' = [pull EXCEPT ![a] = p]
  BY DEF Fails, Closes
<1> HIDE DEF j, p
<1>6. conn' \in [Attempts -> {"up", "lost", None}]
  BY DEF Fails, Closes, BootInv, EndsOK
<1>7. /\ EndsOK' /\ join'[a] = j /\ pull'[a] = p /\ control'[a] \in {control[a], None}
      /\ \A b \in Attempts : b # a =>
           join'[b] = join[b] /\ control'[b] = control[b] /\ pull'[b] = pull[b]
  BY <1>2, <1>3, <1>5, <1>6 DEF BootInv, EndsOK
<1>8. /\ j.at = "failed" /\ j.why # "RootMismatch"
      /\ serve[a] = None => j.chain = <<>> /\ p.at = "none"
      /\ j.chain # <<>> => j.chain[1].id = j.invite.root
      /\ p.at # "open"
      /\ p.at = "synced" => p.chain # <<>> /\ p.chain[1].id = j.invite.root
  BY <1>2, <1>3, <1>4 DEF BootInv, AttemptOK
<1> QED
  BY <1>2, <1>3, <1>7, <1>8, JoinMoves

LEMMA JoinFailsInv ==
  ASSUME BootInv, NEW a \in Attempts, JoinFails(a) \/ JoinBreaks(a) \/ ReadRefused(a)
  PROVE  BootInv'
<1>1. CASE JoinFails(a)
  <2>1. "Lost" \in Causes \ {"RootMismatch"}
    BY DEF Causes
  <2> QED
    BY <1>1, <2>1, FailsInv DEF JoinFails
<1>2. CASE JoinBreaks(a)
  <2>1. "Broke" \in Causes \ {"RootMismatch"}
    BY DEF Causes
  <2> QED
    BY <1>2, <2>1, FailsInv DEF JoinBreaks
<1>3. CASE ReadRefused(a)
  <2>1. "Refused" \in Causes \ {"RootMismatch"}
    BY DEF Causes
  <2> QED
    BY <1>3, <2>1, FailsInv DEF ReadRefused, Says
<1> QED
  BY <1>1, <1>2, <1>3

LEMMA LostInv ==
  ASSUME BootInv, NEW a \in Attempts, Lost(a)
  PROVE  BootInv'
<1>1. UNCHANGED <<chain, book, join, serve, control, pull, admitted>>
  BY DEF Lost
<1>2. EndsOK'
  BY DEF BootInv, EndsOK, Lost
<1>3. AttemptOK(a)'
  BY <1>1 DEF BootInv, AttemptOK, Trusts, book
<1> QED
  BY <1>1, <1>2, <1>3, AttemptStep

LEMMA PrepareJoinInv ==
  ASSUME BootInv, NEW a \in Attempts, NEW d \in Dirs, PrepareJoin(a, d)
  PROVE  BootInv'
<1>1. PICK at \in {"prepared", "refused"} : join' = [join EXCEPT ![a].at = at, ![a].dir = d]
  BY DEF PrepareJoin
<1>2. /\ UNCHANGED <<chain, book, serve, control, pull, conn, admitted>>
      /\ serve[a] = None /\ join[a].chain = <<>> /\ pull[a].at = "none"
      /\ join[a].why # "RootMismatch"
  BY DEF PrepareJoin, BootInv, AttemptOK
<1> DEFINE j == [join[a] EXCEPT !.at = at, !.dir = d]
<1>3. join[a] \in JoinEnd
  BY DEF BootInv, EndsOK
<1>4. /\ j \in JoinEnd /\ j.at = at /\ j.chain = join[a].chain
      /\ j.invite = join[a].invite /\ j.why = join[a].why
  BY <1>3 DEF JoinEnd, JoinStates
<1>5. join' = [join EXCEPT ![a] = j]
  BY <1>1
<1> HIDE DEF j
<1>6. /\ EndsOK' /\ join'[a] = j /\ pull[a] \in PullEnd
      /\ \A b \in Attempts : b # a => join'[b] = join[b]
  BY <1>2, <1>4, <1>5 DEF BootInv, EndsOK
<1> QED
  BY <1>2, <1>4, <1>6, JoinMoves

LEMMA ReadWelcomeInv ==
  ASSUME BootInv, NEW a \in Attempts, ReadWelcome(a)
  PROVE  BootInv'
<1> DEFINE root == control[a].root
           known == control[a].state
           j == [join[a] EXCEPT !.at = "pull1", !.chain = <<root>>, !.state = known]
           p == Stream("open")
<1>1. /\ UNCHANGED <<chain, book, serve, admitted>> /\ join[a].at = "joining"
      /\ control[a] # None /\ control[a].type = "Welcome"
      /\ control' = [control EXCEPT ![a] = None]
  BY DEF ReadWelcome, Says
<1>2. root.id = join[a].invite.root /\ serve[a] # None /\ join[a].why # "RootMismatch"
  BY <1>1 DEF BootInv, AttemptOK
<1>3. \/ /\ join' = [join EXCEPT ![a].at = "pull1", ![a].chain = <<root>>, ![a].state = known]
         /\ pull' = [pull EXCEPT ![a] = p]
         /\ UNCHANGED conn
      \/ Fails(a, "Init")
  BY <1>2 DEF ReadWelcome
<1>4. CASE Fails(a, "Init")
  <2>1. "Init" \in Causes \ {"RootMismatch"}
    BY DEF Causes
  <2> QED
    BY <1>1, <1>4, <2>1, FailsInv
<1>5. CASE /\ join' = [join EXCEPT ![a].at = "pull1", ![a].chain = <<root>>, ![a].state = known]
           /\ pull' = [pull EXCEPT ![a] = p]
           /\ UNCHANGED conn
  <2>1. join[a] \in JoinEnd /\ control[a] \in Frame
    BY <1>1 DEF BootInv, EndsOK
  <2>2. root \in Env /\ known \in SUBSET Keys
    BY <1>1, <2>1 DEF Frame
  <2> HIDE DEF root, known
  <2>3. <<root>> \in Seq(Env) /\ <<root>> # <<>> /\ <<root>>[1] = root
    BY <2>2
  <2> DEFINE c == <<root>>
  <2> HIDE DEF c
  <2>4. /\ j \in JoinEnd /\ j.at = "pull1" /\ j.chain = c
        /\ j.invite = join[a].invite /\ j.why = join[a].why
    BY <2>1, <2>2, <2>3 DEF JoinEnd, JoinStates, c
  <2>5. p \in PullEnd /\ p.at = "open"
    BY EmptySeq DEF Stream, PullEnd
  <2>6. join' = [join EXCEPT ![a] = j]
    BY <1>5
  <2> HIDE DEF j, p
  <2>7. /\ EndsOK' /\ join'[a] = j /\ pull'[a] = p /\ control'[a] \in {control[a], None}
        /\ \A b \in Attempts : b # a =>
             join'[b] = join[b] /\ control'[b] = control[b] /\ pull'[b] = pull[b]
    BY <1>1, <1>5, <2>4, <2>5, <2>6 DEF BootInv, EndsOK
  <2>8. c # <<>> /\ c[1].id = j.invite.root
    BY <1>2, <2>3, <2>4 DEF c
  <2> QED
    BY <1>1, <1>2, <2>4, <2>5, <2>7, <2>8, JoinMoves
<1> QED
  BY <1>3, <1>4, <1>5

LEMMA PulledInv ==
  ASSUME BootInv, NEW a \in Attempts, Pulled(a)
  PROVE  BootInv'
<1> DEFINE p == Stream("none")
           at == IF join[a].at = "pull1" THEN "await" ELSE "check"
           jF == [join[a] EXCEPT !.at = "failed", !.why = "NoCommonHistory"]
           jS == [join[a] EXCEPT !.at = at, !.chain = pull[a].chain]
<1>1. /\ UNCHANGED <<chain, book, serve, control, admitted>>
      /\ join[a].at \in {"pull1", "pull2"} /\ pull[a].at \in {"synced", "nosplit"}
      /\ pull' = [pull EXCEPT ![a] = p]
  BY DEF Pulled
<1>2. \/ pull[a].at = "nosplit" /\ join' = [join EXCEPT ![a] = jF]
      \/ pull[a].at = "synced" /\ join' = [join EXCEPT ![a] = jS]
  BY <1>1 DEF Pulled
<1>3. conn' \in [Attempts -> {"up", "lost", None}]
  BY DEF Pulled, BootInv, EndsOK
<1>4. join[a] \in JoinEnd /\ pull[a].chain \in Seq(Env) /\ serve[a] # None
  BY <1>1 DEF BootInv, EndsOK, PullEnd, AttemptOK
<1>5. p \in PullEnd /\ p.at = "none"
  BY EmptySeq DEF Stream, PullEnd
<1>6. /\ jF \in JoinEnd /\ jF.at = "failed" /\ jF.chain = join[a].chain
      /\ jF.invite = join[a].invite /\ jF.why = "NoCommonHistory"
  BY <1>4 DEF JoinEnd, JoinStates, Causes
<1>7. /\ jS \in JoinEnd /\ jS.at = at /\ jS.chain = pull[a].chain
      /\ jS.invite = join[a].invite /\ jS.why = join[a].why
  BY <1>4 DEF JoinEnd, JoinStates
<1> HIDE DEF p, jF, jS
<1>8. CASE pull[a].at = "nosplit" /\ join' = [join EXCEPT ![a] = jF]
  <2>1. /\ EndsOK' /\ join'[a] = jF /\ pull'[a] = p
        /\ \A b \in Attempts : b # a => join'[b] = join[b] /\ pull'[b] = pull[b]
    BY <1>1, <1>3, <1>5, <1>6, <1>8 DEF BootInv, EndsOK
  <2>2. jF.chain # <<>> => jF.chain[1].id = jF.invite.root
    BY <1>6 DEF BootInv, AttemptOK
  <2> QED
    BY <1>1, <1>4, <1>5, <1>6, <2>1, <2>2, JoinMoves
<1>9. CASE pull[a].at = "synced" /\ join' = [join EXCEPT ![a] = jS]
  <2>1. /\ EndsOK' /\ join'[a] = jS /\ pull'[a] = p
        /\ \A b \in Attempts : b # a => join'[b] = join[b] /\ pull'[b] = pull[b]
    BY <1>1, <1>3, <1>5, <1>7, <1>9 DEF BootInv, EndsOK
  <2>2. jS.chain # <<>> /\ jS.chain[1].id = jS.invite.root /\ jS.why # "RootMismatch"
    BY <1>7, <1>9 DEF BootInv, AttemptOK
  <2>3. jS.at \in {"await", "check"} /\ (jS.at = "check" => join[a].at = "pull2")
    BY <1>1, <1>7
  <2>4. jS.at = "check" => <<jS.invite.token, a>> \in admitted
    BY <1>7, <2>3 DEF BootInv, AttemptOK
  <2> QED
    BY <1>1, <1>4, <1>5, <1>7, <2>1, <2>2, <2>3, <2>4, JoinMoves
<1> QED
  BY <1>2, <1>8, <1>9

LEMMA ReadAdmittedInv ==
  ASSUME BootInv, NEW a \in Attempts, ReadAdmitted(a)
  PROVE  BootInv'
<1> DEFINE p == Stream("open")
           j == [join[a] EXCEPT !.at = "pull2", !.digest = control[a].digest]
<1>1. /\ UNCHANGED <<chain, book, serve, conn, admitted>> /\ join[a].at = "await"
      /\ control[a] # None /\ control[a].type = "Admitted"
      /\ control' = [control EXCEPT ![a] = None]
      /\ join' = [join EXCEPT ![a] = j] /\ pull' = [pull EXCEPT ![a] = p]
  BY DEF ReadAdmitted, Says
<1>2. /\ serve[a] # None /\ join[a].chain # <<>> /\ join[a].chain[1].id = join[a].invite.root
      /\ <<join[a].invite.token, a>> \in admitted /\ join[a].why # "RootMismatch"
  BY <1>1 DEF BootInv, AttemptOK
<1>3. join[a] \in JoinEnd /\ control[a] \in Frame
  BY <1>1 DEF BootInv, EndsOK
<1>4. control[a].digest \in Nat
  BY <1>1, <1>3 DEF Frame
<1>5. /\ j \in JoinEnd /\ j.at = "pull2" /\ j.chain = join[a].chain
      /\ j.invite = join[a].invite /\ j.why = join[a].why
  BY <1>3, <1>4 DEF JoinEnd, JoinStates
<1>6. p \in PullEnd /\ p.at = "open"
  BY EmptySeq DEF Stream, PullEnd
<1> HIDE DEF p, j
<1>7. /\ EndsOK' /\ join'[a] = j /\ pull'[a] = p /\ control'[a] \in {control[a], None}
      /\ \A b \in Attempts : b # a =>
           join'[b] = join[b] /\ control'[b] = control[b] /\ pull'[b] = pull[b]
  BY <1>1, <1>5, <1>6 DEF BootInv, EndsOK
<1> QED
  BY <1>1, <1>2, <1>5, <1>6, <1>7, JoinMoves

LEMMA CheckInv ==
  ASSUME BootInv, NEW a \in Attempts, Check(a)
  PROVE  BootInv'
<1> DEFINE p == [pull[a] EXCEPT !.at = IF @ = "open" THEN "closed" ELSE @]
           j == [join[a] EXCEPT !.at = "joined"]
           missing == \A i \in DOMAIN join[a].chain : join[a].chain[i].id # join[a].digest
<1>1. UNCHANGED <<chain, book, serve, control, admitted>> /\ join[a].at = "check"
  BY DEF Check
<1>2. CASE Verdict(a) # "ok"
  <2>1. Verdict(a) \in {"AdmissionMissing", "SponsorNotTrusted", "NotTrusted", "ok"}
    <3> HIDE DEF missing
    <3>1. Verdict(a) = CASE missing -> "AdmissionMissing"
                         [] Sponsor \notin Trusts(a) -> "SponsorNotTrusted"
                         [] a \notin Trusts(a) -> "NotTrusted"
                         [] OTHER -> "ok"
      BY DEF Verdict, missing
    <3> QED
      BY <3>1
  <2>2. Verdict(a) \in Causes \ {"RootMismatch"}
    BY <1>2, <2>1 DEF Causes
  <2>3. Fails(a, Verdict(a))
    BY <1>2 DEF Check
  <2> QED
    BY <1>1, <2>2, <2>3, FailsInv
<1>3. CASE Verdict(a) = "ok"
  <2>1. {a, Sponsor} \subseteq Trusts(a)
    <3> HIDE DEF missing
    <3>1. Verdict(a) = CASE missing -> "AdmissionMissing"
                         [] Sponsor \notin Trusts(a) -> "SponsorNotTrusted"
                         [] a \notin Trusts(a) -> "NotTrusted"
                         [] OTHER -> "ok"
      BY DEF Verdict, missing
    <3> QED
      BY <1>3, <3>1
  <2>2. join[a] \in JoinEnd /\ pull[a] \in PullEnd
    BY DEF BootInv, EndsOK
  <2>3. /\ j \in JoinEnd /\ j.at = "joined" /\ j.chain = join[a].chain
        /\ j.state = join[a].state /\ j.invite = join[a].invite /\ j.why = join[a].why
    BY <2>2 DEF JoinEnd, JoinStates
  <2>4. p \in PullEnd /\ p.chain = pull[a].chain
    BY <2>2 DEF PullEnd
  <2>5. p.at = (IF pull[a].at = "open" THEN "closed" ELSE pull[a].at)
    BY <2>2 DEF PullEnd
  <2>6. join' = [join EXCEPT ![a] = j] /\ pull' = [pull EXCEPT ![a] = p]
    BY <1>3 DEF Check, Goes, Closes
  <2>7. conn' \in [Attempts -> {"up", "lost", None}]
    BY <1>3 DEF Check, Closes, BootInv, EndsOK
  <2> HIDE DEF j, p
  <2>8. /\ EndsOK' /\ join'[a] = j /\ pull'[a] = p
        /\ \A b \in Attempts : b # a => join'[b] = join[b] /\ pull'[b] = pull[b]
    BY <1>1, <2>3, <2>4, <2>6, <2>7 DEF BootInv, EndsOK
  <2>9. /\ serve[a] # None /\ j.chain # <<>> /\ j.chain[1].id = j.invite.root
        /\ <<j.invite.token, a>> \in admitted /\ j.why # "RootMismatch"
        /\ p.at # "open"
        /\ p.at = "synced" => p.chain # <<>> /\ p.chain[1].id = j.invite.root
    BY <1>1, <2>3, <2>4, <2>5 DEF BootInv, AttemptOK
  <2>10. {a, Sponsor} \subseteq TrustedKeys(j.state, j.chain)
    BY <2>1, <2>3 DEF Trusts
  <2> QED
    BY <1>1, <2>3, <2>4, <2>8, <2>9, <2>10, JoinMoves
<1> QED
  BY <1>2, <1>3

-----------------------------------------------------------------------------
(* The theorems.                                                           *)

LEMMA InvNext == BootInv /\ [Next]_vars => BootInv'
<1> SUFFICES ASSUME BootInv, [Next]_vars PROVE BootInv'
  OBVIOUS
<1>1. CASE UNCHANGED vars
  <2>1. /\ UNCHANGED <<path, made, oldest, pending, issued, now, join, serve, control, pull,
                       conn, admitted>>
    BY <1>1 DEF vars, chain, book, ends
  <2>2. EndsOK' /\ \A b \in Attempts : AttemptOK(b)'
    BY <2>1, EndsKept
  <2> QED
    BY <2>1, <2>2 DEF BootInv, ChainOK, ListedIsTrusted, BookOK, Live, TokenOK, Spent
<1>2. CASE Environment
  <2>1. ASSUME NEW t \in Tokens, CreateInvite(t) PROVE BootInv'
    BY <2>1, CreateInviteInv
  <2>2. ASSUME NEW keep \in oldest .. Len(path), Inserted(keep, "write", None) PROVE BootInv'
    BY <2>2, InsertedInv
  <2>3. ASSUME NEW keep \in oldest .. Len(path), NEW key \in Attempts \cup {Sponsor},
               Inserted(keep, "revoke", key)
        PROVE  BootInv'
    BY <2>3, InsertedInv DEF Keys
  <2>4. ASSUME NEW a \in Attempts, JoinBreaks(a) \/ Lost(a) PROVE BootInv'
    BY <2>4, JoinFailsInv, LostInv
  <2>5. ASSUME NEW a \in Attempts, NEW d \in Dirs, PrepareJoin(a, d) PROVE BootInv'
    BY <2>5, PrepareJoinInv
  <2>6. ASSUME NEW a \in Attempts, NEW i \in issued, Connect(a, i) PROVE BootInv'
    BY <2>6, ConnectInv
  <2>7. CASE Compact \/ Tick \/ Restart
    BY <2>7, CompactInv, TickInv, RestartInv
  <2> QED
    BY <1>2, <2>1, <2>2, <2>3, <2>4, <2>5, <2>6, <2>7 DEF Environment
<1>3. ASSUME NEW a \in Attempts, Session(a) PROVE BootInv'
  BY <1>3, RedeemInviteInv, ServePullInv, AdmitInv, ServeFailsInv, ServeEndsInv DEF Session
<1>4. ASSUME NEW a \in Attempts, Joiner(a) PROVE BootInv'
  BY <1>4, ReadWelcomeInv, JoinFailsInv, PulledInv, ReadAdmittedInv, CheckInv DEF Joiner
<1> QED
  BY <1>1, <1>2, <1>3, <1>4 DEF Next

\* Through every interleaving of joins with writes, reorganisations,
\* compactions, expiries, restarts and lost connections, the sponsor's chain,
\* its book of invites, and both ends of each join fit together.
THEOREM Invariance == Spec => []BootInv
<1>1. BootInv /\ [Next]_vars => BootInv'
  BY InvNext
<1> QED
  BY InvInit, <1>1, PTL DEF Spec

\* An invite that Invites::redeem would still take names the root that
\* Core::welcome_root hands over, and no join ends in a RootMismatch.
THEOREM PromisesAreKept == Spec => []PromiseKept
<1>1. BootInv => PromiseKept
  BY DEF BootInv, BookOK, AttemptOK, PromiseKept
<1> QED
  BY Invariance, <1>1, PTL

\* Invites::redeem hands a token to one session: no two nodes are admitted on
\* the same one.
THEOREM TokensAdmitOne == Spec => []TokenAdmitsOne
<1>1. BootInv => TokenAdmitsOne
  <2> SUFFICES ASSUME BootInv, NEW x \in admitted, NEW y \in admitted, x[1] = y[1] PROVE x = y
    BY DEF TokenAdmitsOne
  <2>1. PICK a \in Attempts : serve[a] # None /\ x = <<join[a].invite.token, a>>
    BY DEF BootInv, TokenOK
  <2>2. PICK b \in Attempts : serve[b] # None /\ y = <<join[b].invite.token, b>>
    BY DEF BootInv, TokenOK
  <2>3. Spent(a) /\ Spent(b)
    BY <2>1, <2>2 DEF Spent
  <2>4. join[a].invite.token = join[b].invite.token
    BY <2>1, <2>2
  <2>5. a = b
    BY <2>3, <2>4 DEF BootInv, TokenOK
  <2> QED
    BY <2>1, <2>2, <2>5
<1> QED
  BY Invariance, <1>1, PTL

\* What `join` reports as done is done: the chain it laid down grew from the
\* promised root, trusts the sponsor and the joiner, and the node was admitted.
THEOREM JoinedAreMembers == Spec => []JoinedIsMember
<1>1. BootInv => JoinedIsMember
  <2> SUFFICES ASSUME BootInv, NEW a \in Attempts, join[a].at = "joined"
               PROVE  /\ join[a].chain[1].id = join[a].invite.root
                      /\ {a, Sponsor} \subseteq Trusts(a)
                      /\ \E t \in Tokens : <<t, a>> \in admitted
    BY DEF JoinedIsMember
  <2>1. /\ serve[a] # None /\ join[a].invite \in issued
        /\ join[a].chain[1].id = join[a].invite.root
        /\ {a, Sponsor} \subseteq Trusts(a) /\ <<join[a].invite.token, a>> \in admitted
    BY DEF BootInv, AttemptOK
  <2>2. join[a].invite.token \in Tokens
    BY <2>1 DEF BootInv, BookOK, Invite
  <2> QED
    BY <2>1, <2>2
<1> QED
  BY Invariance, <1>1, PTL

\* Core::admit trusts a node before it lists it, so on every path that any
\* reorganisation leaves, a listed node was trusted before.
THEOREM ListedAreTrusted == Spec => []ListedIsTrusted
<1>1. BootInv => ListedIsTrusted
  BY DEF BootInv, ChainOK
<1> QED
  BY Invariance, <1>1, PTL
=============================================================================
