------------------------------ MODULE Memories ------------------------------
(***************************************************************************)
(* Long-term memories and how instances exchange them:                     *)
(* src/src/agent/memory-portability.js and memory-service.js, the table    *)
(* memories of store.js and the routes and tools that write it.            *)
(*                                                                         *)
(* An instance has its own memories and those it imported.  What travels   *)
(* is a portable record: the memory, its revision (every write to an own   *)
(* row changes updated_at, and with it the digest) and the status it is    *)
(* labelled with.  A bundle is a set of records.  Signatures, encryption   *)
(* and digests are abstracted to who made a bundle and what is in it.      *)
(*                                                                         *)
(* Of the providers, a snapshot is a register that pushes overwrite, with  *)
(* a network in between; files and content-addressed objects are never     *)
(* overwritten and are the bundles the operator has in hand.               *)
(***************************************************************************)
EXTENDS Naturals, FiniteSets

CONSTANTS
  Nodes,        \* instances
  Memories,     \* ids of memories
  Home,         \* [Memories -> Nodes]: whose own it is
  Providers,    \* snapshot providers
  Remote,       \* those that are remote
  SignedOnly,   \* instances with requireSignatureForRemote
  Pushes,       \* <<n, p>>: n has a pushIntervalMs for p
  Pulls,        \* <<n, p>>: n has a pullIntervalMs for p
  Activating,   \* those of Pulls with autoActivate
  Trusts,       \* [Nodes -> SUBSET Nodes]: trustedSigners
  MaxRequests,  \* bound: what operators and agents do
  MaxTroubles,  \* bound: calls that fail and crashes
  None

\* "RETRACTED" stands for SUPERSEDED and CONTRADICTED as well.
Status == {"ACTIVE", "CANDIDATE", "RETRACTED"}
Records == Memories \X Nat \X Status

ASSUME MemoriesAssumption ==
  /\ Home \in [Memories -> Nodes]
  /\ \A m \in Memories : m \notin Records
  /\ Trusts \in [Nodes -> SUBSET Nodes]
  /\ Remote \subseteq Providers /\ SignedOnly \subseteq Nodes
  /\ Pushes \subseteq Nodes \X Providers
  /\ Pulls \subseteq Nodes \X Providers /\ Activating \subseteq Pulls
  /\ MaxRequests \in Nat /\ MaxTroubles \in Nat

Ids == Memories \cup Records    \* own rows, and memory.import:<digest of the record>
Callers == Nodes \X Providers \X {"sync", "operator"}

VARIABLES
  rows,      \* memories: of each instance, the status of each row it has
  rev,       \* how often the own row of a memory was written, 0 before it exists
  snapshot,  \* what each snapshot provider holds
  sent,      \* pushes on their way
  call,      \* the calls of pull() and push() under way
  pushed,    \* lastPushContentDigest of the sync state of each instance and provider
  files,     \* bundles in the hands of operators
  requests, troubles,
  wanted,    \* history: the rows that somebody in charge wants active, see Asks
  refused,   \* history: the rows somebody has taken back, until they are forgotten
  relabelled,\* history: what was exported with a status of the exporter's
  overtaken  \* history: providers whose snapshot was not written by the newest automatic push

network == <<snapshot, sent, call, pushed>>
bounds == <<requests, troubles>>
history == <<wanted, refused, relabelled, overtaken>>
vars == <<rows, rev, network, files, bounds, history>>

Bundle == [by : Nodes, entries : SUBSET Records]
Push == [caller : Callers, bundle : Bundle, newest : BOOLEAN, awaited : BOOLEAN]
Call == [phase : {"idle", "pulling", "pushing"}, activate : BOOLEAN, bundle : Bundle \cup {None}]
Resting == [phase |-> "idle", activate |-> FALSE, bundle |-> None]

MemoriesTypeOK ==
  /\ \A n \in Nodes : /\ DOMAIN rows[n] \subseteq Ids
                      /\ rows[n] \in [DOMAIN rows[n] -> Status]
  /\ DOMAIN rows = Nodes
  /\ rev \in [Memories -> Nat]
  /\ snapshot \in [Providers -> Bundle \cup {None}]
  /\ sent \subseteq Push
  /\ call \in [Callers -> Call]
  /\ pushed \in [Pushes -> (SUBSET Records) \cup {None}]
  /\ files \subseteq Bundle
  /\ requests \in Nat /\ troubles \in Nat
  /\ wanted \in [Nodes -> SUBSET Ids] /\ refused \in [Nodes -> SUBSET Ids]
  /\ relabelled \subseteq Records /\ overtaken \subseteq Providers

Init ==
  /\ rows = [n \in Nodes |-> [i \in {} |-> "ACTIVE"]]
  /\ rev = [m \in Memories |-> 0]
  /\ snapshot = [p \in Providers |-> None]
  /\ sent = {}
  /\ call = [c \in Callers |-> Resting]
  /\ pushed = [s \in Pushes |-> None]
  /\ files = {} /\ requests = 0 /\ troubles = 0
  /\ wanted = [n \in Nodes |-> {}] /\ refused = [n \in Nodes |-> {}]
  /\ relabelled = {} /\ overtaken = {}

-----------------------------------------------------------------------------
(* Rows.                                                                   *)

Has(n, i) == i \in DOMAIN rows[n]
Active(n) == {i \in DOMAIN rows[n] : rows[n][i] = "ACTIVE"}

\* The row of id i at n gets status s.
With(n, i, s) ==
  [rows EXCEPT ![n] = [j \in DOMAIN rows[n] \cup {i} |-> IF j = i THEN s ELSE rows[n][j]]]
Touched(i) == IF i \in Memories THEN [rev EXCEPT ![i] = @ + 1] ELSE rev

Request == requests < MaxRequests /\ requests' = requests + 1

\* remember(): a new memory, by the operator or by the tool of an agent,
Remember(m, s) ==
  LET n == Home[m]
  IN  /\ Request /\ rev[m] = 0
      /\ rows' = With(n, m, s)
      /\ rev' = [rev EXCEPT ![m] = 1]
      /\ wanted' = [wanted EXCEPT ![n] = IF s = "ACTIVE" THEN @ \cup {m} ELSE @]
      /\ UNCHANGED <<network, files, troubles, refused, relabelled, overtaken>>

\* in the place of another, or against it.
RememberInstead(m, i, s) ==
  LET n == Home[m]
  IN  /\ Request /\ rev[m] = 0 /\ Has(n, i)
      /\ rows' = [rows EXCEPT ![n] = [j \in DOMAIN rows[n] \cup {m} |->
                    IF j = m THEN s ELSE IF j = i THEN "RETRACTED" ELSE rows[n][j]]]
      /\ rev' = [Touched(i) EXCEPT ![m] = 1]
      /\ wanted' = [wanted EXCEPT ![n] = (IF s = "ACTIVE" THEN @ \cup {m} ELSE @) \ {i}]
      /\ refused' = [refused EXCEPT ![n] = @ \cup {i}]
      /\ UNCHANGED <<network, files, troubles, relabelled, overtaken>>

\* Only a candidate changes its status.
Confirmed(s) == IF s = "CANDIDATE" THEN "ACTIVE" ELSE s

Confirm(n, i) ==
  /\ Request /\ Has(n, i)
  /\ rows' = With(n, i, Confirmed(rows[n][i]))
  /\ rev' = Touched(i)
  /\ wanted' = [wanted EXCEPT ![n] = @ \cup {i}]
  /\ UNCHANGED <<network, files, troubles, refused, relabelled, overtaken>>

SetStatus(n, i, s) ==
  /\ Request /\ Has(n, i)
  /\ rows' = With(n, i, s)
  /\ rev' = Touched(i)
  /\ wanted' = [wanted EXCEPT ![n] = IF s = "ACTIVE" THEN @ \cup {i} ELSE @ \ {i}]
  /\ refused' = [refused EXCEPT ![n] = IF s = "ACTIVE" THEN @ \ {i} ELSE @ \cup {i}]
  /\ UNCHANGED <<network, files, troubles, relabelled, overtaken>>

\* A memory is deleted; what was imported once may be imported again.
Forget(n, i) ==
  /\ Request /\ Has(n, i)
  /\ rows' = [rows EXCEPT ![n] = [j \in DOMAIN rows[n] \ {i} |-> rows[n][j]]]
  /\ wanted' = [wanted EXCEPT ![n] = @ \ {i}]
  /\ refused' = [refused EXCEPT ![n] = @ \ {i}]
  /\ UNCHANGED <<rev, network, files, troubles, relabelled, overtaken>>

-----------------------------------------------------------------------------
(* Export and import.                                                      *)

Own(n, m) == <<m, rev[m], rows[n][m]>>

\* An imported row goes out as the record it came from, but for a status that
\* somebody has given it here.
Restored(i, s) == IF s = "ACTIVE" THEN i ELSE <<i[1], i[2], s>>
Portable(n, i) == IF i \in Memories THEN Own(n, i) ELSE Restored(i, rows[n][i])

\* exportBundle: what is active, or everything.
Export(n, all) ==
  [by |-> n, entries |-> {Portable(n, i) : i \in IF all THEN DOMAIN rows[n] ELSE Active(n)}]
Labels(n, all) ==
  IF all THEN {Portable(n, i) : i \in (DOMAIN rows[n] \ Memories) \ Active(n)} ELSE {}

\* Faulty: a record that returns is not compared with the row it came from.
BadReturns(n, x) == FALSE
\* An own row that is what the record says.
Returns(n, x) == Has(n, x[1]) /\ Own(n, x[1]) = x
RowOf(n, x) == IF Returns(n, x) THEN x[1] ELSE x

\* Faulty: any row that is there is made active.
BadPromoted(s, activate) == IF activate THEN "ACTIVE" ELSE s
Promoted(s, activate) == IF activate THEN Confirmed(s) ELSE s

\* The label of a record says nothing about a new row.
Arrival(activate) == IF activate THEN "ACTIVE" ELSE "CANDIDATE"

\* The rows the records of b stand for at n.
Meant(n, b) == {RowOf(n, x) : x \in b.entries}

\* importBundle: one transaction.
Import(n, b, activate) ==
  LET meant == Meant(n, b)
  IN  /\ rows' = [rows EXCEPT ![n] = [i \in DOMAIN rows[n] \cup meant |->
                    IF i \notin DOMAIN rows[n] THEN Arrival(activate)
                    ELSE IF i \in meant THEN Promoted(rows[n][i], activate) ELSE rows[n][i]]]
      /\ rev' = [m \in Memories |->
                   IF m \in meant /\ activate /\ rows[n][m] = "CANDIDATE" THEN rev[m] + 1 ELSE rev[m]]

\* Faulty: only requireSignatureForRemote is looked at, not the activation.
BadAccepted(n, b, activate, remote) == remote /\ n \in SignedOnly => b.by \in Trusts[n]
\* A remote bundle needs a trusted signature if the instance demands one, and
\* in any case to be activated.
Accepted(n, b, activate, remote) ==
  remote /\ (n \in SignedOnly \/ activate) => b.by \in Trusts[n]

\* Who is in charge of what is to be active (this is not the check of the code):
\* a trusted signer for what he signs, and the operator for what he hands over
\* or has in a place of his own.
Asks(n, b, activate, remote) ==
  wanted' = [wanted EXCEPT ![n] = IF activate /\ (remote => b.by \in Trusts[n])
                                  THEN @ \cup Meant(n, b) ELSE @]

\* exportTracked, and push() to a content-addressed provider.
ExportFile(n, all) ==
  /\ Request
  /\ files' = files \cup {Export(n, all)}
  /\ relabelled' = relabelled \cup Labels(n, all)
  /\ UNCHANGED <<rows, rev, network, troubles, wanted, refused, overtaken>>

\* importTracked, and pull() by digest, of a directory or a remote store; what
\* is not accepted changes nothing.
ImportFile(n, b, activate, remote) ==
  /\ Request /\ b \in files /\ Accepted(n, b, activate, remote)
  /\ Import(n, b, activate) /\ Asks(n, b, activate, remote)
  /\ UNCHANGED <<network, files, troubles, refused, relabelled, overtaken>>

-----------------------------------------------------------------------------
(* Snapshot providers.  The reactor has at most one call under way for a    *)
(* provider (syncing); the operator's go on beside it.                     *)

NodeOf(c) == c[1]
At(c) == c[2]
Pair(c) == <<c[1], c[2]>>
Automatic(c) == c[3] = "sync"
Idle(c) == call[c].phase = "idle"

\* The reactor pulls when its interval is over, the operator when he likes.
MayPull(c, activate) ==
  IF Automatic(c) THEN Pair(c) \in Pulls /\ activate = (Pair(c) \in Activating) /\ UNCHANGED requests
  ELSE Request

\* The provider is read; its answer comes later.
PullReads(c, activate) ==
  /\ Idle(c) /\ snapshot[At(c)] # None
  /\ MayPull(c, activate)
  /\ call' = [call EXCEPT ![c] = [phase |-> "pulling", activate |-> activate,
                                  bundle |-> snapshot[At(c)]]]
  /\ UNCHANGED <<rows, rev, snapshot, sent, pushed, files, troubles, history>>

PullReturns(c) ==
  /\ call[c].phase = "pulling"
  /\ IF Accepted(NodeOf(c), call[c].bundle, call[c].activate, At(c) \in Remote)
     THEN Import(NodeOf(c), call[c].bundle, call[c].activate)
     ELSE UNCHANGED <<rows, rev>>
  /\ Asks(NodeOf(c), call[c].bundle, call[c].activate, At(c) \in Remote)
  /\ call' = [call EXCEPT ![c] = Resting]
  /\ UNCHANGED <<snapshot, sent, pushed, files, bounds, refused, relabelled, overtaken>>

\* The reactor pushes only what differs from its last push that succeeded.
MayPush(c, all) ==
  IF Automatic(c)
  THEN /\ Pair(c) \in Pushes /\ ~all
       /\ Export(NodeOf(c), all).entries # pushed[Pair(c)]
       /\ UNCHANGED requests
  ELSE Request

\* Those of the pushes f that are on their way are not waited for any more.
Unawaited(f) == {IF w.caller \in f THEN [w EXCEPT !.awaited = FALSE] ELSE w : w \in sent}

PushBegins(c, all) ==
  LET b == Export(NodeOf(c), all)
  IN  /\ Idle(c) /\ MayPush(c, all)
      /\ sent' = {IF At(w.caller) = At(c) THEN [w EXCEPT !.newest = FALSE] ELSE w : w \in sent}
                   \cup {[caller |-> c, bundle |-> b, newest |-> TRUE, awaited |-> TRUE]}
      /\ call' = [call EXCEPT ![c] = [phase |-> "pushing", activate |-> FALSE, bundle |-> b]]
      /\ relabelled' = relabelled \cup Labels(NodeOf(c), all)
      /\ UNCHANGED <<rows, rev, snapshot, pushed, files, troubles, wanted, refused, overtaken>>

\* It may land after its call has failed, and after pushes that began later.
Lands(w) ==
  /\ w \in sent
  /\ sent' = sent \ {w}
  /\ snapshot' = [snapshot EXCEPT ![At(w.caller)] = w.bundle]
  /\ overtaken' = IF w.newest /\ Automatic(w.caller) THEN overtaken \ {At(w.caller)}
                  ELSE overtaken \cup {At(w.caller)}
  /\ UNCHANGED <<rows, rev, call, pushed, files, bounds, wanted, refused, relabelled>>

IsLost(w) ==
  /\ w \in sent /\ ~w.awaited
  /\ sent' = sent \ {w}
  /\ UNCHANGED <<rows, rev, snapshot, call, pushed, files, bounds, history>>

\* push() resolves; syncProvider saves its state in the same stretch.
PushReturns(c) ==
  /\ call[c].phase = "pushing" /\ ~\E w \in sent : w.caller = c /\ w.awaited
  /\ call' = [call EXCEPT ![c] = Resting]
  /\ pushed' = IF Automatic(c) THEN [pushed EXCEPT ![Pair(c)] = call[c].bundle.entries] ELSE pushed
  /\ UNCHANGED <<rows, rev, snapshot, sent, files, bounds, history>>

Trouble == troubles < MaxTroubles /\ troubles' = troubles + 1

\* Faulty: the state is saved as if the push had succeeded.
BadFailed(c) ==
  IF call[c].phase = "pushing" /\ Automatic(c)
  THEN [pushed EXCEPT ![Pair(c)] = call[c].bundle.entries] ELSE pushed
Failed(c) == pushed

\* A call fails or times out; whether the provider was reached is open.
CallFails(c) ==
  /\ Trouble /\ ~Idle(c)
  /\ call' = [call EXCEPT ![c] = Resting]
  /\ sent' = Unawaited({c})
  /\ pushed' = Failed(c)
  /\ UNCHANGED <<rows, rev, snapshot, files, requests, history>>

\* The state of a round is saved at its end: a crash has it done again.
Crash(n) ==
  /\ Trouble
  /\ \E c \in Callers : NodeOf(c) = n /\ ~Idle(c)
  /\ call' = [c \in Callers |-> IF NodeOf(c) = n THEN Resting ELSE call[c]]
  /\ sent' = Unawaited({c \in Callers : NodeOf(c) = n})
  /\ UNCHANGED <<rows, rev, snapshot, pushed, files, requests, history>>

-----------------------------------------------------------------------------

Operated ==
  \/ \E m \in Memories, s \in {"ACTIVE", "CANDIDATE"} : Remember(m, s)
  \/ \E m \in Memories : \E i \in DOMAIN rows[Home[m]] , s \in {"ACTIVE", "CANDIDATE"} :
       RememberInstead(m, i, s)
  \/ \E n \in Nodes : \E i \in DOMAIN rows[n] :
       \/ Confirm(n, i) \/ Forget(n, i)
       \/ \E s \in {"ACTIVE", "RETRACTED"} : SetStatus(n, i, s)
  \/ \E n \in Nodes, all \in BOOLEAN : ExportFile(n, all)
  \/ \E n \in Nodes, b \in files, activate, remote \in BOOLEAN : ImportFile(n, b, activate, remote)

Synchronised ==
  \/ \E c \in Callers : \/ \E f \in BOOLEAN : PullReads(c, f) \/ PushBegins(c, f)
                        \/ PullReturns(c) \/ PushReturns(c) \/ CallFails(c)
  \/ \E w \in sent : Lands(w) \/ IsLost(w)
  \/ \E n \in Nodes : Crash(n)

Next == Operated \/ Synchronised

Spec == Init /\ [][Next]_vars

\* The reactor goes on, providers answer, and of two calls that are due again
\* and again each has its turn.  Nothing is assumed of operators and troubles.
Fairness ==
  \A s \in Pushes \cup Pulls :
    LET c == <<s[1], s[2], "sync">>
    IN  /\ SF_vars(\E f \in BOOLEAN : PullReads(c, f)) /\ SF_vars(PushBegins(c, FALSE))
        /\ WF_vars(PullReturns(c)) /\ WF_vars(PushReturns(c))
        /\ WF_vars(\E w \in sent : w.caller = c /\ w.awaited /\ Lands(w))

FairSpec == Spec /\ Fairness

-----------------------------------------------------------------------------
(* Properties.                                                             *)

\* A row that is recalled has somebody behind it who wanted it active: it was
\* remembered, confirmed or set so at this instance, or an import with
\* activation brought it by the hand of the operator or, from a remote provider,
\* of a signer that is trusted; what an untrusted one has sent stays a candidate
\* until then.  And a row that was taken back stays so, whatever is pulled or
\* imported after it (memory-portability.js:631-753, store.js:2524-2541).  This
\* is about rows: an older record of an own memory matches its row no more, and
\* may come to stand beside it as an active row of its own (:653-670).
ActiveIsWanted == \A n \in Nodes : Active(n) \subseteq wanted[n] \ refused[n]

\* A record that returns to the instance whose memory it is makes no copy of
\* it: not while the memory is as it was when the record left, by whatever way
\* it went, unless somebody has exported it with a status of his own
\* (memory-portability.js:193-231 and 652-668).  The code does not do more: a
\* memory that is confirmed or taken back at home while its record is away gets
\* a copy when the record returns, which docs/architecture.md:242 does not say.
NoEcho ==
  \A m \in Memories : \A i \in DOMAIN rows[Home[m]] \ Memories :
    i[1] = m /\ i[2] = rev[m] /\ Has(Home[m], m) => i \in relabelled

\* What is active where it is pushed comes in the end to everyone who pulls it
\* and trusts its sender, through failed, late and repeated pushes, pulls and
\* crashes.  A snapshot that another push has overwritten is the exception: the
\* reactor does not know of it and pushes when its own memories have changed
\* (memory-portability.js:851-880).
Arrived(n, k) == \A x \in Export(n, FALSE).entries : Home[x[1]] = k \/ Has(k, x)
MemoriesArrive ==
  \A s \in Pushes, r \in Pulls :
    s[2] = r[2] /\ s[1] \in Trusts[r[1]]
      => []<>(Arrived(s[1], r[1]) \/ s[2] \in overtaken)
=============================================================================
