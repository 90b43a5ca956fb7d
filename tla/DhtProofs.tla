----------------------------- MODULE DhtProofs ------------------------------
(***************************************************************************)
(* Proofs about the DHT, for every set of nodes, every distance, every K   *)
(* and every set of scenarios that satisfies the assumptions of Dht: the   *)
(* merges of DhtMerge commute and lose nothing; types are kept; replicas   *)
(* that were given the same fragments show the same items; what was        *)
(* reported stored is held; a later query sees it; requests do not loop.   *)
(*                                                                         *)
(* The merges come first, as facts about records.  Then what each action   *)
(* does is stated once, as a shape (Answers, Passes, GoesOn, ...), and the *)
(* invariants TypeInv, HeldInv, CountInv, ReadInv and LoopInv are shown to *)
(* be kept by the shapes.                                                  *)
(***************************************************************************)
EXTENDS Dht, FiniteSetTheorems, TLAPS

\* The entries of a record: one per path.
Entries(S) == S \subseteq Entry /\ UniquePaths(S)

\* The merge of two sets of entries keeps the best entry of each path.
Best(S) == {e \in S : \A x \in S : x.path = e.path => ~_is_better_drt_route_entry(x, e)}

\* Two entries of a path of which neither is better are the same entry
\* (_is_better_drt_route_entry compares all that tells them apart).
LEMMA BetterIsTotal ==
    ASSUME NEW x \in Entry, NEW y \in Entry, x.path = y.path,
           ~_is_better_drt_route_entry(x, y), ~_is_better_drt_route_entry(y, x)
    PROVE  x = y
  BY SMTT(30) DEF Entry, _is_better_drt_route_entry

\* No entry is better than a better one than itself.
LEMMA BetterIsAsymmetric ==
    ASSUME NEW x \in Entry, NEW y \in Entry, _is_better_drt_route_entry(x, y)
    PROVE  ~_is_better_drt_route_entry(y, x)
  BY SMTT(30) DEF Entry, _is_better_drt_route_entry

\* "Better" can be followed from entry to entry.
LEMMA BetterIsTransitive ==
    ASSUME NEW x \in Entry, NEW y \in Entry, NEW z \in Entry,
           _is_better_drt_route_entry(x, y), _is_better_drt_route_entry(y, z)
    PROVE  _is_better_drt_route_entry(x, z)
  BY SMTT(30) DEF Entry, _is_better_drt_route_entry

\* _deduplicate_drt_route_entries, one pass over the record and then the
\* fragment, leaves the best entry of each path.
LEMMA DeduplicateIsBest ==
    ASSUME NEW old, NEW new, Entries(old), Entries(new)
    PROVE  _deduplicate_drt_route_entries(old, new) = Best(old \cup new)
<1> DEFINE D == _deduplicate_drt_route_entries(old, new)
           B == Best(old \cup new)
<1>1. ASSUME NEW e \in D PROVE e \in B
  <2>1. CASE e \in old /\ \A f \in new : f.path = e.path => ~_is_better_drt_route_entry(f, e)
    <3>1. \A x \in old : x.path = e.path => ~_is_better_drt_route_entry(x, e)
      BY <2>1, BetterIsAsymmetric, Zenon DEF Entries, UniquePaths
    <3> QED BY <2>1, <3>1, Zenon DEF Best
  <2>2. CASE /\ e \in new
             /\ \A x \in old : x.path = e.path => _is_better_drt_route_entry(e, x)
             /\ \A g \in new : g.path = e.path => ~_is_better_drt_route_entry(g, e)
    <3>1. \A x \in old : x.path = e.path => ~_is_better_drt_route_entry(x, e)
      BY <2>2, BetterIsAsymmetric, Zenon DEF Entries
    <3> QED BY <2>2, <3>1, Zenon DEF Best
  <2> QED BY <1>1, <2>1, <2>2, Zenon DEF _deduplicate_drt_route_entries
<1>2. ASSUME NEW e \in B PROVE e \in D
  <2>1. CASE e \in old
    BY <2>1, <1>2, Zenon DEF Best, _deduplicate_drt_route_entries
  <2>2. CASE e \in new /\ e \notin old
    <3>1. \A x \in old : x.path = e.path => _is_better_drt_route_entry(e, x)
      BY <2>2, <1>2, BetterIsTotal, Zenon DEF Best, Entries
    <3> QED BY <2>2, <1>2, <3>1, Zenon DEF Best, _deduplicate_drt_route_entries
  <2> QED BY <1>2, <2>1, <2>2, Zenon DEF Best
<1> QED BY <1>1, <1>2, Zenon

\* A merged record has one entry per path again.
LEMMA BestIsEntries ==
    ASSUME NEW S, S \subseteq Entry
    PROVE  Entries(Best(S)) /\ Best(S) \subseteq S
  BY BetterIsTotal, Zenon DEF Entries, UniquePaths, Best

\* Every entry of two records has an entry at least as good among the best.
LEMMA BestCovers ==
    ASSUME NEW p, NEW f, Entries(p), Entries(f), NEW e \in p \cup f
    PROVE  \E x \in Best(p \cup f) : x.path = e.path /\ ~_is_better_drt_route_entry(e, x)
<1>1. CASE e \in Best(p \cup f)
  BY <1>1, BetterIsAsymmetric, Zenon DEF Entries
<1>2. CASE e \notin Best(p \cup f)
  <2>1. PICK x \in p \cup f : x.path = e.path /\ _is_better_drt_route_entry(x, e)
    BY <1>2, Zenon DEF Best
  <2>2. e \in Entry /\ x \in Entry /\ x # e
    BY <2>1, BetterIsAsymmetric, Zenon DEF Entries
  <2>3. \A y \in p \cup f : y.path = e.path => y = x \/ y = e
    BY <2>1, <2>2, Zenon DEF Entries, UniquePaths
  <2>4. x \in Best(p \cup f)
    BY <2>1, <2>2, <2>3, BetterIsAsymmetric, Zenon DEF Best
  <2> QED BY <2>1, <2>2, <2>4, BetterIsAsymmetric, Zenon
<1> QED BY <1>1, <1>2, Zenon

\* Best entries of best entries: merging a third record into a merged one
\* gives the best of all three.
LEMMA BestOfBest ==
    ASSUME NEW p, NEW f, NEW g, Entries(p), Entries(f), Entries(g)
    PROVE  Best(Best(p \cup f) \cup g) = Best(p \cup f \cup g)
<1> DEFINE M == Best(p \cup f)
<1>0. M \subseteq p \cup f /\ p \cup f \subseteq Entry /\ g \subseteq Entry
  BY Zenon DEF Best, Entries
<1>1. ASSUME NEW e \in Best(M \cup g), NEW y \in p \cup f \cup g, y.path = e.path,
             _is_better_drt_route_entry(y, e)
      PROVE  FALSE
  <2>1. e \in Entry /\ y \in Entry
    BY <1>0, <1>1, Zenon DEF Best
  <2>2. y \notin g
    BY <1>1, Zenon DEF Best
  <2>3. PICK x \in M : x.path = y.path /\ ~_is_better_drt_route_entry(y, x)
    BY <1>1, <2>2, BestCovers, Zenon
  <2>4. x \in Entry /\ ~_is_better_drt_route_entry(x, e)
    BY <1>0, <1>1, <2>3, Zenon DEF Best
  <2>5. x = y \/ _is_better_drt_route_entry(x, y)
    BY <2>1, <2>3, <2>4, BetterIsTotal, Zenon
  <2> QED BY <1>1, <2>1, <2>4, <2>5, BetterIsTransitive, Zenon
<1>2. ASSUME NEW e \in Best(M \cup g) PROVE e \in Best(p \cup f \cup g)
  <2>1. e \in p \cup f \cup g
    BY <1>0, <1>2, Zenon DEF Best
  <2> QED BY <1>1, <1>2, <2>1, Zenon DEF Best
<1>3. ASSUME NEW e \in Best(p \cup f \cup g) PROVE e \in Best(M \cup g)
  <2>1. e \in M \cup g
    BY <1>3, Zenon DEF Best
  <2> QED BY <1>0, <1>3, <2>1, Zenon DEF Best
<1> QED BY <1>2, <1>3, Zenon

\* Replicas that merge the same two fragments into the same record in
\* different orders (validate_and_merge_drt_fragment on arrival of
\* DHT_PUBLISH) end up with the same route entries.
THEOREM MergeCommutes ==
    ASSUME NEW p, NEW f, NEW g, Entries(p), Entries(f), Entries(g)
    PROVE  _deduplicate_drt_route_entries(_deduplicate_drt_route_entries(p, f), g)
         = _deduplicate_drt_route_entries(_deduplicate_drt_route_entries(p, g), f)
<1>1. _deduplicate_drt_route_entries(p, f) = Best(p \cup f)
      /\ _deduplicate_drt_route_entries(p, g) = Best(p \cup g)
  BY DeduplicateIsBest, Zenon
<1>2. Entries(Best(p \cup f)) /\ Entries(Best(p \cup g))
  BY BestIsEntries, Zenon DEF Entries
<1>3. /\ _deduplicate_drt_route_entries(Best(p \cup f), g) = Best(Best(p \cup f) \cup g)
      /\ _deduplicate_drt_route_entries(Best(p \cup g), f) = Best(Best(p \cup g) \cup f)
  BY <1>2, DeduplicateIsBest, Zenon
<1>4. /\ Best(Best(p \cup f) \cup g) = Best(p \cup f \cup g)
      /\ Best(Best(p \cup g) \cup f) = Best(p \cup g \cup f)
  BY BestOfBest
<1>5. p \cup f \cup g = p \cup g \cup f
  BY Zenon
<1> QED BY <1>1, <1>3, <1>4, <1>5, Zenon

\* Merging never loses a path: every entry of the record and of the fragment
\* is in the merged record or gave way to a better entry of its path
\* (validate_and_merge_drt_fragment).
THEOREM MergeCovers ==
    ASSUME NEW p, NEW f, Entries(p), Entries(f), NEW e \in p \cup f
    PROVE  \E x \in _deduplicate_drt_route_entries(p, f) :
               x.path = e.path /\ ~_is_better_drt_route_entry(e, x)
<1>1. _deduplicate_drt_route_entries(p, f) = Best(p \cup f)
  BY DeduplicateIsBest, Zenon
<1>2. \E x \in Best(p \cup f) : x.path = e.path /\ ~_is_better_drt_route_entry(e, x)
  BY BestCovers, Zenon
<1> QED BY <1>1, <1>2, Zenon

\* A fragment merged a second time, by a repeated or retried publication,
\* changes nothing.
THEOREM MergeIdempotent ==
    ASSUME NEW p, NEW f, Entries(p), Entries(f)
    PROVE  _deduplicate_drt_route_entries(_deduplicate_drt_route_entries(p, f), f)
         = _deduplicate_drt_route_entries(p, f)
<1>1. _deduplicate_drt_route_entries(p, f) = Best(p \cup f)
  BY DeduplicateIsBest, Zenon
<1>2. Entries(Best(p \cup f))
  BY BestIsEntries, Zenon DEF Entries
<1>3. _deduplicate_drt_route_entries(Best(p \cup f), f) = Best(Best(p \cup f) \cup f)
  BY <1>2, DeduplicateIsBest, Zenon
<1>4. Best(Best(p \cup f) \cup f) = Best(p \cup f \cup f)
  BY BestOfBest
<1>5. p \cup f \cup f = p \cup f
  BY Zenon
<1> QED BY <1>1, <1>3, <1>4, <1>5, Zenon
----------------------------------------------------------------------------
(* What one merge keeps, in every namespace.                               *)

\* Covers, as facts about one namespace each.
CoversAt(ns, t, r, f) ==
    /\ ns = "dpt" => r.head >= f.head
    /\ ns = "drt" => \A e \in Unexpired(f.items, t) : \E x \in r.items :
         x.path = e.path /\ ~_is_better_drt_route_entry(e, x)
    /\ ns \in {"ddt", "dtt"} => Unexpired(f.items, t) \subseteq r.items

\* Time only takes items away that a record has to have.
LEMMA CoversLater ==
    ASSUME NEW ns \in Namespaces, NEW t \in Int, NEW r \in Records(ns), NEW f \in Records(ns),
           CoversAt(ns, t, r, f)
    PROVE  CoversAt(ns, t + 1, r, f)
<1>1. Unexpired(f.items, t + 1) \subseteq Unexpired(f.items, t)
  BY DEF Unexpired, _is_expired, Records, Entry
<1> QED BY <1>1, Zenon DEF CoversAt

\* A record covers itself.
LEMMA CoversItself ==
    ASSUME NEW ns \in Namespaces, NEW t \in Int, NEW f \in Records(ns)
    PROVE  CoversAt(ns, t, f, f)
<1>1. \A e \in f.items : e \in Entry /\ ~_is_better_drt_route_entry(e, e)
  BY BetterIsAsymmetric, Zenon DEF Records
<1>2. Unexpired(f.items, t) \subseteq f.items
  BY Zenon DEF Unexpired
<1>3. f.head >= f.head
  BY DEF Records
<1> QED BY <1>1, <1>2, <1>3, Zenon DEF CoversAt

\* An entry that gives way to a better one gives way to an entry that lives
\* at least as long.
LEMMA BetterLivesLonger ==
    ASSUME NEW e \in Entry, NEW x \in Entry, NEW t \in Int, ~_is_better_drt_route_entry(e, x),
           ~_is_expired(e, t)
    PROVE  ~_is_expired(x, t)
  BY DEF Entry, _is_better_drt_route_entry, _is_expired

\* "Not better" can be followed from entry to entry of a path.
LEMMA NotBetterIsTransitive ==
    ASSUME NEW x \in Entry, NEW y \in Entry, NEW z \in Entry,
           ~_is_better_drt_route_entry(x, y), ~_is_better_drt_route_entry(y, z)
    PROVE  ~_is_better_drt_route_entry(x, z)
  BY DEF Entry, _is_better_drt_route_entry

\* A merge of drt records covers what either of them covers.
LEMMA RouteMergeCovers ==
    ASSUME NEW t \in Int, NEW a \in Records("drt"), NEW l \in Records("drt"),
           NEW f \in Records("drt"), NEW g \in validate_and_merge_drt_fragment(a, l, t),
           CoversAt("drt", t, a, f) \/ CoversAt("drt", t, l, f)
    PROVE  CoversAt("drt", t, g, f)
<1> DEFINE A == Unexpired(a.items, t)
           L == Unexpired(l.items, t)
<1>1. g.items = _deduplicate_drt_route_entries(A, L)
  BY Zenon DEF validate_and_merge_drt_fragment, Records
<1>2. Entries(A) /\ Entries(L)
  BY Zenon DEF Entries, UniquePaths, Unexpired, Records
<1>3. ASSUME NEW e \in Unexpired(f.items, t)
      PROVE  \E y \in g.items : y.path = e.path /\ ~_is_better_drt_route_entry(e, y)
  <2>1. e \in Entry /\ ~_is_expired(e, t)
    BY <1>3, Zenon DEF Unexpired, Records
  <2>2. PICK x \in a.items \cup l.items : x.path = e.path /\ ~_is_better_drt_route_entry(e, x)
    BY <1>3, Zenon DEF CoversAt
  <2>3. x \in Entry
    BY <2>2, Zenon DEF Records
  <2>4. x \in A \cup L
    BY <2>1, <2>2, <2>3, BetterLivesLonger, Zenon DEF Unexpired
  <2>5. PICK y \in _deduplicate_drt_route_entries(A, L) :
            y.path = x.path /\ ~_is_better_drt_route_entry(x, y)
    BY <1>2, <2>4, MergeCovers
  <2>6. y \in Entry
    BY <2>5, <1>2, Zenon DEF _deduplicate_drt_route_entries, Entries
  <2> QED BY <1>1, <2>1, <2>2, <2>3, <2>5, <2>6, NotBetterIsTransitive, Zenon
<1> QED BY <1>3, Zenon DEF CoversAt

\* A merge covers what either of its records covers.
LEMMA MergeKeeps ==
    ASSUME NEW ns \in Namespaces, NEW t \in Int, NEW a \in Records(ns), NEW l \in Records(ns),
           NEW f \in Records(ns), NEW g \in validate_and_merge(ns, a, l, t),
           CoversAt(ns, t, a, f) \/ CoversAt(ns, t, l, f)
    PROVE  CoversAt(ns, t, g, f)
<1>1. CASE ns = "drt"
  <2>1. g \in validate_and_merge_drt_fragment(a, l, t)
    BY <1>1, Zenon DEF validate_and_merge
  <2> QED BY <1>1, <2>1, RouteMergeCovers, Zenon
<1>2. CASE ns \in {"ddt", "dtt"}
  <2>1. g.items = a.items \cup Unexpired(l.items, t)
    BY <1>2, Zenon DEF validate_and_merge, validate_and_merge_ddt_fragment,
                validate_and_merge_dtt_fragment, Records
  <2>2. Unexpired(f.items, t) \subseteq g.items
    BY <1>2, <2>1, Zenon DEF CoversAt, Unexpired
  <2> QED BY <1>2, <2>2, Zenon DEF CoversAt
<1>3. CASE ns = "dpt"
  <2>1. g.head >= a.head /\ g.head >= l.head /\ {g.head, a.head, l.head, f.head} \subseteq Int
    BY <1>3 DEF validate_and_merge, validate_and_merge_dpt_fragment, _is_fragment_newer, Records
  <2>2. a.head >= f.head \/ l.head >= f.head
    BY <1>3, Zenon DEF CoversAt
  <2> QED BY <1>3, <2>1, <2>2 DEF CoversAt
<1>4. CASE ns = "dpnt"
  BY <1>4, Zenon DEF CoversAt
<1> QED BY <1>1, <1>2, <1>3, <1>4, Zenon DEF Namespaces

\* What a merge returns: at most one record, of the namespace, with the items
\* and the head of the two it came from.
LEMMA MergeReturns ==
    ASSUME NEW ns \in Namespaces, NEW t \in Int, NEW a \in Records(ns), NEW l \in Records(ns)
    PROVE  /\ validate_and_merge(ns, a, l, t) \subseteq Records(ns)
           /\ \A g, h \in validate_and_merge(ns, a, l, t) : g = h
           /\ \A g \in validate_and_merge(ns, a, l, t) :
                g.items \subseteq a.items \cup l.items
                /\ (<<g.head, g.ref>> = <<a.head, a.ref>> \/ <<g.head, g.ref>> = <<l.head, l.ref>>)
<1>1. CASE ns = "drt"
  <2> DEFINE A == Unexpired(a.items, t)
             L == Unexpired(l.items, t)
             D == _deduplicate_drt_route_entries(A, L)
  <2>1. Entries(A) /\ Entries(L)
    BY <1>1, Zenon DEF Entries, UniquePaths, Unexpired, Records
  <2>2. D = Best(A \cup L) /\ A \cup L \subseteq Entry
    BY <2>1, DeduplicateIsBest, Zenon DEF Entries
  <2>3. Entries(D) /\ D \subseteq a.items \cup l.items
    BY <2>2, BestIsEntries, Zenon DEF Unexpired
  <2>4. [a EXCEPT !.items = D] \in Records(ns) /\ [a EXCEPT !.items = D].items = D
        /\ [a EXCEPT !.items = D].head = a.head /\ [a EXCEPT !.items = D].ref = a.ref
    BY <1>1, <2>3, Zenon DEF Records, Entries
  <2>5. validate_and_merge(ns, a, l, t) \subseteq {[a EXCEPT !.items = D]}
    BY <1>1, Zenon DEF validate_and_merge, validate_and_merge_drt_fragment
  <2> HIDE DEF D
  <2> QED BY <2>3, <2>4, <2>5, Zenon
<1>2. CASE ns \in {"ddt", "dtt"}
  <2> DEFINE D == a.items \cup Unexpired(l.items, t)
  <2>3. D \subseteq a.items \cup l.items
    BY Zenon DEF Unexpired
  <2>4. [a EXCEPT !.items = D] \in Records(ns) /\ [a EXCEPT !.items = D].items = D
        /\ [a EXCEPT !.items = D].head = a.head /\ [a EXCEPT !.items = D].ref = a.ref
    BY <1>2, <2>3, Zenon DEF Records
  <2>5. validate_and_merge(ns, a, l, t) \subseteq {[a EXCEPT !.items = D]}
    BY <1>2, Zenon DEF validate_and_merge, validate_and_merge_ddt_fragment,
                validate_and_merge_dtt_fragment
  <2> HIDE DEF D
  <2> QED BY <2>3, <2>4, <2>5, Zenon
<1>3. CASE ns = "dpt"
  <2>1. \/ validate_and_merge(ns, a, l, t) = {a}
        \/ validate_and_merge(ns, a, l, t) = {l}
    BY <1>3, Zenon DEF validate_and_merge, validate_and_merge_dpt_fragment
  <2> QED BY <2>1, Zenon
<1>4. CASE ns = "dpnt"
  <2>1. validate_and_merge(ns, a, l, t) = {l}
    BY <1>4, Zenon DEF validate_and_merge, validate_and_merge_dpnt_fragment
  <2> QED BY <2>1, Zenon
<1> QED BY <1>1, <1>2, <1>3, <1>4, Zenon DEF Namespaces

\* A merge that raises had nothing to add, unless the metadata differ.
LEMMA RaisingMergeAddsNothing ==
    ASSUME NEW ns \in Namespaces, NEW t \in Int, NEW a \in Records(ns), NEW l \in Records(ns),
           validate_and_merge(ns, a, l, t) = {}, ns = "ddt" => a.head = l.head
    PROVE  ns # "dpnt" /\ CoversAt(ns, t, a, l)
<1>1. ns \notin {"dpt", "dpnt"}
  BY Zenon DEF validate_and_merge, validate_and_merge_dpt_fragment, validate_and_merge_dpnt_fragment
<1>2. Unexpired(l.items, t) = {}
  BY <1>1, Zenon DEF validate_and_merge, validate_and_merge_ddt_fragment,
      validate_and_merge_dtt_fragment, validate_and_merge_drt_fragment, NoneValid,
      _ensure_ddt_metadata_matches, Namespaces
<1> QED BY <1>1, <1>2, Zenon DEF CoversAt
----------------------------------------------------------------------------
(* The inductive invariant.                                                *)

\* The calls that publish, and the sets of records of the namespace.
Publications == {c \in Active : Kind(c) = "publish"}
Recs == SUBSET Records(setup.ns)

\* What identifiers, pending forwards, messages and calls look like.
Ids == [call : Active, attempt : Nat, hop : Nat]
Forwards == [id : Ids, prev : Nodes, prev_id : Ids]
Requests ==
    [kind : {"publish", "query"}, id : Ids, from : Nodes, to : Nodes, ttl : Nat,
     stored_by : SUBSET Nodes, required : Nat, cursor : Int, rec : Recs]
Results ==
    [kind : {"result"}, id : Ids, from : Nodes, to : Nodes, status : Statuses,
     stored_by : SUBSET Nodes, rec : Recs, responsible : SUBSET Nodes]
Calls ==
    [pc : {"idle", "waiting", "done", "lost"}, attempt : Nat, stored_by : SUBSET Nodes,
     required : Nat, attempted : SUBSET Nodes, status : Statuses, rec : Recs,
     after : SUBSET Publications]

\* An identifier is of an attempt its call has made.
Attempted(id) == id.attempt # 0 /\ id.attempt <= call[id.call].attempt

\* Two identifiers of one attempt of one call.
SameAttempt(i, j) == i.call = j.call /\ i.attempt = j.attempt

\* What a message may be: a query is never told "stored", and it is told
\* "found" with a record.
MessageInv(m) ==
    /\ m \in Requests \cup Results
    /\ m.from # m.to
    /\ m \in Requests => m.kind = Kind(m.id.call) /\ m.ttl = setup.ttl - m.id.hop
    /\ m \in Results /\ Kind(m.id.call) # "publish" =>
         m.status # "stored" /\ (m.status = "found" => m.rec # {})
    /\ Attempted(m.id)

\* A pending forward of node n.
ForwardInv(n, p) ==
    /\ p.prev # n /\ p.id.hop > 0
    /\ Attempted(p.id) /\ SameAttempt(p.prev_id, p.id)

\* A call that was not made has sent nothing, one that is not done has no
\* outcome, and only queries remember what was stored before them.
CallInv(c) ==
    /\ call[c].pc = "idle" => call[c].attempt = 0
    /\ call[c].pc # "done" => call[c].status = "none"
    /\ call[c].status = "stored" => Kind(c) = "publish"
    /\ Kind(c) = "publish" => call[c].after = {}

\* A node has at most one record under the key.
StoreInv ==
    /\ store \in [Nodes -> Recs]
    /\ \A n \in Nodes : \A x, y \in store[n] : x = y
    /\ given \in [Nodes -> SUBSET Publications]

\* The types, with what the messages and forwards of an attempt have in common.
TypeInv ==
    /\ setup \in Scenarios
    /\ now \in 0..setup.MaxTime /\ restarts \in 0..setup.MaxRestarts
    /\ StoreInv
    /\ pending \in [Nodes -> SUBSET Forwards]
    /\ \A n \in Nodes : \A p \in pending[n] : ForwardInv(n, p)
    /\ \A m \in msgs : MessageInv(m)
    /\ call \in [Active -> Calls]
    /\ \A c \in Active : CallInv(c)
----------------------------------------------------------------------------
(* What the scenarios are, and who is responsible.                         *)

\* The assumption on the scenarios, for the one that runs.
LEMMA SetupFacts ==
    ASSUME setup \in Scenarios
    PROVE  /\ setup.ns \in Namespaces
           /\ setup.knows \in [Nodes -> SUBSET Nodes]
           /\ setup.store \in [Nodes -> Recs]
           /\ \A n \in Nodes : \A x, y \in setup.store[n] : x = y
           /\ \A c \in Active : /\ Kind(c) \in {"publish", "query"}
                                /\ At(c) \in Nodes
                                /\ Fragment(c) \in Records(setup.ns)
           /\ setup.ttl \in Nat /\ setup.MaxTime \in Nat /\ setup.MaxRestarts \in Nat
           /\ setup.ns \in {"drt", "dtt"} => OneHead(setup)
  BY ScenarioAssumption, BoundsAssumption, Zenon DEF Kind, At, Fragment, Active, Recs

\* The responsible nodes are finitely many nodes.
LEMMA ResponsibleNodes ==
    ASSUME setup \in Scenarios, NEW n \in Nodes
    PROVE  /\ select_k_closest_nodes(n) \subseteq Nodes
           /\ Cardinality(select_k_closest_nodes(n)) \in Nat
<1>1. select_k_closest_nodes(n) \subseteq Nodes
  BY SetupFacts, Zenon DEF select_k_closest_nodes
<1> QED BY <1>1, DistAssumption, FS_Subset, FS_CardinalityType, Zenon

\* What can be sent where: the sessions the selections may end with.
LEMMA SelectedSessions ==
    ASSUME setup \in Scenarios, NEW n \in Nodes, NEW attempted \in SUBSET Nodes,
           NEW s \in _select_initial_query_session(n, attempted)
                     \cup _select_random_initial_session(n, attempted),
           s.to # NoNode
    PROVE  s.to \in Nodes \ {n} /\ s.attempted \in SUBSET Nodes
<1>1. setup.knows[n] \subseteq Nodes /\ select_k_closest_nodes(n) \subseteq Nodes
  BY SetupFacts, ResponsibleNodes, Zenon
<1>2. ASSUME NEW a \in SUBSET Nodes, NEW r \in _select_random_initial_session(n, a), r.to # NoNode
      PROVE  r.to \in Nodes \ {n} /\ r.attempted \in SUBSET Nodes
  BY <1>1, <1>2 DEF _select_random_initial_session
<1>3. ASSUME NEW r \in _select_closest_known_session(n, attempted)
      PROVE  r.attempted \in SUBSET Nodes /\ (r.to # NoNode => r.to \in Nodes \ {n})
  BY <1>1, <1>3 DEF _select_closest_known_session
<1>4. CASE s \in _select_random_initial_session(n, attempted)
  BY <1>2, <1>4, Zenon
<1>5. CASE s \in _select_initial_query_session(n, attempted)
  <2>1. PICK r \in _select_closest_known_session(n, attempted) :
            s \in IF r.to # NoNode THEN {r} ELSE _select_random_initial_session(n, r.attempted)
    BY <1>5, Zenon DEF _select_initial_query_session
  <2>2. CASE r.to # NoNode
    BY <2>1, <2>2, <1>3, Zenon
  <2>3. CASE r.to = NoNode
    BY <2>1, <2>3, <1>3, <1>2, Zenon
  <2> QED BY <2>2, <2>3, Zenon
<1> QED BY <1>4, <1>5, Zenon
----------------------------------------------------------------------------
(* What the steps do to the messages, as shapes that the invariants are    *)
(* proved from.                                                            *)

\* Request m is answered with result r.
Answers(m, r) ==
    /\ msgs' = (msgs \ {m}) \cup {r} /\ pending' = pending
    /\ r \in Results /\ r.id = m.id /\ r.from = m.to /\ r.to = m.from

\* Request m goes on as request q.
Passes(m, q) ==
    /\ msgs' = (msgs \ {m}) \cup {q}
    /\ pending' = [pending EXCEPT ![m.to] =
         @ \cup {[id |-> q.id, prev |-> m.from, prev_id |-> m.id]}]
    /\ q \in Requests /\ q.kind = m.kind /\ q.from = m.to /\ q.to # m.to
    /\ q.id.call = m.id.call /\ q.id.attempt = m.id.attempt /\ q.id.hop = m.id.hop + 1
    /\ q.ttl = m.ttl - 1
    /\ q.to \in select_k_closest_nodes(m.to) /\ q.to \notin q.stored_by
    /\ q.kind = "query" => Dist[q.to] > q.cursor

\* _forward_or_return_failure passes the request on or answers it.
LEMMA ForwardOrAnswer ==
    ASSUME setup \in Scenarios, NEW m \in Requests,
           NEW failure \in Statuses, NEW stored_by \in SUBSET Nodes, NEW cursor \in Int,
           NEW rec \in Recs,
           _forward_or_return_failure(m, failure, stored_by, cursor, rec)
    PROVE  \E x : /\ x.stored_by = stored_by /\ x.rec = rec
                  /\ \/ /\ Answers(m, x)
                        /\ x.status \in {"ttl_expired", failure} \/ m.kind = "publish"
                        /\ x.status \in {"ttl_expired", "partially_stored", failure}
                     \/ Passes(m, x) /\ x.cursor = cursor
<1>1. /\ m.to \in Nodes /\ m.from \in Nodes /\ m.ttl \in Nat /\ m.id \in Ids
      /\ select_k_closest_nodes(m.to) \subseteq Nodes
  <2>1. /\ m.to \in Nodes /\ m.from \in Nodes /\ m.ttl \in Nat /\ m.id \in Ids
    BY Zenon DEF Requests
  <2> QED BY <2>1, ResponsibleNodes, Zenon
<1>2. ASSUME NEW fallback \in {"ttl_expired", failure},
             msgs' = (msgs \ {m}) \cup {Result(m,
               _select_failed_publish_status(m.kind, stored_by, fallback),
               stored_by, rec, select_k_closest_nodes(m.to))},
             UNCHANGED pending
      PROVE  \E x : /\ x.stored_by = stored_by /\ x.rec = rec
                    /\ Answers(m, x)
                    /\ x.status \in {"ttl_expired", failure} \/ m.kind = "publish"
                    /\ x.status \in {"ttl_expired", "partially_stored", failure}
  <2>1. PICK st : st = _select_failed_publish_status(m.kind, stored_by, fallback)
    BY Zenon
  <2>2. /\ st \in {"ttl_expired", failure} \/ m.kind = "publish"
        /\ st \in {"ttl_expired", "partially_stored", failure} /\ st \in Statuses
    BY <1>2, <2>1, Zenon DEF _select_failed_publish_status, Statuses
  <2>3. PICK x : x = Result(m, st, stored_by, rec, select_k_closest_nodes(m.to))
    BY Zenon
  <2>4. /\ x \in Results /\ x.id = m.id /\ x.from = m.to /\ x.to = m.from
        /\ x.stored_by = stored_by /\ x.rec = rec /\ x.status = st
    BY <1>1, <2>2, <2>3, Zenon DEF Result, Results
  <2>5. msgs' = (msgs \ {m}) \cup {x} /\ pending' = pending
    BY <1>2, <2>1, <2>3, Zenon
  <2>6. Answers(m, x)
    BY <2>4, <2>5, Zenon DEF Answers
  <2> QED BY <2>2, <2>4, <2>6, Zenon
<1>3. ASSUME m.ttl > 0,
             NEW next \in _select_next_session(m, select_k_closest_nodes(m.to), stored_by, cursor),
             NEW id, id = [m.id EXCEPT !.hop = @ + 1],
             msgs' = (msgs \ {m}) \cup
                  {[m EXCEPT !.id = id, !.from = m.to, !.to = next, !.ttl = @ - 1,
                             !.stored_by = stored_by, !.cursor = cursor, !.rec = rec]},
             pending' = [pending EXCEPT ![m.to] = @ \cup
                {[id |-> id, prev |-> m.from, prev_id |-> m.id]}]
      PROVE  \E x : x.stored_by = stored_by /\ x.rec = rec /\ Passes(m, x) /\ x.cursor = cursor
  <2>1. PICK x : x = [m EXCEPT !.id = id, !.from = m.to, !.to = next, !.ttl = @ - 1,
                               !.stored_by = stored_by, !.cursor = cursor, !.rec = rec]
    BY Zenon
  <2>2. id \in Ids /\ id.call = m.id.call /\ id.attempt = m.id.attempt /\ id.hop = m.id.hop + 1
    BY <1>1, <1>3 DEF Ids
  <2>3. /\ next \in select_k_closest_nodes(m.to) /\ next # m.to /\ next \notin stored_by
        /\ m.kind = "query" => Dist[next] > cursor
    BY <1>3, Zenon DEF _select_next_session
  <2>4. m.ttl - 1 \in Nat
    BY <1>1, <1>3
  <2>5. /\ x.kind = m.kind /\ x.id = id /\ x.from = m.to /\ x.to = next /\ x.ttl = m.ttl - 1
        /\ x.stored_by = stored_by /\ x.cursor = cursor /\ x.rec = rec
    BY <2>1, Zenon DEF Requests
  <2>6. x \in Requests
    BY <1>1, <2>1, <2>2, <2>3, <2>4, Zenon DEF Requests
  <2>7. msgs' = (msgs \ {m}) \cup {x}
    BY <1>3, <2>1, Zenon
  <2>8. pending' = [pending EXCEPT ![m.to] =
           @ \cup {[id |-> x.id, prev |-> m.from, prev_id |-> m.id]}]
    BY <1>3, <2>5, Zenon
  <2>9. Passes(m, x)
    BY <2>2, <2>3, <2>5, <2>6, <2>7, <2>8, Zenon DEF Passes
  <2> QED BY <2>5, <2>9, Zenon
<1> QED BY <1>2, <1>3, Zenon DEF _forward_or_return_failure

\* Node n is given the fragment of call c.
Gives(n, c) ==
    /\ store' = [store EXCEPT ![n] = _upsert_local_record(n, c)]
    /\ given' = [given EXCEPT ![n] = @ \cup {c}]

\* A DHT_PUBLISH at a node that is not responsible, that has stored the
\* record before, or that stores it now.
LEMMA PublishHandled ==
    ASSUME setup \in Scenarios, NEW m \in Requests, _handle_publish(m)
    PROVE  /\ m.kind = "publish" /\ UNCHANGED <<setup, now, call, restarts>>
           /\ \E x : /\ Answers(m, x) \/ Passes(m, x)
                     /\ x.rec = {}
                     /\ \/ /\ UNCHANGED <<store, given>> /\ x.stored_by = m.stored_by
                           /\ m.to \in select_k_closest_nodes(m.to) => m.to \in m.stored_by
                        \/ /\ Gives(m.to, m.id.call)
                           /\ m.to \in select_k_closest_nodes(m.to)
                           /\ x.stored_by = m.stored_by \cup {m.to}
<1>1. /\ m.to \in Nodes /\ m.stored_by \in SUBSET Nodes /\ m.cursor \in Int
      /\ {} \in Recs /\ {"not_routable", "partially_stored"} \subseteq Statuses
      /\ m.stored_by \cup {m.to} \in SUBSET Nodes
  BY Zenon DEF Requests, Recs, Statuses
<1>2. m.kind = "publish" /\ UNCHANGED <<setup, now, call, restarts>>
  BY Zenon DEF _handle_publish
<1>3. CASE ~IsResponsible(m.to)
  <2>1. /\ _forward_or_return_failure(m, "not_routable", m.stored_by, m.cursor, {})
        /\ UNCHANGED <<store, given>>
    BY <1>3, Zenon DEF _handle_publish
  <2>2. \E x : x.stored_by = m.stored_by /\ x.rec = {} /\ (Answers(m, x) \/ Passes(m, x))
    BY <1>1, <2>1, ForwardOrAnswer
  <2> QED BY <1>2, <1>3, <2>1, <2>2, Zenon DEF IsResponsible
<1>4. CASE IsResponsible(m.to)
  <2> DEFINE sb == m.stored_by \cup {m.to}
  <2>1. \E x : x.stored_by = sb /\ x.rec = {} /\ (Answers(m, x) \/ Passes(m, x))
    <3>1. CASE _forward_or_return_failure(m, "partially_stored", sb, m.cursor, {})
      BY <1>1, <3>1, ForwardOrAnswer
    <3>2. CASE msgs' = (msgs \ {m}) \cup {Result(m, "stored", sb, {}, {})} /\ UNCHANGED pending
      <4>1. PICK x : x = Result(m, "stored", sb, {}, {})
        BY Zenon
      <4>2. /\ x \in Results /\ x.id = m.id /\ x.from = m.to /\ x.to = m.from
            /\ x.stored_by = sb /\ x.rec = {}
        BY <1>1, <4>1, Zenon DEF Result, Results, Requests, Statuses, Recs
      <4>3. Answers(m, x)
        BY <3>2, <4>1, <4>2, Zenon DEF Answers
      <4> QED BY <4>2, <4>3, Zenon
    <3> QED BY <1>4, <3>1, <3>2, Zenon DEF _handle_publish
  <2>2. CASE m.to \in m.stored_by
    <3>1. UNCHANGED <<store, given>> /\ sb = m.stored_by
      BY <1>4, <2>2, Zenon DEF _handle_publish
    <3> QED BY <1>2, <2>1, <2>2, <3>1, Zenon
  <2>3. CASE m.to \notin m.stored_by
    <3>1. Gives(m.to, m.id.call)
      BY <1>4, <2>3, Zenon DEF _handle_publish, Gives
    <3> QED BY <1>2, <1>4, <2>1, <3>1, Zenon DEF IsResponsible
  <2> QED BY <2>2, <2>3, Zenon
<1> QED BY <1>3, <1>4, Zenon

\* What a query carries on from node n: what it brought, or that merged with
\* the record of a responsible node.
LEMMA QueryMerges ==
    ASSUME TypeInv, NEW n \in Nodes, NEW rec \in Recs
    PROVE  /\ _merge_query_record_json(rec, store[n]) \in Recs
           /\ store[n] # {} => _merge_query_record_json(rec, store[n]) # {}
<1>1. setup.ns \in Namespaces /\ now \in Int /\ store[n] \in Recs
  BY SetupFacts DEF TypeInv, StoreInv
<1>2. \A a \in rec, l \in store[n] :
         validate_and_merge(setup.ns, a, l, now) \subseteq Records(setup.ns)
  BY <1>1, MergeReturns, Zenon DEF Recs
<1> DEFINE U == UNION {validate_and_merge(setup.ns, a, l, now) : a \in rec, l \in store[n]}
<1>4. U \in Recs
  BY <1>2 DEF Recs
<1>5. _merge_query_record_json(rec, store[n]) = IF rec = {} \/ U = {} THEN store[n] ELSE U
  BY DEF _merge_query_record_json
<1> HIDE DEF U
<1> QED BY <1>1, <1>4, <1>5, Zenon

\* _handle_query: the record a responsible node has joins the one read so far,
\* and the cursor moves to that node.
LEMMA QueryHandled ==
    ASSUME TypeInv, NEW m \in Requests, _handle_query(m)
    PROVE  /\ m.kind = "query" /\ UNCHANGED <<setup, now, store, call, given, restarts>>
           /\ \E x : /\ x.stored_by = {}
                     /\ \/ x.rec = m.rec
                        \/ /\ m.to \in select_k_closest_nodes(m.to) /\ store[m.to] # {}
                           /\ x.rec = _merge_query_record_json(m.rec, store[m.to])
                     /\ \/ /\ Answers(m, x) /\ x.status # "stored"
                           /\ x.status = "found" => x.rec # {}
                        \/ /\ Passes(m, x)
                           /\ IF m.to \in select_k_closest_nodes(m.to)
                              THEN x.cursor = Dist[m.to] ELSE x.cursor = m.cursor
<1> DEFINE Shape(failure, cursor, rec) ==
             \E x : /\ x.stored_by = {} /\ x.rec = rec
                    /\ \/ Answers(m, x) /\ x.status \in {"ttl_expired", failure}
                       \/ Passes(m, x) /\ x.cursor = cursor
<1>1. /\ m.to \in Nodes /\ m.cursor \in Int /\ m.rec \in Recs /\ Dist[m.to] \in Int
      /\ {"not_routable", "found", "not_found"} \subseteq Statuses
  BY DistAssumption DEF Requests, Statuses
<1>2. m.kind = "query" /\ UNCHANGED <<setup, now, store, call, given, restarts>>
  BY Zenon DEF _handle_query
<1>3. ASSUME NEW failure \in Statuses, NEW cursor \in Int, NEW rec \in Recs,
             _forward_or_return_failure(m, failure, {}, cursor, rec)
      PROVE  Shape(failure, cursor, rec)
  <2>1. setup \in Scenarios /\ {} \in SUBSET Nodes
    BY Zenon DEF TypeInv
  <2> QED BY <1>2, <1>3, <2>1, ForwardOrAnswer
<1>4. CASE ~IsResponsible(m.to)
  <2>1. _forward_or_return_failure(m, "not_routable", {}, m.cursor, m.rec)
    BY <1>4, Zenon DEF _handle_query
  <2>2. Shape("not_routable", m.cursor, m.rec)
    BY <1>1, <1>3, <2>1
  <2> QED BY <1>2, <1>4, <2>2, Zenon DEF IsResponsible
<1>5. CASE IsResponsible(m.to) /\ store[m.to] = {}
  <2>1. _forward_or_return_failure(m,
                   IF m.rec # {} THEN "found" ELSE "not_found", {}, Dist[m.to], m.rec)
    BY <1>5, Zenon DEF _handle_query
  <2>2. Shape(IF m.rec # {} THEN "found" ELSE "not_found", Dist[m.to], m.rec)
    BY <1>1, <1>3, <2>1
  <2> QED BY <1>2, <1>5, <2>2, Zenon DEF IsResponsible
<1>6. CASE IsResponsible(m.to) /\ store[m.to] # {}
  <2>1. PICK rec : rec = _merge_query_record_json(m.rec, store[m.to])
    BY Zenon
  <2>2. PICK d : d = Dist[m.to]
    BY Zenon
  <2>3. _forward_or_return_failure(m, "found", {}, d, rec)
    BY <1>6, <2>1, <2>2, Zenon DEF _handle_query
  <2>4. rec \in Recs /\ rec # {}
    BY <1>1, <1>6, <2>1, QueryMerges, Zenon
  <2>5. Shape("found", d, rec)
    BY <1>1, <1>3, <2>2, <2>3, <2>4
  <2> QED BY <1>2, <1>6, <2>1, <2>2, <2>4, <2>5, Zenon DEF IsResponsible
<1> QED BY <1>4, <1>5, <1>6, Zenon

\* Call c, now k, sends request q next to the messages in rest.
Asks(c, k, q, rest) ==
    /\ call' = [call EXCEPT ![c] = k] /\ msgs' = rest \cup {q}
    /\ k \in Calls /\ k.pc = "waiting" /\ k.attempt = call[c].attempt + 1
    /\ k.status = call[c].status /\ k.rec = call[c].rec
    /\ q \in Requests /\ q.kind = Kind(c) /\ q.from # q.to /\ q.ttl = setup.ttl
    /\ q.id.call = c /\ q.id.attempt = k.attempt /\ q.id.hop = 0
    /\ q.stored_by = k.stored_by /\ q.rec = {}

\* Call c returns, and is now k.
Returns(c, k, rest) ==
    /\ call' = [call EXCEPT ![c] = k] /\ msgs' = rest
    /\ k \in Calls /\ k.pc = "done" /\ k.attempt = call[c].attempt

\* Call c goes on from k: what it knows of the replicas stays as in k.
GoesOn(c, k, j, rest) ==
    /\ (\E q : Asks(c, j, q, rest)) \/ Returns(c, j, rest)
    /\ j.stored_by = k.stored_by /\ j.required = k.required /\ j.after = k.after

\* The next attempt of a call, to the session that was selected.
LEMMA CallAsks ==
    ASSUME TypeInv, NEW c \in Active, NEW k \in Calls, NEW rest,
           k.attempt = call[c].attempt, k.status = call[c].status, k.rec = call[c].rec,
           NEW a \in SUBSET Nodes,
           NEW s \in _select_initial_query_session(At(c), a)
                     \cup _select_random_initial_session(At(c), a),
           s.to # NoNode, RequestOnce(c, k, s, rest)
    PROVE  \E j : /\ \E q : Asks(c, j, q, rest)
                  /\ j.stored_by = k.stored_by /\ j.required = k.required /\ j.after = k.after
<1>1. /\ s.to \in Nodes \ {At(c)} /\ s.attempted \in SUBSET Nodes /\ At(c) \in Nodes
      /\ setup.ttl \in Nat /\ Kind(c) \in {"publish", "query"}
  BY SelectedSessions, SetupFacts, Zenon DEF TypeInv
<1>2. PICK i, b : i = k.attempt + 1 /\ b = s.attempted \cup {s.to}
  BY Zenon
<1>j. PICK j : j = [k EXCEPT !.pc = "waiting", !.attempt = i, !.attempted = b]
  BY Zenon
<1>3. PICK q : q =
         [kind |-> Kind(c), id |-> [call |-> c, attempt |-> k.attempt + 1, hop |-> 0],
           from |-> At(c), to |-> s.to, ttl |-> setup.ttl, stored_by |-> k.stored_by,
           required |-> k.required, cursor |-> -1, rec |-> {}]
  BY Zenon
<1>4. /\ j \in Calls /\ j.pc = "waiting" /\ j.attempt = k.attempt + 1
      /\ j.stored_by = k.stored_by /\ j.required = k.required /\ j.after = k.after
      /\ j.status = k.status /\ j.rec = k.rec
  <2>1. i \in Nat /\ b \in SUBSET Nodes
    BY <1>1, <1>2 DEF Calls
  <2>2. j \in Calls
    BY <1>j, <2>1, Zenon DEF Calls
  <2> QED BY <1>2, <1>j, <2>2, Zenon DEF Calls
<1>5. k.stored_by \in SUBSET Nodes /\ k.required \in Nat /\ k.attempt + 1 \in Nat /\ {} \in Recs
  BY DEF Calls, Recs
<1>6. [call |-> c, attempt |-> k.attempt + 1, hop |-> 0] \in Ids
  BY <1>5, Zenon DEF Ids
<1>7. q \in Requests
  BY <1>1, <1>3, <1>5, <1>6 DEF Requests
<1>8. /\ q.kind = Kind(c) /\ q.from = At(c) /\ q.to = s.to /\ q.ttl = setup.ttl
      /\ q.id.call = c /\ q.id.attempt = k.attempt + 1 /\ q.id.hop = 0
      /\ q.stored_by = k.stored_by /\ q.rec = {}
  BY <1>3, Zenon
<1>9. call' = [call EXCEPT ![c] = j] /\ msgs' = rest \cup {q}
  BY <1>2, <1>j, <1>3, Zenon DEF RequestOnce
<1>10. Asks(c, j, q, rest)
  BY <1>1, <1>4, <1>7, <1>8, <1>9, Zenon DEF Asks
<1> QED BY <1>4, <1>10, Zenon

\* The end of a call.
LEMMA CallReturns ==
    ASSUME NEW c, NEW k \in Calls, NEW rest, k.attempt = call[c].attempt,
           NEW status \in Statuses, NEW rec \in Recs, Return(c, k, status, rec, rest)
    PROVE  \E j : /\ Returns(c, j, rest) /\ j.status = status /\ j.rec = rec
                  /\ j.stored_by = k.stored_by /\ j.required = k.required /\ j.after = k.after
<1>1. PICK j : j = [k EXCEPT !.pc = "done", !.status = status, !.rec = rec]
  BY Zenon
<1>2. /\ j \in Calls /\ j.pc = "done" /\ j.attempt = k.attempt /\ j.status = status
      /\ j.rec = rec /\ j.stored_by = k.stored_by /\ j.required = k.required
      /\ j.after = k.after
  BY <1>1, Zenon DEF Calls
<1>3. call' = [call EXCEPT ![c] = j] /\ msgs' = rest
  BY <1>1, Zenon DEF Return
<1> QED BY <1>2, <1>3, Zenon DEF Returns

\* A call that publishes: its node stores the record first, when it is
\* responsible itself.
LEMMA PublishStarts ==
    ASSUME TypeInv, NEW c \in Active, publish(c)
    PROVE  /\ Kind(c) = "publish" /\ call[c].pc = "idle"
           /\ UNCHANGED <<setup, now, pending, restarts>>
           /\ \E k, j :
                /\ k.required = Cardinality(select_k_closest_nodes(At(c)))
                /\ k.after = call[c].after
                /\ \/ k.stored_by = {} /\ UNCHANGED <<store, given>>
                   \/ /\ k.stored_by = {At(c)} /\ At(c) \in select_k_closest_nodes(At(c))
                      /\ Gives(At(c), c)
                /\ GoesOn(c, k, j, msgs)
                /\ j.status = "stored" => Cardinality(j.stored_by) >= j.required
<1>1. /\ Kind(c) = "publish" /\ call[c].pc = "idle"
      /\ UNCHANGED <<setup, now, pending, restarts>>
  BY Zenon DEF publish
<1>2. PICK local : local = IF IsResponsible(At(c)) THEN {At(c)} ELSE {}
  BY Zenon
<1>3. PICK required : required = _read_required_stored_count(At(c))
  BY Zenon
<1>4. PICK k : k = [call[c] EXCEPT !.stored_by = local, !.required = required]
  BY Zenon
<1>5. /\ At(c) \in Nodes /\ call[c] \in Calls /\ setup \in Scenarios
      /\ call[c].status = "none"
  BY <1>1, SetupFacts, Zenon DEF TypeInv, CallInv
<1>6. local \in SUBSET Nodes /\ required \in Nat
      /\ required = Cardinality(select_k_closest_nodes(At(c)))
  BY <1>2, <1>3, <1>5, ResponsibleNodes, Zenon DEF _read_required_stored_count
<1>7. k \in Calls
  BY <1>4, <1>5, <1>6, Zenon DEF Calls
<1>8. /\ k.stored_by = local /\ k.required = required /\ k.after = call[c].after
      /\ k.attempt = call[c].attempt /\ k.status = call[c].status /\ k.rec = call[c].rec
  BY <1>4, <1>5, Zenon DEF Calls
<1>9. \/ local = {} /\ UNCHANGED <<store, given>>
      \/ /\ local = {At(c)} /\ At(c) \in select_k_closest_nodes(At(c))
         /\ Gives(At(c), c)
  BY <1>2, Zenon DEF publish, IsResponsible, Gives
<1>10. \E j : /\ GoesOn(c, k, j, msgs)
              /\ j.status = "stored" => Cardinality(j.stored_by) >= j.required
  <2>0. {} \in Recs /\ {"stored", "not_routable", "partially_stored"} \subseteq Statuses
    BY Zenon DEF Recs, Statuses
  <2>1. CASE local # {} /\ required <= 1 /\ Return(c, k, "stored", {}, msgs)
    <3>1. local = {At(c)} /\ Cardinality(local) = 1
      BY <1>2, <2>1, FS_Singleton, Zenon
    <3>2. PICK j : /\ Returns(c, j, msgs) /\ j.status = "stored"
                   /\ j.stored_by = k.stored_by /\ j.required = k.required /\ j.after = k.after
      BY <1>7, <1>8, <2>0, <2>1, CallReturns
    <3>3. Cardinality(j.stored_by) >= j.required
      BY <1>6, <1>8, <2>1, <3>1, <3>2, Zenon
    <3> QED BY <3>2, <3>3, Zenon DEF GoesOn
  <2>2. ASSUME NEW status \in {"not_routable", "partially_stored"},
               Return(c, k, status, {}, msgs)
        PROVE  \E j : GoesOn(c, k, j, msgs) /\ j.status = status
    <3>1. \E j : /\ Returns(c, j, msgs) /\ j.status = status
                 /\ j.stored_by = k.stored_by /\ j.required = k.required /\ j.after = k.after
      BY <1>7, <1>8, <2>0, <2>2, CallReturns
    <3> QED BY <3>1, Zenon DEF GoesOn
  <2>3. ASSUME NEW s \in _select_initial_query_session(At(c), {}), s.to # NoNode,
               RequestOnce(c, k, s, msgs)
        PROVE  \E j : GoesOn(c, k, j, msgs) /\ j.status = "none"
    <3>1. PICK j : /\ \E q : Asks(c, j, q, msgs)
                   /\ j.stored_by = k.stored_by /\ j.required = k.required /\ j.after = k.after
      BY <1>7, <1>8, <2>3, CallAsks, Zenon
    <3>2. j.status = "none"
      BY <1>5, <3>1, Zenon DEF Asks
    <3> QED BY <3>1, <3>2, Zenon DEF GoesOn
  <2>4. \/ local # {} /\ required <= 1 /\ Return(c, k, "stored", {}, msgs)
        \/ \E s \in _select_initial_query_session(At(c), {}) :
              IF s.to = NoNode
              THEN Return(c, k, IF local = {} THEN "not_routable"
                                ELSE "partially_stored", {}, msgs)
              ELSE RequestOnce(c, k, s, msgs)
    <3>1. k = [call[c] EXCEPT !.stored_by = IF IsResponsible(At(c)) THEN {At(c)} ELSE {},
                              !.required = _read_required_stored_count(At(c))]
      BY <1>2, <1>3, <1>4, Zenon
    <3> QED BY <1>2, <1>8, <3>1, Zenon DEF publish
  <2> QED BY <2>1, <2>2, <2>3, <2>4, Zenon
<1> QED BY <1>1, <1>6, <1>8, <1>9, <1>10, Zenon

\* The loop of publish counts what an attempt brought.
LEMMA PublishGoesOn ==
    ASSUME TypeInv, NEW c \in Active, call[c].pc = "waiting", NEW status \in Statuses,
           NEW stored_by \in SUBSET Nodes, NEW rest,
           PublishAttemptEnds(c, status, stored_by, rest)
    PROVE  \E k, j :
              /\ k.stored_by = call[c].stored_by \cup stored_by
              /\ k.required = call[c].required /\ k.after = call[c].after
              /\ GoesOn(c, k, j, rest)
              /\ j.status = "stored" => Cardinality(j.stored_by) >= j.required
<1>1. PICK b : b = call[c].stored_by \cup stored_by
  BY Zenon
<1>2. PICK k : k = [call[c] EXCEPT !.stored_by = b]
  BY Zenon
<1>3. call[c] \in Calls /\ b \in SUBSET Nodes /\ call[c].status = "none"
  BY <1>1, Zenon DEF TypeInv, Calls, CallInv
<1>4. k \in Calls
  BY <1>2, <1>3, Zenon DEF Calls
<1>5. /\ k.stored_by = b /\ k.required = call[c].required /\ k.after = call[c].after
      /\ k.attempt = call[c].attempt /\ k.status = call[c].status /\ k.rec = call[c].rec
      /\ k.attempted \in SUBSET Nodes
  BY <1>2, <1>3, <1>4, Zenon DEF Calls
<1>6. PICK normalized : normalized =
          IF Cardinality(k.stored_by) >= k.required THEN "stored"
          ELSE IF status = "stored" THEN "partially_stored" ELSE status
  BY Zenon
<1>7. /\ normalized \in Statuses
      /\ normalized = "stored" => Cardinality(k.stored_by) >= k.required
  BY <1>6, Zenon DEF Statuses
<1>8. \/ Return(c, k, normalized, {}, rest)
      \/ \E s \in _select_random_initial_session(At(c), k.attempted) :
            s.to # NoNode /\ RequestOnce(c, k, s, rest)
  <2>1. k = [call[c] EXCEPT !.stored_by = @ \cup stored_by]
    BY <1>1, <1>2, Zenon
  <2> QED BY <1>6, <2>1, Zenon DEF PublishAttemptEnds
<1>9. CASE Return(c, k, normalized, {}, rest)
  <2>1. {} \in Recs
    BY Zenon DEF Recs
  <2>2. PICK j : /\ Returns(c, j, rest) /\ j.status = normalized
                 /\ j.stored_by = k.stored_by /\ j.required = k.required /\ j.after = k.after
    BY <1>4, <1>5, <1>7, <1>9, <2>1, CallReturns
  <2>3. GoesOn(c, k, j, rest)
    BY <2>2, Zenon DEF GoesOn
  <2> QED BY <1>1, <1>5, <1>7, <2>2, <2>3, Zenon
<1>10. CASE \E s \in _select_random_initial_session(At(c), k.attempted) :
               s.to # NoNode /\ RequestOnce(c, k, s, rest)
  <2>1. PICK j : /\ \E q : Asks(c, j, q, rest)
                 /\ j.stored_by = k.stored_by /\ j.required = k.required /\ j.after = k.after
    BY <1>4, <1>5, <1>10, CallAsks, Zenon
  <2>2. j.status = "none"
    BY <1>3, <2>1, Zenon DEF Asks
  <2>3. GoesOn(c, k, j, rest)
    BY <2>1, Zenon DEF GoesOn
  <2> QED BY <1>1, <1>5, <2>1, <2>2, <2>3, Zenon
<1> QED BY <1>8, <1>9, <1>10, Zenon

\* A call that queries: its node answers itself, when it is responsible and
\* has a record.
LEMMA QueryStarts ==
    ASSUME TypeInv, NEW c \in Active, query(c)
    PROVE  /\ Kind(c) = "query" /\ call[c].pc = "idle"
           /\ UNCHANGED <<setup, now, store, pending, given, restarts>>
           /\ \E k, j :
                /\ k.stored_by = call[c].stored_by /\ k.required = call[c].required
                /\ k.after = StoredCalls
                /\ GoesOn(c, k, j, msgs)
                /\ j.status # "stored"
                /\ j.status = "found" => /\ At(c) \in select_k_closest_nodes(At(c))
                                         /\ store[At(c)] # {} /\ j.rec = store[At(c)]
<1>1. /\ Kind(c) = "query" /\ call[c].pc = "idle"
      /\ UNCHANGED <<setup, now, store, pending, given, restarts>>
  BY Zenon DEF query
<1>2. PICK k : k = [call[c] EXCEPT !.after = StoredCalls]
  BY Zenon
<1>3. /\ At(c) \in Nodes /\ call[c] \in Calls /\ call[c].status = "none"
      /\ StoredCalls \in SUBSET Publications /\ store[At(c)] \in Recs
  BY <1>1, SetupFacts, Zenon DEF TypeInv, CallInv, StoreInv, StoredCalls, Publications
<1>4. k \in Calls
  BY <1>2, <1>3, Zenon DEF Calls
<1>5. /\ k.stored_by = call[c].stored_by /\ k.required = call[c].required
      /\ k.after = StoredCalls
      /\ k.attempt = call[c].attempt /\ k.status = call[c].status /\ k.rec = call[c].rec
  BY <1>2, <1>3, Zenon DEF Calls
<1>6. {} \in Recs /\ {"found", "not_found", "not_routable"} \subseteq Statuses
  BY Zenon DEF Recs, Statuses
<1>7. \/ /\ IsResponsible(At(c)) /\ store[At(c)] # {}
         /\ Return(c, k, "found", store[At(c)], msgs)
      \/ \E s \in _select_initial_query_session(At(c), {}) :
            IF s.to = NoNode
            THEN Return(c, k, IF IsResponsible(At(c)) THEN "not_found"
                              ELSE "not_routable", {}, msgs)
            ELSE RequestOnce(c, k, s, msgs)
  BY <1>2, Zenon DEF query
<1>8. ASSUME NEW status \in Statuses, NEW rec \in Recs, Return(c, k, status, rec, msgs)
      PROVE  \E j : GoesOn(c, k, j, msgs) /\ j.status = status /\ j.rec = rec
  <2>1. \E j : /\ Returns(c, j, msgs) /\ j.status = status /\ j.rec = rec
               /\ j.stored_by = k.stored_by /\ j.required = k.required /\ j.after = k.after
    BY <1>4, <1>5, <1>8, CallReturns
  <2> QED BY <2>1, Zenon DEF GoesOn
<1>9. CASE /\ IsResponsible(At(c)) /\ store[At(c)] # {}
           /\ Return(c, k, "found", store[At(c)], msgs)
  <2>1. PICK j : GoesOn(c, k, j, msgs) /\ j.status = "found" /\ j.rec = store[At(c)]
    BY <1>3, <1>6, <1>8, <1>9
  <2> QED BY <1>1, <1>5, <1>9, <2>1, Zenon DEF IsResponsible
<1>10. ASSUME NEW status \in {"not_found", "not_routable"}, Return(c, k, status, {}, msgs)
       PROVE  \E j : GoesOn(c, k, j, msgs) /\ j.status \notin {"stored", "found"}
  BY <1>6, <1>8, <1>10, Zenon
<1>11. ASSUME NEW s \in _select_initial_query_session(At(c), {}), s.to # NoNode,
              RequestOnce(c, k, s, msgs)
       PROVE  \E j : GoesOn(c, k, j, msgs) /\ j.status \notin {"stored", "found"}
  <2>1. PICK j : /\ \E q : Asks(c, j, q, msgs)
                 /\ j.stored_by = k.stored_by /\ j.required = k.required /\ j.after = k.after
    BY <1>4, <1>5, <1>11, CallAsks, Zenon
  <2>2. j.status = "none"
    BY <1>3, <2>1, Zenon DEF Asks
  <2> QED BY <2>1, <2>2, Zenon DEF GoesOn
<1>12. CASE \E j : GoesOn(c, k, j, msgs) /\ j.status \notin {"stored", "found"}
  BY <1>1, <1>5, <1>12, Zenon
<1> QED BY <1>7, <1>9, <1>10, <1>11, <1>12, Zenon

\* The loop of query, after an attempt.
LEMMA QueryGoesOn ==
    ASSUME TypeInv, NEW c \in Active, call[c].pc = "waiting", NEW status \in Statuses,
           NEW rec \in Recs, NEW responsible \in SUBSET Nodes, NEW rest,
           QueryAttemptEnds(c, status, rec, responsible, rest)
    PROVE  \E k, j :
              /\ k.stored_by = call[c].stored_by /\ k.required = call[c].required
              /\ k.after = call[c].after
              /\ GoesOn(c, k, j, rest)
              /\ j.status \in {"none", status}
              /\ j.status = "found" => j.rec = rec
<1>1. PICK b : b = call[c].attempted \cup responsible
  BY Zenon
<1>2. PICK k : k = [call[c] EXCEPT !.attempted = b]
  BY Zenon
<1>3. call[c] \in Calls /\ b \in SUBSET Nodes /\ call[c].status = "none"
  BY <1>1, Zenon DEF TypeInv, Calls, CallInv
<1>4. k \in Calls
  BY <1>2, <1>3, Zenon DEF Calls
<1>5. /\ k.stored_by = call[c].stored_by /\ k.required = call[c].required
      /\ k.after = call[c].after
      /\ k.attempt = call[c].attempt /\ k.status = call[c].status /\ k.rec = call[c].rec
      /\ k.attempted \in SUBSET Nodes
  BY <1>2, <1>3, <1>4, Zenon DEF Calls
<1>6. \/ Return(c, k, status, rec, rest)
      \/ \E s \in _select_initial_query_session(At(c), k.attempted) :
            s.to # NoNode /\ RequestOnce(c, k, s, rest)
  <2>1. k = [call[c] EXCEPT !.attempted = @ \cup responsible]
    BY <1>1, <1>2, Zenon
  <2> QED BY <2>1, Zenon DEF QueryAttemptEnds
<1>7. CASE Return(c, k, status, rec, rest)
  <2>1. PICK j : /\ Returns(c, j, rest) /\ j.status = status /\ j.rec = rec
                 /\ j.stored_by = k.stored_by /\ j.required = k.required /\ j.after = k.after
    BY <1>4, <1>5, <1>7, CallReturns
  <2>2. GoesOn(c, k, j, rest)
    BY <2>1, Zenon DEF GoesOn
  <2> QED BY <1>5, <2>1, <2>2, Zenon
<1>8. CASE \E s \in _select_initial_query_session(At(c), k.attempted) :
              s.to # NoNode /\ RequestOnce(c, k, s, rest)
  <2>1. PICK j : /\ \E q : Asks(c, j, q, rest)
                 /\ j.stored_by = k.stored_by /\ j.required = k.required /\ j.after = k.after
    BY <1>4, <1>5, <1>8, CallAsks, Zenon
  <2>2. j.status = "none"
    BY <1>3, <2>1, Zenon DEF Asks
  <2>3. GoesOn(c, k, j, rest)
    BY <2>1, Zenon DEF GoesOn
  <2> QED BY <1>5, <2>2, <2>3, Zenon
<1> QED BY <1>6, <1>7, <1>8, Zenon

\* Call c waits no longer for its attempt and goes on with what the attempt
\* brought.
Continues(c, stored_by, rec, rest) ==
    /\ c \in Active /\ call[c].pc = "waiting"
    /\ \E k, j :
         /\ k.stored_by \subseteq call[c].stored_by \cup stored_by
         /\ k.required = call[c].required /\ k.after = call[c].after
         /\ GoesOn(c, k, j, rest)
         /\ j.status = "stored" =>
              Kind(c) = "publish" /\ Cardinality(j.stored_by) >= j.required
         /\ j.status = "found" => Kind(c) = "publish" \/ (rec # {} /\ j.rec = rec)

\* The kinds of messages.
LEMMA Kinds ==
    ASSUME TypeInv, NEW m \in msgs
    PROVE  /\ m.kind = "result" => m \in Results
           /\ m.kind \in {"publish", "query"} => m \in Requests
           /\ m.id.call \in Active
<1>1. m \in Requests \cup Results
  BY Zenon DEF TypeInv, MessageInv
<1>2. m \in Requests => m.kind \in {"publish", "query"} /\ m.id \in Ids
  BY Zenon DEF Requests
<1>3. m \in Results => m.kind = "result" /\ m.id \in Ids
  BY Zenon DEF Results
<1>4. m.id \in Ids => m.id.call \in Active
  BY Zenon DEF Ids
<1> QED BY <1>1, <1>2, <1>3, <1>4, Zenon

\* complete_result: a result nobody waits for is dropped, any other one ends
\* the attempt it answers.
LEMMA ResultCompletes ==
    ASSUME TypeInv, NEW m \in msgs, complete_result(m)
    PROVE  /\ m \in Results /\ UNCHANGED <<setup, now, store, pending, given, restarts>>
           /\ \/ msgs' = msgs \ {m} /\ call' = call
              \/ Continues(m.id.call, m.stored_by, m.rec, msgs \ {m})
<1> DEFINE c == m.id.call
<1>1. /\ m \in Results /\ UNCHANGED <<setup, now, store, pending, given, restarts>>
      /\ c \in Active
  BY Kinds, Zenon DEF complete_result
<1>2. /\ m.status \in Statuses /\ m.stored_by \in SUBSET Nodes /\ m.rec \in Recs
      /\ m.responsible \in SUBSET Nodes
  BY <1>1, Zenon DEF Results
<1>3. /\ Kind(c) \in {"publish", "query"}
      /\ Kind(c) = "query" => m.status # "stored" /\ (m.status = "found" => m.rec # {})
  BY <1>1, SetupFacts, Zenon DEF TypeInv, MessageInv
<1>4. CASE msgs' = msgs \ {m} /\ UNCHANGED call
  BY <1>1, <1>4, Zenon
<1>5. CASE /\ call[c].pc = "waiting" /\ Kind(c) = "publish"
           /\ PublishAttemptEnds(c, m.status, m.stored_by, msgs \ {m})
  <2>1. PICK k, j :
              /\ k.stored_by = call[c].stored_by \cup m.stored_by
              /\ k.required = call[c].required /\ k.after = call[c].after
              /\ GoesOn(c, k, j, msgs \ {m})
              /\ j.status = "stored" => Cardinality(j.stored_by) >= j.required
    BY <1>1, <1>2, <1>5, PublishGoesOn
  <2>2. Continues(c, m.stored_by, m.rec, msgs \ {m})
    BY <1>1, <1>5, <2>1, Zenon DEF Continues
  <2> QED BY <1>1, <2>2, Zenon
<1>6. CASE /\ call[c].pc = "waiting" /\ Kind(c) = "query"
           /\ QueryAttemptEnds(c, m.status, m.rec, m.responsible, msgs \ {m})
  <2>1. PICK k, j :
              /\ k.stored_by = call[c].stored_by /\ k.required = call[c].required
              /\ k.after = call[c].after
              /\ GoesOn(c, k, j, msgs \ {m})
              /\ j.status \in {"none", m.status}
              /\ j.status = "found" => j.rec = m.rec
    BY <1>1, <1>2, <1>6, QueryGoesOn
  <2>2. Continues(c, m.stored_by, m.rec, msgs \ {m})
    BY <1>1, <1>3, <1>6, <2>1, Zenon DEF Continues
  <2> QED BY <1>1, <2>2, Zenon
<1> QED BY <1>1, <1>3, <1>4, <1>5, <1>6, Zenon DEF complete_result

\* An attempt that times out ends with nothing.
LEMMA AttemptTimesOut ==
    ASSUME TypeInv, NEW c \in Active, _send_and_wait_result_timeout(c)
    PROVE  /\ UNCHANGED <<setup, now, store, pending, given, restarts>>
           /\ Continues(c, {}, {}, msgs)
<1>1. /\ UNCHANGED <<setup, now, store, pending, given, restarts>>
      /\ call[c].pc = "waiting" /\ Kind(c) \in {"publish", "query"}
      /\ Kind(c) = "publish" => PublishAttemptEnds(c, "timeout", {}, msgs)
      /\ Kind(c) # "publish" => QueryAttemptEnds(c, "timeout", {}, {}, msgs)
  BY SetupFacts, Zenon DEF _send_and_wait_result_timeout, TypeInv
<1>2. {} \in Recs /\ {} \in SUBSET Nodes /\ "timeout" \in Statuses
  BY Zenon DEF Recs, Statuses
<1>3. CASE Kind(c) = "publish"
  <2>1. PICK k, j :
              /\ k.stored_by = call[c].stored_by \cup {}
              /\ k.required = call[c].required /\ k.after = call[c].after
              /\ GoesOn(c, k, j, msgs)
              /\ j.status = "stored" => Cardinality(j.stored_by) >= j.required
    BY <1>1, <1>2, <1>3, PublishGoesOn
  <2> QED BY <1>1, <1>3, <2>1, Zenon DEF Continues
<1>4. CASE Kind(c) # "publish"
  <2>1. PICK k, j :
              /\ k.stored_by = call[c].stored_by /\ k.required = call[c].required
              /\ k.after = call[c].after
              /\ GoesOn(c, k, j, msgs)
              /\ j.status \in {"none", "timeout"}
    BY <1>1, <1>2, <1>4, QueryGoesOn, Zenon
  <2> QED BY <1>1, <2>1, Zenon DEF Continues
<1> QED BY <1>3, <1>4, Zenon
----------------------------------------------------------------------------
(* Types.                                                                  *)

\* What depends on setup alone does not change.
LEMMA SetupStays ==
    ASSUME setup' = setup
    PROVE  /\ Active' = Active /\ Publications' = Publications /\ Recs' = Recs /\ Ids' = Ids
           /\ Forwards' = Forwards /\ Requests' = Requests /\ Results' = Results
           /\ Calls' = Calls
           /\ \A c : Kind(c)' = Kind(c) /\ At(c)' = At(c) /\ Fragment(c)' = Fragment(c)
           /\ \A n : select_k_closest_nodes(n)' = select_k_closest_nodes(n)
  BY Zenon DEF Active, Publications, Recs, Ids, Forwards, Requests, Results, Calls, Kind, At,
         Fragment, select_k_closest_nodes

\* No call takes an attempt back.
AttemptsGrow == \A c \in Active : call[c].attempt <= call'[c].attempt

\* What was sent and what is pending stays what it is.
LEMMA OldMessages ==
    ASSUME TypeInv, setup' = setup, call' \in [Active -> Calls], AttemptsGrow
    PROVE  /\ \A m \in msgs : MessageInv(m)'
           /\ \A n \in Nodes : \A p \in pending[n] : ForwardInv(n, p)'
<1>1. ASSUME NEW id \in Ids, Attempted(id) PROVE Attempted(id)'
  <2>1. /\ id.call \in Active /\ id.attempt \in Nat /\ call[id.call] \in Calls
        /\ call'[id.call] \in Calls
    BY Zenon DEF Ids, TypeInv
  <2>2. call[id.call].attempt \in Nat /\ call'[id.call].attempt \in Nat
        /\ call[id.call].attempt <= call'[id.call].attempt
    BY <2>1, Zenon DEF Calls, AttemptsGrow
  <2> QED BY <1>1, <2>1, <2>2 DEF Attempted
<1>2. ASSUME NEW m \in msgs PROVE MessageInv(m)'
  <2>1. MessageInv(m) /\ m.id \in Ids
    BY Zenon DEF TypeInv, MessageInv, Requests, Results
  <2>2. Attempted(m.id)'
    BY <1>1, <2>1, Zenon DEF MessageInv
  <2> QED BY <2>1, <2>2, SetupStays, Zenon DEF MessageInv
<1>3. ASSUME NEW n \in Nodes, NEW p \in pending[n] PROVE ForwardInv(n, p)'
  <2>1. ForwardInv(n, p) /\ p.id \in Ids
    BY DEF TypeInv, Forwards
  <2>2. Attempted(p.id)'
    BY <1>1, <2>1, Zenon DEF ForwardInv
  <2> QED BY <2>1, <2>2, Zenon DEF ForwardInv, SameAttempt
<1> QED BY <1>2, <1>3, Zenon

\* A step that changes no call.
LEMMA SameCalls ==
    ASSUME TypeInv, setup' = setup, call' = call
    PROVE  /\ call' \in [Active -> Calls] /\ AttemptsGrow
           /\ \A c \in Active : CallInv(c)'
<1>1. call \in [Active -> Calls] /\ \A c \in Active : CallInv(c)
  BY Zenon DEF TypeInv
<1>2. AttemptsGrow
  BY <1>1 DEF AttemptsGrow, Calls
<1> QED BY <1>1, <1>2, SetupStays, Zenon DEF CallInv

\* A call that goes on.
LEMMA GoesOnTypes ==
    ASSUME TypeInv, setup' = setup, NEW c \in Active, NEW k, NEW j, NEW rest,
           rest \subseteq msgs, GoesOn(c, k, j, rest),
           Kind(c) = "publish" => k.after = {}, j.status = "stored" => Kind(c) = "publish",
           call[c].pc # "done"
    PROVE  /\ call' \in [Active -> Calls] /\ AttemptsGrow
           /\ \A d \in Active : CallInv(d)'
           /\ \A m \in msgs' : MessageInv(m)'
<1>1. /\ call' = [call EXCEPT ![c] = j] /\ j \in Calls /\ j.pc \in {"waiting", "done"}
      /\ \/ j.attempt = call[c].attempt \/ j.attempt = call[c].attempt + 1
      /\ j.after = k.after
      /\ j.pc # "done" => j.status = call[c].status
  BY Zenon DEF GoesOn, Asks, Returns
<1>2. call \in [Active -> Calls] /\ \A d \in Active : CallInv(d)
  BY Zenon DEF TypeInv
<1>3. call' \in [Active -> Calls]
  BY <1>1, <1>2, Zenon
<1>4. AttemptsGrow
  <2>1. \A d \in Active : call[d].attempt \in Nat
    BY <1>2, Zenon DEF Calls
  <2> QED BY <1>1, <1>2, <2>1 DEF AttemptsGrow
<1>5. \A d \in Active : CallInv(d)'
  <2>1. CallInv(c)'
    <3>1. call'[c] = j /\ call[c].status = "none"
      BY <1>1, <1>2, Zenon DEF CallInv
    <3> QED BY <1>1, <3>1, SetupStays, Zenon DEF CallInv
  <2>2. ASSUME NEW d \in Active, d # c PROVE CallInv(d)'
    <3>1. call'[d] = call[d]
      BY <1>1, <1>2, <2>2, Zenon
    <3> QED BY <1>2, <3>1, SetupStays, Zenon DEF CallInv
  <2> QED BY <2>1, <2>2, Zenon
<1>6. \A m \in rest : MessageInv(m)'
  BY <1>3, <1>4, OldMessages, Zenon
<1>7. CASE Returns(c, j, rest)
  BY <1>3, <1>4, <1>5, <1>6, <1>7, Zenon DEF Returns
<1>8. ASSUME NEW q, Asks(c, j, q, rest) PROVE \A m \in msgs' : MessageInv(m)'
  <2>1. /\ q \in Requests /\ q.kind = Kind(c) /\ q.from # q.to /\ q.ttl = setup.ttl
        /\ q.id.call = c /\ q.id.attempt = j.attempt /\ q.id.hop = 0
        /\ msgs' = rest \cup {q} /\ j.attempt = call[c].attempt + 1
    BY <1>8, Zenon DEF Asks
  <2>2. Attempted(q.id)'
    <3>1. call'[q.id.call] = j /\ j.attempt \in Nat /\ call[c].attempt \in Nat
      BY <1>1, <1>2, <2>1, Zenon DEF Calls
    <3> QED BY <2>1, <3>1 DEF Attempted
  <2>3. q \notin Results /\ q.ttl = setup.ttl - q.id.hop
    BY <2>1, SetupFacts DEF Requests, Results, TypeInv
  <2>4. MessageInv(q)'
    BY <2>1, <2>2, <2>3, SetupStays, Zenon DEF MessageInv
  <2> QED BY <1>6, <2>1, <2>4, Zenon
<1> QED BY <1>3, <1>4, <1>5, <1>7, <1>8, Zenon DEF GoesOn

\* A node that is given a fragment holds one record of the namespace.
LEMMA GivenTypes ==
    ASSUME TypeInv, setup' = setup, NEW n \in Nodes, NEW c \in Publications, Gives(n, c)
    PROVE  StoreInv'
<1>1. /\ store \in [Nodes -> Recs] /\ given \in [Nodes -> SUBSET Publications]
      /\ setup.ns \in Namespaces /\ now \in Int /\ Fragment(c) \in Records(setup.ns)
      /\ \A i \in Nodes : \A x, y \in store[i] : x = y
  BY SetupFacts DEF TypeInv, StoreInv, Publications
<1> DEFINE merged == UNION {validate_and_merge(setup.ns, r, Fragment(c), now) : r \in store[n]}
<1>2. ASSUME NEW r \in store[n]
      PROVE  /\ validate_and_merge(setup.ns, r, Fragment(c), now) \subseteq Records(setup.ns)
             /\ \A x, y \in validate_and_merge(setup.ns, r, Fragment(c), now) : x = y
  <2>1. r \in Records(setup.ns)
    BY <1>1, Zenon DEF Recs
  <2> QED BY <1>1, <2>1, MergeReturns, Zenon
<1>3. merged \subseteq Records(setup.ns) /\ \A x, y \in merged : x = y
  <2>1. merged \subseteq Records(setup.ns)
    BY <1>2, Zenon
  <2>2. ASSUME NEW x \in merged, NEW y \in merged PROVE x = y
    <3>1. PICK r \in store[n] : x \in validate_and_merge(setup.ns, r, Fragment(c), now)
      BY <2>2, Zenon
    <3>2. PICK s \in store[n] : y \in validate_and_merge(setup.ns, s, Fragment(c), now)
      BY <2>2, Zenon
    <3>3. r = s
      BY <1>1, Zenon
    <3> QED BY <1>2, <3>1, <3>2, <3>3, Zenon
  <2> QED BY <2>1, <2>2, Zenon
<1>4. /\ _upsert_local_record(n, c) \in Recs
      /\ \A x, y \in _upsert_local_record(n, c) : x = y
  <2>1. \/ _upsert_local_record(n, c) = {Fragment(c)}
        \/ _upsert_local_record(n, c) = store[n]
        \/ _upsert_local_record(n, c) = merged
    BY Zenon DEF _upsert_local_record
  <2> HIDE DEF merged
  <2> QED BY <1>1, <1>3, <2>1, Zenon DEF Recs
<1> HIDE DEF merged
<1>5. store' \in [Nodes -> Recs] /\ \A i \in Nodes : \A x, y \in store'[i] : x = y
  <2>1. store' = [store EXCEPT ![n] = _upsert_local_record(n, c)]
    BY Zenon DEF Gives
  <2> QED BY <1>1, <1>4, <2>1, Zenon
<1>6. given' \in [Nodes -> SUBSET Publications]
  BY <1>1, Zenon DEF Gives
<1> QED BY <1>5, <1>6, SetupStays, Zenon DEF StoreInv

\* The step invariant from its parts.
LEMMA TypesFrom ==
    ASSUME TypeInv, UNCHANGED <<setup, now, restarts>>, StoreInv',
           call' \in [Active -> Calls], AttemptsGrow, \A c \in Active : CallInv(c)',
           \A m \in msgs' : m \in msgs \/ MessageInv(m)',
           pending' \in [Nodes -> SUBSET Forwards],
           \A n \in Nodes : \A p \in pending'[n] : p \in pending[n] \/ ForwardInv(n, p)'
    PROVE  TypeInv'
<1>1. setup' = setup
  BY Zenon
<1>2. /\ \A m \in msgs : MessageInv(m)'
      /\ \A n \in Nodes : \A p \in pending[n] : ForwardInv(n, p)'
  BY <1>1, OldMessages, Zenon
<1> QED BY <1>1, <1>2, SetupStays, Zenon DEF TypeInv

\* A request that is answered or passed on.
LEMMA RequestTypes ==
    ASSUME TypeInv, UNCHANGED <<setup, now, restarts, call>>, StoreInv', NEW m \in msgs,
           m \in Requests, NEW x, Answers(m, x) \/ Passes(m, x),
           m.kind = "query" => x \in Requests \/ (x.status # "stored" /\ (x.status = "found" => x.rec # {}))
    PROVE  TypeInv'
<1>1. /\ call' \in [Active -> Calls] /\ AttemptsGrow /\ \A c \in Active : CallInv(c)'
  BY SameCalls, Zenon
<1>2. /\ MessageInv(m) /\ m.id \in Ids /\ m.to \in Nodes /\ m.from \in Nodes
      /\ pending \in [Nodes -> SUBSET Forwards] /\ setup' = setup
      /\ m.kind \in {"publish", "query"} /\ m.ttl \in Nat /\ setup.ttl \in Nat /\ m.id.hop \in Nat
  BY SetupFacts, Zenon DEF TypeInv, Requests, Ids
<1>3. CASE Answers(m, x)
  <2>1. /\ msgs' = (msgs \ {m}) \cup {x} /\ pending' = pending
        /\ x \in Results /\ x.id = m.id /\ x.from = m.to /\ x.to = m.from
    BY <1>3, Zenon DEF Answers
  <2>2. x \notin Requests
    BY <2>1, Zenon DEF Requests, Results
  <2>3. Attempted(x.id)'
    BY <1>2, <2>1, Zenon DEF MessageInv, Attempted
  <2>4. MessageInv(x)'
    BY <1>2, <2>1, <2>2, <2>3, SetupStays, Zenon DEF MessageInv
  <2> QED BY <1>1, <1>2, <2>1, <2>4, TypesFrom, Zenon
<1>4. CASE Passes(m, x)
  <2>1. /\ msgs' = (msgs \ {m}) \cup {x}
        /\ pending' = [pending EXCEPT ![m.to] =
             @ \cup {[id |-> x.id, prev |-> m.from, prev_id |-> m.id]}]
        /\ x \in Requests /\ x.kind = m.kind /\ x.from = m.to /\ x.to # m.to
        /\ x.id.call = m.id.call /\ x.id.attempt = m.id.attempt /\ x.id.hop = m.id.hop + 1
        /\ x.ttl = m.ttl - 1
    BY <1>4, Zenon DEF Passes
  <2>2. x \notin Results
    BY <2>1, Zenon DEF Requests, Results
  <2>3. Attempted(x.id)'
    BY <1>2, <2>1, Zenon DEF MessageInv, Attempted
  <2>4. x.kind = Kind(x.id.call) /\ x.ttl = setup.ttl - x.id.hop
    BY <1>2, <2>1 DEF MessageInv
  <2>5. MessageInv(x)'
    BY <1>2, <2>1, <2>2, <2>3, <2>4, SetupStays, Zenon DEF MessageInv
  <2>6. PICK p : p = [id |-> x.id, prev |-> m.from, prev_id |-> m.id]
    BY Zenon
  <2>7. p \in Forwards /\ p.id = x.id /\ p.prev = m.from /\ p.prev_id = m.id
    BY <1>2, <2>1, <2>6, Zenon DEF Forwards, Requests
  <2>8. p.id.hop > 0
    BY <1>2, <2>1, <2>7
  <2>9. ForwardInv(m.to, p)'
    BY <1>2, <2>1, <2>3, <2>7, <2>8, Zenon DEF ForwardInv, SameAttempt, MessageInv
  <2>10. /\ pending' \in [Nodes -> SUBSET Forwards]
         /\ \A n \in Nodes : \A o \in pending'[n] : o \in pending[n] \/ (n = m.to /\ o = p)
    BY <1>2, <2>1, <2>6, <2>7, Zenon
  <2>11. \A n \in Nodes : \A o \in pending'[n] : o \in pending[n] \/ ForwardInv(n, o)'
    BY <2>9, <2>10, Zenon
  <2>12. \A o \in msgs' : o \in msgs \/ MessageInv(o)'
    BY <2>1, <2>5, Zenon
  <2> QED BY <1>1, <2>10, <2>11, <2>12, TypesFrom, Zenon
<1> QED BY <1>3, <1>4, Zenon

\* A step that leaves the store alone.
LEMMA SameStore ==
    ASSUME TypeInv, UNCHANGED <<setup, store, given>>
    PROVE  StoreInv'
<1>1. StoreInv
  BY Zenon DEF TypeInv
<1> QED BY <1>1, SetupStays, Zenon DEF StoreInv

\* A result of a forwarded request goes one node back.
LEMMA PopTypes ==
    ASSUME TypeInv, NEW m \in msgs, _pop_pending_forward(m)
    PROVE  TypeInv'
<1>1. /\ m.kind = "result" /\ UNCHANGED <<setup, now, store, call, given, restarts>>
  BY Zenon DEF _pop_pending_forward
<1>2. m \in Results /\ MessageInv(m)
  BY <1>1, Kinds, Zenon DEF TypeInv
<1>3. m.to \in Nodes /\ m.id \in Ids
  BY <1>2, Zenon DEF Results
<1>4. PICK p \in pending[m.to] :
        /\ p.id = m.id
        /\ pending' = [pending EXCEPT ![m.to] = @ \ {p}]
        /\ msgs' = (msgs \ {m}) \cup {[m EXCEPT !.id = p.prev_id, !.from = m.to, !.to = p.prev]}
  BY Zenon DEF _pop_pending_forward
<1>5. PICK x : x = [m EXCEPT !.id = p.prev_id, !.from = m.to, !.to = p.prev]
  BY Zenon
<1>6. p \in Forwards /\ ForwardInv(m.to, p) /\ pending \in [Nodes -> SUBSET Forwards]
  BY <1>3, <1>4, Zenon DEF TypeInv
<1>7. p.prev \in Nodes /\ p.prev_id \in Ids /\ p.prev # m.to /\ SameAttempt(p.prev_id, m.id)
  BY <1>4, <1>6, Zenon DEF Forwards, ForwardInv
<1>8. /\ x \in Results /\ x.id = p.prev_id /\ x.from = m.to /\ x.to = p.prev
      /\ x.status = m.status /\ x.rec = m.rec
  BY <1>2, <1>3, <1>5, <1>7, Zenon DEF Results
<1>9. x \notin Requests
  BY <1>8, Zenon DEF Results, Requests
<1>10. Attempted(x.id)' /\ Kind(x.id.call) = Kind(m.id.call)
  BY <1>1, <1>2, <1>7, <1>8, Zenon DEF MessageInv, Attempted, SameAttempt
<1>11. m.from # m.to /\ (Kind(m.id.call) # "publish" =>
          m.status # "stored" /\ (m.status = "found" => m.rec # {}))
  BY <1>2, Zenon DEF MessageInv
<1>12. MessageInv(x)'
  BY <1>1, <1>7, <1>8, <1>9, <1>10, <1>11, SetupStays, Zenon DEF MessageInv
<1>13. \A o \in msgs' : o \in msgs \/ MessageInv(o)'
  BY <1>4, <1>5, <1>12, Zenon
<1>14. /\ pending' \in [Nodes -> SUBSET Forwards]
       /\ \A n \in Nodes : pending'[n] \subseteq pending[n]
  BY <1>4, <1>6, Zenon
<1>15. StoreInv' /\ call' \in [Active -> Calls] /\ AttemptsGrow /\ \A c \in Active : CallInv(c)'
  BY <1>1, SameStore, SameCalls, Zenon
<1> QED BY <1>1, <1>13, <1>14, <1>15, TypesFrom, Zenon

\* A node restarts: its calls are lost, its forwards and its messages too.
LEMMA RestartTypes ==
    ASSUME TypeInv, NEW n \in Nodes, Restart(n)
    PROVE  TypeInv'
<1>1. /\ UNCHANGED <<setup, now, store, given>> /\ restarts' = restarts + 1
      /\ restarts < setup.MaxRestarts /\ pending' = [pending EXCEPT ![n] = {}]
      /\ msgs' \subseteq msgs
      /\ call' = [c \in Active |-> IF At(c) = n /\ call[c].pc = "waiting"
                                   THEN [call[c] EXCEPT !.pc = "lost"] ELSE call[c]]
  BY Zenon DEF Restart
<1>2. /\ call \in [Active -> Calls] /\ \A c \in Active : CallInv(c)
      /\ pending \in [Nodes -> SUBSET Forwards] /\ restarts \in 0..setup.MaxRestarts
      /\ setup.MaxRestarts \in Nat
  BY SetupFacts, Zenon DEF TypeInv
<1>3. ASSUME NEW c \in Active
      PROVE  /\ call'[c] \in Calls /\ call[c].attempt <= call'[c].attempt /\ CallInv(c)'
  <2>1. CASE call'[c] = call[c]
    BY <1>1, <1>2, <2>1, SetupStays DEF CallInv, Calls
  <2>2. CASE call[c].pc = "waiting" /\ call'[c] = [call[c] EXCEPT !.pc = "lost"]
    <3>1. /\ call'[c] \in Calls /\ call'[c].pc = "lost" /\ call'[c].attempt = call[c].attempt
          /\ call'[c].status = call[c].status /\ call'[c].after = call[c].after
          /\ call[c].attempt \in Nat
      BY <1>2, <2>2, Zenon DEF Calls
    <3> QED BY <1>1, <1>2, <2>2, <3>1, SetupStays DEF CallInv
  <2> QED BY <1>1, <2>1, <2>2, Zenon
<1>4. call' \in [Active -> Calls] /\ AttemptsGrow
  BY <1>1, <1>3, Zenon DEF AttemptsGrow
<1>5. /\ \A m \in msgs : MessageInv(m)'
      /\ \A i \in Nodes : \A p \in pending[i] : ForwardInv(i, p)'
  BY <1>1, <1>4, OldMessages, Zenon
<1>6. /\ pending' \in [Nodes -> SUBSET Forwards]
      /\ \A i \in Nodes : pending'[i] \subseteq pending[i]
  BY <1>1, <1>2, Zenon
<1>7. restarts' \in 0..setup.MaxRestarts
  BY <1>1, <1>2
<1>8. StoreInv'
  BY <1>1, SameStore, Zenon
<1> QED BY <1>1, <1>3, <1>4, <1>5, <1>6, <1>7, <1>8, SetupStays, Zenon DEF TypeInv

\* A call that goes on, with the store as it is or with a new record.
LEMMA CallTypes ==
    ASSUME TypeInv, UNCHANGED <<setup, now, restarts, pending>>, StoreInv', NEW c \in Active,
           NEW k, NEW j, NEW rest, rest \subseteq msgs, GoesOn(c, k, j, rest),
           Kind(c) = "publish" => k.after = {}, j.status = "stored" => Kind(c) = "publish",
           call[c].pc # "done"
    PROVE  TypeInv'
<1>1. /\ call' \in [Active -> Calls] /\ AttemptsGrow
      /\ \A d \in Active : CallInv(d)'
      /\ \A m \in msgs' : MessageInv(m)'
  BY GoesOnTypes, Zenon
<1>2. pending' \in [Nodes -> SUBSET Forwards] /\ \A n \in Nodes : pending'[n] \subseteq pending[n]
  BY Zenon DEF TypeInv
<1> QED BY <1>1, <1>2, TypesFrom, Zenon

\* A call that continues after an attempt.
LEMMA ContinueTypes ==
    ASSUME TypeInv, UNCHANGED <<setup, now, store, pending, given, restarts>>,
           NEW c, NEW stored_by, NEW rec, NEW rest, rest \subseteq msgs,
           Continues(c, stored_by, rec, rest)
    PROVE  TypeInv'
<1>1. c \in Active /\ call[c].pc = "waiting" /\ CallInv(c) /\ StoreInv'
  BY SameStore, Zenon DEF Continues, TypeInv
<1>2. PICK k, j : /\ k.after = call[c].after /\ GoesOn(c, k, j, rest)
                  /\ j.status = "stored" => Kind(c) = "publish"
  BY Zenon DEF Continues
<1>3. Kind(c) = "publish" => k.after = {}
  BY <1>1, <1>2, Zenon DEF CallInv
<1> QED BY <1>1, <1>2, <1>3, CallTypes, Zenon

\* Every step keeps the types.
LEMMA TypeStep ==
    ASSUME TypeInv, [Next]_vars
    PROVE  TypeInv'
<1>0. TypeInv /\ setup \in Scenarios
  BY Zenon DEF TypeInv
<1>1. ASSUME NEW m \in msgs, _handle_publish(m) PROVE TypeInv'
  <2>1. m \in Requests /\ m.kind = "publish" /\ MessageInv(m) /\ m.to \in Nodes
    <3>1. m \in Requests /\ m.kind = "publish"
      BY <1>1, Kinds, Zenon DEF _handle_publish
    <3> QED BY <3>1, Zenon DEF TypeInv, Requests
  <2>2. m.id.call \in Publications
    BY <2>1, Kinds, Zenon DEF MessageInv, Publications
  <2>3. UNCHANGED <<setup, now, call, restarts>>
    BY <1>0, <1>1, <2>1, PublishHandled, Zenon
  <2>4. PICK x : /\ Answers(m, x) \/ Passes(m, x)
                 /\ \/ UNCHANGED <<store, given>> \/ Gives(m.to, m.id.call)
    BY <1>0, <1>1, <2>1, PublishHandled, Zenon
  <2>5. StoreInv'
    BY <2>1, <2>2, <2>3, <2>4, SameStore, GivenTypes, Zenon
  <2> QED BY <2>1, <2>3, <2>4, <2>5, RequestTypes, Zenon
<1>2. ASSUME NEW m \in msgs, _handle_query(m) PROVE TypeInv'
  <2>1. m \in Requests
    BY <1>2, Kinds, Zenon DEF _handle_query
  <2>2. UNCHANGED <<setup, now, store, call, given, restarts>>
    BY <1>2, <2>1, QueryHandled, Zenon
  <2>3. PICK x : \/ /\ Answers(m, x) /\ x.status # "stored"
                    /\ x.status = "found" => x.rec # {}
                 \/ Passes(m, x)
    BY <1>2, <2>1, QueryHandled, Zenon
  <2>4. x \in Requests \/ (x.status # "stored" /\ (x.status = "found" => x.rec # {}))
    BY <2>3, Zenon DEF Passes
  <2>5. StoreInv'
    BY <2>2, SameStore, Zenon
  <2> QED BY <2>1, <2>2, <2>3, <2>4, <2>5, RequestTypes, Zenon
<1>3. ASSUME NEW m \in msgs, complete_result(m) PROVE TypeInv'
  <2>1. /\ UNCHANGED <<setup, now, store, pending, given, restarts>>
        /\ \/ msgs' = msgs \ {m} /\ call' = call
           \/ Continues(m.id.call, m.stored_by, m.rec, msgs \ {m})
    BY <1>3, ResultCompletes, Zenon
  <2>2. CASE msgs' = msgs \ {m} /\ call' = call
    <3>1. StoreInv' /\ call' \in [Active -> Calls] /\ AttemptsGrow /\ \A c \in Active : CallInv(c)'
      BY <2>1, <2>2, SameStore, SameCalls, Zenon
    <3>2. /\ pending' \in [Nodes -> SUBSET Forwards]
          /\ \A n \in Nodes : pending'[n] \subseteq pending[n]
      BY <2>1, Zenon DEF TypeInv
    <3> QED BY <2>1, <2>2, <3>1, <3>2, TypesFrom, Zenon
  <2>3. CASE Continues(m.id.call, m.stored_by, m.rec, msgs \ {m})
    <3>1. msgs \ {m} \subseteq msgs
      BY Zenon
    <3> QED BY <2>1, <2>3, <3>1, ContinueTypes, Zenon
  <2> QED BY <2>1, <2>2, <2>3, Zenon
<1>4. ASSUME NEW n \in Nodes, _cleanup_pending_forwards(n) PROVE TypeInv'
  <2>1. /\ UNCHANGED <<setup, now, store, msgs, call, given, restarts>>
        /\ \E p : pending' = [pending EXCEPT ![n] = @ \ {p}]
    BY <1>4, Zenon DEF _cleanup_pending_forwards
  <2>2. StoreInv' /\ call' \in [Active -> Calls] /\ AttemptsGrow /\ \A c \in Active : CallInv(c)'
    BY <2>1, SameStore, SameCalls, Zenon
  <2>3. /\ pending' \in [Nodes -> SUBSET Forwards]
        /\ \A i \in Nodes : pending'[i] \subseteq pending[i]
    BY <2>1, Zenon DEF TypeInv
  <2> QED BY <2>1, <2>2, <2>3, TypesFrom, Zenon
<1>5. ASSUME NEW c \in Active, publish(c) PROVE TypeInv'
  <2>1. /\ Kind(c) = "publish" /\ call[c].pc = "idle"
        /\ UNCHANGED <<setup, now, pending, restarts>>
    BY <1>5, PublishStarts, Zenon
  <2>2. PICK k, j : /\ k.after = call[c].after
                    /\ UNCHANGED <<store, given>> \/ Gives(At(c), c)
                    /\ GoesOn(c, k, j, msgs)
    BY <1>5, PublishStarts, Zenon
  <2>3. At(c) \in Nodes /\ c \in Publications /\ k.after = {}
    BY <1>0, <2>1, <2>2, SetupFacts, Zenon DEF Publications, TypeInv, CallInv
  <2>4. StoreInv'
    BY <2>1, <2>2, <2>3, SameStore, GivenTypes, Zenon
  <2> QED BY <2>1, <2>2, <2>3, <2>4, CallTypes, Zenon
<1>6. ASSUME NEW c \in Active, query(c) PROVE TypeInv'
  <2>1. /\ Kind(c) = "query" /\ call[c].pc = "idle"
        /\ UNCHANGED <<setup, now, store, pending, given, restarts>>
    BY <1>6, QueryStarts, Zenon
  <2>2. PICK k, j : GoesOn(c, k, j, msgs) /\ j.status # "stored"
    BY <1>6, QueryStarts, Zenon
  <2>3. StoreInv'
    BY <2>1, SameStore, Zenon
  <2> QED BY <2>1, <2>2, <2>3, CallTypes, Zenon
<1>7. ASSUME NEW c \in Active, _send_and_wait_result_timeout(c) PROVE TypeInv'
  BY <1>7, AttemptTimesOut, ContinueTypes, Zenon
<1>8. CASE Tick
  <2>1. UNCHANGED <<setup, store, pending, msgs, call, given, restarts>>
    BY <1>8, Zenon DEF Tick
  <2>2. now' \in 0..setup.MaxTime
    BY <1>0, <1>8, SetupFacts DEF Tick, TypeInv
  <2>3. StoreInv' /\ call' \in [Active -> Calls] /\ AttemptsGrow /\ \A c \in Active : CallInv(c)'
    BY <2>1, SameStore, SameCalls, Zenon
  <2>4. /\ \A m \in msgs : MessageInv(m)'
        /\ \A i \in Nodes : \A p \in pending[i] : ForwardInv(i, p)'
    BY <2>1, <2>3, OldMessages, Zenon
  <2> QED BY <2>1, <2>2, <2>3, <2>4, SetupStays, Zenon DEF TypeInv
<1>9. CASE UNCHANGED vars
  <2>1. UNCHANGED <<setup, now, store, pending, msgs, call, given, restarts>>
    BY <1>9, Zenon DEF vars
  <2>2. StoreInv' /\ call' \in [Active -> Calls] /\ AttemptsGrow /\ \A c \in Active : CallInv(c)'
    BY <2>1, SameStore, SameCalls, Zenon
  <2>3. pending' \in [Nodes -> SUBSET Forwards] /\ \A n \in Nodes : pending'[n] \subseteq pending[n]
    BY <2>1, Zenon DEF TypeInv
  <2> QED BY <2>1, <2>2, <2>3, TypesFrom, Zenon
<1> QED
  BY <1>1, <1>2, <1>3, <1>4, <1>5, <1>6, <1>7, <1>8, <1>9, PopTypes, RestartTypes, Zenon DEF Next

\* The types hold at the start.
LEMMA TypeInit ==
    ASSUME Init
    PROVE  TypeInv
<1>1. /\ setup \in Scenarios /\ now = 0 /\ store = setup.store
      /\ pending = [n \in Nodes |-> {}] /\ msgs = {} /\ call = [c \in Active |-> IdleCall]
      /\ given = [n \in Nodes |-> {}] /\ restarts = 0
  BY Zenon DEF Init
<1>2. now \in 0..setup.MaxTime /\ restarts \in 0..setup.MaxRestarts
  BY <1>1, SetupFacts
<1>3. StoreInv
  BY <1>1, SetupFacts, Zenon DEF StoreInv
<1>4. IdleCall \in Calls
  BY Zenon DEF IdleCall, Calls, Statuses, Recs
<1>5. /\ IdleCall.pc = "idle" /\ IdleCall.attempt = 0 /\ IdleCall.status = "none"
      /\ IdleCall.after = {}
  BY Zenon DEF IdleCall
<1>6. call \in [Active -> Calls] /\ \A c \in Active : CallInv(c)
  BY <1>1, <1>4, <1>5, Zenon DEF CallInv
<1> QED BY <1>1, <1>2, <1>3, <1>6, Zenon DEF TypeInv

\* The types always hold.
LEMMA TypeInvAlways == Spec => []TypeInv
  BY TypeInit, TypeStep, PTL DEF Spec

\* The types hold in every reachable state, with any nodes, views, calls and
\* restarts: above all a node has at most one record of the key
\* (_upsert_local_record), every request keeps the hops it has left in step
\* with the hops it took, and nothing is sent by a node to itself
\* (_forward_or_return_failure, _pop_pending_forward).
THEOREM TypeCorrect == Spec => []TypeOK
<1>1. ASSUME TypeInv PROVE TypeOK
  <2>1. now \in 0..setup.MaxTime /\ restarts \in 0..setup.MaxRestarts
    BY <1>1, Zenon DEF TypeInv
  <2>2. ASSUME NEW n \in Nodes PROVE Cardinality(store[n]) <= 1 /\ given[n] \subseteq Active
    <3>1. (\A x, y \in store[n] : x = y) /\ given[n] \subseteq Publications
      BY <1>1, Zenon DEF TypeInv, StoreInv
    <3>2. store[n] = {} \/ \E x : store[n] = {x}
      BY <3>1, Zenon
    <3>3. Cardinality(store[n]) <= 1
      BY <3>2, FS_EmptySet, FS_Singleton
    <3> QED BY <3>1, <3>3, Zenon DEF Publications
  <2>3. ASSUME NEW n \in Nodes, NEW p \in pending[n] PROVE p.prev \in Nodes /\ p.id.hop > 0
    BY <1>1 DEF TypeInv, ForwardInv, Forwards
  <2>4. ASSUME NEW m \in msgs
        PROVE  /\ {m.from, m.to} \subseteq Nodes /\ m.from # m.to
               /\ m.stored_by \subseteq Nodes
               /\ m.kind # "result" => m.ttl = setup.ttl - m.id.hop /\ m.ttl >= 0
    <3>1. MessageInv(m)
      BY <1>1, Zenon DEF TypeInv
    <3>2. CASE m \in Requests
      <4>1. m.from \in Nodes /\ m.to \in Nodes /\ m.stored_by \subseteq Nodes /\ m.ttl \in Nat
        BY <3>2, Zenon DEF Requests
      <4> QED BY <3>1, <3>2, <4>1 DEF MessageInv
    <3>3. CASE m \in Results
      <4>1. m.from \in Nodes /\ m.to \in Nodes /\ m.stored_by \subseteq Nodes /\ m.kind = "result"
        BY <3>3, Zenon DEF Results
      <4> QED BY <3>1, <4>1, Zenon DEF MessageInv
    <3> QED BY <3>1, <3>2, <3>3, Zenon DEF MessageInv
  <2>5. ASSUME NEW c \in Active
        PROVE  /\ call[c].pc \in {"idle", "waiting", "done", "lost"}
               /\ call[c].status \in Statuses /\ call[c].attempted \subseteq Nodes
    BY <1>1, Zenon DEF TypeInv, Calls
  <2> QED BY <2>1, <2>2, <2>3, <2>4, <2>5, Zenon DEF TypeOK
<1> QED BY <1>1, TypeInvAlways, PTL
----------------------------------------------------------------------------
(* What a node holds is what it was given.                                 *)

\* The records node n started with or was given.
Sources(n) == setup.store[n] \cup {Fragment(c) : c \in given[n]}

\* Record r is what the records in S amount to at time t: it covers each of
\* them and has nothing else that is still valid.
HeldFrom(ns, t, r, S) ==
    /\ \A f \in S : CoversAt(ns, t, r, f)
    /\ \A e \in Unexpired(r.items, t) : \E f \in S : e \in f.items
    /\ \E f \in S : r.head = f.head /\ r.ref = f.ref

\* What every node holds is what it started with and was given.
HeldInv ==
    \A n \in Nodes : /\ Sources(n) # {} => store[n] # {}
                     /\ \A r \in store[n] : HeldFrom(setup.ns, now, r, Sources(n))

\* What a node started with or was given are records of the scenario.
LEMMA SourcesAreRecords ==
    ASSUME TypeInv, NEW n \in Nodes
    PROVE  Sources(n) \subseteq RecordsOf(setup) /\ Sources(n) \in Recs
<1>1. /\ setup.store[n] \in Recs /\ given[n] \subseteq Publications
      /\ \A c \in Active : Fragment(c) \in Records(setup.ns)
  BY SetupFacts, Zenon DEF TypeInv, StoreInv
<1>2. Sources(n) \in Recs
  BY <1>1, Zenon DEF Sources, Recs, Publications
<1>3. Sources(n) \subseteq RecordsOf(setup)
  BY <1>1, Zenon DEF Sources, RecordsOf, Publications, Active, Kind, Fragment
<1> QED BY <1>2, <1>3, Zenon

\* Heads that a scenario fixes are the same everywhere.
LEMMA HeadsAgree ==
    ASSUME OneDescription, setup \in Scenarios, NEW x \in RecordsOf(setup),
           NEW y \in RecordsOf(setup), setup.ns \in {"drt", "ddt", "dtt"}
    PROVE  x.head = y.head
  BY SetupFacts, Zenon DEF OneDescription, OneHead

\* Covers, for the namespace of the scenario and the time it is.
LEMMA CoversIsCoversAt ==
    ASSUME setup \in Scenarios, NEW r, NEW f
    PROVE  Covers(r, f) <=> CoversAt(setup.ns, now, r, f)
<1>1. setup.ns \in Namespaces
  BY SetupFacts, Zenon
<1> QED BY <1>1, Zenon DEF Covers, CoversAt, Namespaces

\* Time changes nothing in that.
LEMMA HeldLater ==
    ASSUME NEW ns \in Namespaces, NEW t \in Int, NEW r \in Records(ns),
           NEW S \in SUBSET Records(ns), HeldFrom(ns, t, r, S)
    PROVE  HeldFrom(ns, t + 1, r, S)
<1>1. Unexpired(r.items, t + 1) \subseteq Unexpired(r.items, t)
  BY DEF Unexpired, _is_expired, Records, Entry
<1>2. \A f \in S : CoversAt(ns, t + 1, r, f)
  BY CoversLater, Zenon DEF HeldFrom
<1> QED BY <1>1, <1>2, Zenon DEF HeldFrom

\* A record merged with fragment f is what its sources and f amount to.
LEMMA MergeHeld ==
    ASSUME NEW ns \in Namespaces, NEW t \in Int, NEW r \in Records(ns),
           NEW S \in SUBSET Records(ns), NEW f \in Records(ns), HeldFrom(ns, t, r, S),
           NEW g \in validate_and_merge(ns, r, f, t)
    PROVE  HeldFrom(ns, t, g, S \cup {f})
<1>1. \A h \in S : CoversAt(ns, t, g, h)
  BY MergeKeeps, Zenon DEF HeldFrom
<1>2. CoversAt(ns, t, g, f)
  BY CoversItself, MergeKeeps, Zenon
<1>3. /\ g.items \subseteq r.items \cup f.items
      /\ (g.head = r.head /\ g.ref = r.ref) \/ (g.head = f.head /\ g.ref = f.ref)
  BY MergeReturns, Zenon
<1>4. \A e \in Unexpired(g.items, t) : \E h \in S \cup {f} : e \in h.items
  BY <1>3, Zenon DEF HeldFrom, Unexpired
<1>5. \E h \in S \cup {f} : g.head = h.head /\ g.ref = h.ref
  BY <1>3, Zenon DEF HeldFrom
<1> QED BY <1>1, <1>2, <1>4, <1>5, Zenon DEF HeldFrom

\* A fragment the merge raises on adds nothing.
LEMMA RaisedHeld ==
    ASSUME NEW ns \in Namespaces, NEW t \in Int, NEW r \in Records(ns),
           NEW S \in SUBSET Records(ns), NEW f \in Records(ns), HeldFrom(ns, t, r, S),
           validate_and_merge(ns, r, f, t) = {}, ns = "ddt" => r.head = f.head
    PROVE  HeldFrom(ns, t, r, S \cup {f})
<1>1. CoversAt(ns, t, r, f)
  BY RaisingMergeAddsNothing, Zenon
<1> QED BY <1>1, Zenon DEF HeldFrom

\* A node that is given a fragment holds what it held and the fragment.
LEMMA GivenHeld ==
    ASSUME OneDescription, TypeInv, HeldInv, setup' = setup, now' = now,
           NEW n \in Nodes, NEW c \in Publications, Gives(n, c)
    PROVE  HeldInv'
<1>1. /\ store \in [Nodes -> Recs] /\ given \in [Nodes -> SUBSET Publications]
      /\ setup.ns \in Namespaces /\ now \in Int /\ Fragment(c) \in Records(setup.ns)
      /\ \A x, y \in store[n] : x = y
      /\ setup \in Scenarios
  BY SetupFacts DEF TypeInv, StoreInv, Publications
<1>2. /\ store' = [store EXCEPT ![n] = _upsert_local_record(n, c)]
      /\ given' = [given EXCEPT ![n] = @ \cup {c}]
  BY Zenon DEF Gives
<1>3. Sources(n)' = Sources(n) \cup {Fragment(c)}
  <2>1. given'[n] = given[n] \cup {c}
    BY <1>1, <1>2, Zenon
  <2> QED BY <2>1, SetupStays, Zenon DEF Sources
<1>4. Sources(n) \in SUBSET Records(setup.ns) /\ Sources(n) \subseteq RecordsOf(setup)
  BY SourcesAreRecords, Zenon DEF Recs
<1>5. \A r \in store[n] : r \in Records(setup.ns) /\ HeldFrom(setup.ns, now, r, Sources(n))
  BY <1>1, Zenon DEF HeldInv, Recs
<1>6. /\ _upsert_local_record(n, c) # {}
      /\ \A r \in _upsert_local_record(n, c) :
           HeldFrom(setup.ns, now, r, Sources(n) \cup {Fragment(c)})
  <2>1. CASE store[n] = {}
    <3>1. Sources(n) = {}
      BY <2>1, Zenon DEF HeldInv
    <3>2. _upsert_local_record(n, c) = {Fragment(c)}
      BY <2>1, Zenon DEF _upsert_local_record
    <3>3. CoversAt(setup.ns, now, Fragment(c), Fragment(c))
      BY <1>1, CoversItself, Zenon
    <3>4. HeldFrom(setup.ns, now, Fragment(c), {Fragment(c)})
      BY <3>3, Zenon DEF HeldFrom, Unexpired
    <3> QED BY <3>1, <3>2, <3>4, Zenon
  <2>2. CASE store[n] # {}
    <3>1. PICK r : store[n] = {r}
      BY <1>1, <2>2, Zenon
    <3>2. PICK merged : merged = validate_and_merge(setup.ns, r, Fragment(c), now)
      BY Zenon
    <3>3. UNION {validate_and_merge(setup.ns, s, Fragment(c), now) : s \in store[n]} = merged
      BY <3>1, <3>2, Zenon
    <3>4. _upsert_local_record(n, c) = IF merged = {} THEN store[n] ELSE merged
      BY <2>2, <3>3, Zenon DEF _upsert_local_record
    <3>5. r \in Records(setup.ns) /\ HeldFrom(setup.ns, now, r, Sources(n))
      BY <1>5, <3>1, Zenon
    <3>6. CASE merged # {}
      BY <1>1, <1>4, <3>2, <3>4, <3>5, <3>6, MergeHeld, Zenon
    <3>7. CASE merged = {}
      <4>1. setup.ns = "ddt" => r.head = Fragment(c).head
        <5>1. PICK s \in Sources(n) : r.head = s.head
          BY <3>5, Zenon DEF HeldFrom
        <5>2. Fragment(c) \in RecordsOf(setup)
          BY Zenon DEF RecordsOf, Publications, Active, Kind, Fragment
        <5> QED BY <1>1, <1>4, <5>1, <5>2, HeadsAgree, Zenon
      <4>2. HeldFrom(setup.ns, now, r, Sources(n) \cup {Fragment(c)})
        BY <1>1, <1>4, <3>2, <3>5, <3>7, <4>1, RaisedHeld, Zenon
      <4> QED BY <3>1, <3>4, <3>7, <4>2, Zenon
    <3> QED BY <3>6, <3>7, Zenon
  <2> QED BY <2>1, <2>2, Zenon
<1>7. ASSUME NEW i \in Nodes
      PROVE  /\ Sources(i)' # {} => store'[i] # {}
             /\ \A r \in store'[i] : HeldFrom(setup.ns, now, r, Sources(i)')
  <2>1. CASE i = n
    <3>1. store'[i] = _upsert_local_record(n, c)
      BY <1>1, <1>2, <2>1, Zenon
    <3> QED BY <1>3, <1>6, <2>1, <3>1, Zenon
  <2>2. CASE i # n
    <3>1. store'[i] = store[i] /\ given'[i] = given[i]
      BY <1>1, <1>2, <2>2, Zenon
    <3>2. Sources(i)' = Sources(i)
      BY <3>1, SetupStays, Zenon DEF Sources
    <3> QED BY <3>1, <3>2, Zenon DEF HeldInv
  <2> QED BY <2>1, <2>2, Zenon
<1> QED BY <1>7, Zenon DEF HeldInv

\* The records of a node change when it is given a fragment, and then only.
LEMMA StoreSteps ==
    ASSUME TypeInv, [Next]_vars
    PROVE  /\ setup' = setup
           /\ \/ UNCHANGED <<store, given>> /\ (now' = now \/ now' = now + 1)
              \/ now' = now /\ \E n \in Nodes, c \in Publications : Gives(n, c)
<1>0. setup \in Scenarios
  BY Zenon DEF TypeInv
<1>1. ASSUME NEW m \in msgs, _handle_publish(m)
      PROVE  /\ UNCHANGED <<setup, now>>
             /\ \/ UNCHANGED <<store, given>>
                \/ \E n \in Nodes, c \in Publications : Gives(n, c)
  <2>1. m \in Requests /\ m.kind = "publish" /\ MessageInv(m) /\ m.to \in Nodes
    <3>1. m \in Requests /\ m.kind = "publish"
      BY <1>1, Kinds, Zenon DEF _handle_publish
    <3> QED BY <3>1, Zenon DEF TypeInv, Requests
  <2>2. m.id.call \in Publications
    BY <2>1, Kinds, Zenon DEF MessageInv, Publications
  <2> QED BY <1>0, <1>1, <2>1, <2>2, PublishHandled, Zenon
<1>2. ASSUME NEW c \in Active, publish(c)
      PROVE  /\ UNCHANGED <<setup, now>>
             /\ \/ UNCHANGED <<store, given>>
                \/ \E n \in Nodes, d \in Publications : Gives(n, d)
  <2>1. Kind(c) = "publish" /\ At(c) \in Nodes /\ c \in Publications
    BY <1>0, <1>2, PublishStarts, SetupFacts, Zenon DEF Publications
  <2> QED BY <1>2, <2>1, PublishStarts, Zenon
<1>3. ASSUME NEW m \in msgs,
             _handle_query(m) \/ _pop_pending_forward(m) \/ complete_result(m)
      PROVE  UNCHANGED <<setup, now, store, given>>
  BY <1>3, Zenon DEF _handle_query, _pop_pending_forward, complete_result
<1>4. ASSUME NEW n \in Nodes, _cleanup_pending_forwards(n) \/ Restart(n)
      PROVE  UNCHANGED <<setup, now, store, given>>
  BY <1>4, Zenon DEF _cleanup_pending_forwards, Restart
<1>5. ASSUME NEW c \in Active, query(c) \/ _send_and_wait_result_timeout(c)
      PROVE  UNCHANGED <<setup, now, store, given>>
  BY <1>5, Zenon DEF query, _send_and_wait_result_timeout
<1>6. CASE Tick
  BY <1>6, Zenon DEF Tick
<1>7. CASE UNCHANGED vars
  BY <1>7, Zenon DEF vars
<1> QED BY <1>1, <1>2, <1>3, <1>4, <1>5, <1>6, <1>7, Zenon DEF Next

\* Every step keeps what the nodes hold.
LEMMA HeldStep ==
    ASSUME OneDescription, TypeInv, HeldInv, [Next]_vars
    PROVE  HeldInv'
<1>1. /\ setup' = setup
      /\ \/ UNCHANGED <<store, given>> /\ (now' = now \/ now' = now + 1)
         \/ now' = now /\ \E n \in Nodes, c \in Publications : Gives(n, c)
  BY StoreSteps, Zenon
<1>2. CASE UNCHANGED <<store, given>> /\ (now' = now \/ now' = now + 1)
  <2>1. ASSUME NEW n \in Nodes, NEW r \in store[n]
        PROVE  HeldFrom(setup.ns, now', r, Sources(n))
    <3>1. /\ r \in Records(setup.ns) /\ Sources(n) \in SUBSET Records(setup.ns)
          /\ setup.ns \in Namespaces /\ now \in Int
          /\ HeldFrom(setup.ns, now, r, Sources(n))
      BY SetupFacts, SourcesAreRecords DEF TypeInv, StoreInv, Recs, HeldInv
    <3> QED BY <1>2, <3>1, HeldLater, Zenon
  <2>2. \A n \in Nodes : Sources(n)' = Sources(n)
    BY <1>1, <1>2, SetupStays, Zenon DEF Sources
  <2> QED BY <1>1, <1>2, <2>1, <2>2, Zenon DEF HeldInv
<1>3. CASE now' = now /\ \E n \in Nodes, c \in Publications : Gives(n, c)
  BY <1>1, <1>3, GivenHeld, Zenon
<1> QED BY <1>1, <1>2, <1>3, Zenon

\* At the start a node holds what the scenario gave it.
LEMMA HeldInit ==
    ASSUME Init
    PROVE  HeldInv
<1>1. /\ setup \in Scenarios /\ now = 0 /\ store = setup.store
      /\ given = [n \in Nodes |-> {}]
  BY Zenon DEF Init
<1>2. \A n \in Nodes : Sources(n) = store[n]
  BY <1>1, Zenon DEF Sources
<1>3. ASSUME NEW n \in Nodes, NEW r \in store[n]
      PROVE  HeldFrom(setup.ns, now, r, store[n])
  <2>1. setup.ns \in Namespaces /\ now \in Int /\ r \in Records(setup.ns) /\ store[n] = {r}
    BY <1>1, SetupFacts DEF Recs
  <2>2. CoversAt(setup.ns, now, r, r)
    BY <2>1, CoversItself, Zenon
  <2> QED BY <2>1, <2>2, Zenon DEF HeldFrom, Unexpired
<1> QED BY <1>2, <1>3, Zenon DEF HeldInv

\* The two together, which is what the theorems start from.
HeldTyped == TypeInv /\ (OneDescription => HeldInv)

\* Who publishes what does not change.
LEMMA DescriptionStays ==
    ASSUME setup' = setup
    PROVE  OneDescription' = OneDescription
<1>1. OneHead(setup)' = OneHead(setup)
  BY Zenon
<1> QED BY <1>1 DEF OneDescription

\* Both always hold.
LEMMA HeldAlways == Spec => []HeldTyped
<1>1. Init => HeldTyped
  BY TypeInit, HeldInit, Zenon DEF HeldTyped
<1>2. ASSUME HeldTyped, [Next]_vars PROVE HeldTyped'
  <2>1. TypeInv' /\ OneDescription' = OneDescription
    BY <1>2, TypeStep, StoreSteps, DescriptionStays, Zenon DEF HeldTyped
  <2>2. OneDescription => HeldInv'
    BY <1>2, HeldStep, Zenon DEF HeldTyped
  <2> QED BY <2>1, <2>2, Zenon DEF HeldTyped
<1> QED BY <1>1, <1>2, PTL DEF Spec

\* Two drt records that amount to the same records show the same entries.
LEMMA SameRoutes ==
    ASSUME NEW t \in Int, NEW r \in Records("drt"), NEW s \in Records("drt"),
           NEW S \in SUBSET Records("drt"), HeldFrom("drt", t, r, S), HeldFrom("drt", t, s, S),
           NEW x \in Unexpired(r.items, t)
    PROVE  x \in Unexpired(s.items, t)
<1>1. /\ x \in Entry /\ ~_is_expired(x, t) /\ x \in r.items
      /\ r.items \subseteq Entry /\ s.items \subseteq Entry /\ UniquePaths(r.items)
  BY Zenon DEF Unexpired, Records
<1>2. PICK f \in S : x \in f.items
  BY Zenon DEF HeldFrom
<1>3. x \in Unexpired(f.items, t)
  BY <1>1, <1>2, Zenon DEF Unexpired
<1>4. PICK y \in s.items : y.path = x.path /\ ~_is_better_drt_route_entry(x, y)
  BY <1>2, <1>3, Zenon DEF HeldFrom, CoversAt
<1>5. y \in Entry /\ ~_is_expired(y, t)
  BY <1>1, <1>4, BetterLivesLonger, Zenon
<1>6. PICK g \in S : y \in g.items
  BY <1>4, <1>5, Zenon DEF HeldFrom, Unexpired
<1>7. y \in Unexpired(g.items, t)
  BY <1>5, <1>6, Zenon DEF Unexpired
<1>8. PICK z \in r.items : z.path = y.path /\ ~_is_better_drt_route_entry(y, z)
  BY <1>6, <1>7, Zenon DEF HeldFrom, CoversAt
<1>9. z = x
  BY <1>1, <1>4, <1>8, Zenon DEF UniquePaths
<1>10. x = y
  BY <1>1, <1>4, <1>5, <1>8, <1>9, BetterIsTotal, Zenon
<1> QED BY <1>1, <1>4, <1>10, Zenon DEF Unexpired

\* Two records that amount to the same records show the same.
LEMMA SameShown ==
    ASSUME OneDescription, NoTies, TypeInv, setup.ns # "dpnt", NEW S \in SUBSET RecordsOf(setup),
           S \in Recs, NEW r \in Records(setup.ns), NEW s \in Records(setup.ns),
           HeldFrom(setup.ns, now, r, S), HeldFrom(setup.ns, now, s, S)
    PROVE  /\ r.head = s.head /\ r.ref = s.ref
           /\ Unexpired(r.items, now) = Unexpired(s.items, now)
<1>0. PICK f \in S, g \in S : /\ r.head = f.head /\ r.ref = f.ref
                              /\ s.head = g.head /\ s.ref = g.ref
  BY Zenon DEF HeldFrom
<1>1. setup.ns \in {"drt", "ddt", "dtt", "dpt"} /\ now \in Int /\ setup \in Scenarios
  BY SetupFacts DEF TypeInv, Namespaces
<1>2. CASE setup.ns = "dpt"
  <2>1. r.items = {} /\ s.items = {} /\ r.head \in Int /\ s.head \in Int
    BY <1>2, Zenon DEF Records
  <2>2. r.head >= s.head /\ s.head >= r.head
    BY <1>2, Zenon DEF HeldFrom, CoversAt
  <2>3. r.head = s.head
    BY <2>1, <2>2
  <2>4. f = g
    BY <1>0, <1>2, <2>3, Zenon DEF NoTies
  <2> QED BY <1>0, <2>1, <2>3, <2>4, Zenon
<1>3. CASE setup.ns \in {"drt", "ddt", "dtt"}
  <2>1. r.head = s.head /\ r.ref = s.ref
    <3>1. r.head = s.head
      BY <1>0, <1>1, <1>3, HeadsAgree, Zenon
    <3>2. r.ref = 0 /\ s.ref = 0
      BY <1>3, Zenon DEF Records
    <3> QED BY <3>1, <3>2, Zenon
  <2>2. CASE setup.ns = "drt"
    <3>1. /\ \A x \in Unexpired(r.items, now) : x \in Unexpired(s.items, now)
          /\ \A x \in Unexpired(s.items, now) : x \in Unexpired(r.items, now)
      BY <1>1, <2>2, SameRoutes DEF Recs
    <3> QED BY <2>1, <3>1, Zenon
  <2>3. CASE setup.ns \in {"ddt", "dtt"}
    <3>1. ASSUME NEW a, NEW b, HeldFrom(setup.ns, now, a, S), HeldFrom(setup.ns, now, b, S),
                 NEW x \in Unexpired(a.items, now)
          PROVE  x \in Unexpired(b.items, now)
      <4>1. PICK h \in S : x \in h.items
        BY <3>1, Zenon DEF HeldFrom
      <4>2. x \in Unexpired(h.items, now)
        BY <4>1, Zenon DEF Unexpired
      <4>3. Unexpired(h.items, now) \subseteq b.items
        BY <2>3, <3>1, <4>1, Zenon DEF HeldFrom, CoversAt
      <4> QED BY <4>2, <4>3, Zenon DEF Unexpired
    <3>2. \A x \in Unexpired(r.items, now) : x \in Unexpired(s.items, now)
      BY <3>1, Zenon
    <3>3. \A x \in Unexpired(s.items, now) : x \in Unexpired(r.items, now)
      BY <3>1, Zenon
    <3> QED BY <2>1, <3>2, <3>3, Zenon
  <2> QED BY <1>3, <2>2, <2>3, Zenon
<1> QED BY <1>1, <1>2, <1>3, Zenon

\* Two nodes that started alike and were given the same fragments show the
\* same, whatever the order, the times and the number of times in which
\* _handle_publish gave them to _upsert_local_record, and whichever items
\* expired in between: for drt and dtt always, for ddt when the publishers
\* give the content the same metadata, for dpt when no two versions have the
\* same last_modified.
THEOREM ReplicasAgree == Spec => []ReplicasConverge
<1>1. ASSUME HeldTyped PROVE ReplicasConverge
  <2>1. SUFFICES ASSUME NEW m \in Nodes, NEW n \in Nodes, setup.ns # "dpnt",
                        OneDescription, NoTies,
                        setup.store[m] = setup.store[n], given[m] = given[n]
                 PROVE  Visible(m) = Visible(n)
    BY Zenon DEF ReplicasConverge
  <2>0. TypeInv /\ HeldInv
    BY <1>1, <2>1, Zenon DEF HeldTyped
  <2>2. Sources(m) = Sources(n)
    BY <2>1, Zenon DEF Sources
  <2>3. /\ Sources(n) \in SUBSET RecordsOf(setup) /\ Sources(n) \in Recs
        /\ store[m] \in Recs /\ store[n] \in Recs
    BY <2>0, SourcesAreRecords, Zenon DEF TypeInv, StoreInv
  <2>4. ASSUME NEW r \in store[m], NEW s \in store[n]
        PROVE  /\ r.head = s.head /\ r.ref = s.ref
               /\ Unexpired(r.items, now) = Unexpired(s.items, now)
    <3>1. /\ HeldFrom(setup.ns, now, r, Sources(n)) /\ HeldFrom(setup.ns, now, s, Sources(n))
          /\ r \in Records(setup.ns) /\ s \in Records(setup.ns)
      BY <2>0, <2>2, <2>3, Zenon DEF HeldInv, Recs
    <3> QED BY <2>0, <2>1, <2>3, <3>1, SameShown, Zenon
  <2>5. store[m] = {} <=> store[n] = {}
    <3>1. \A i \in Nodes : store[i] = {} <=> Sources(i) = {}
      BY <2>0, Zenon DEF HeldInv, HeldFrom
    <3> QED BY <2>2, <3>1, Zenon
  <2>6. ASSUME NEW a \in Nodes, NEW b \in Nodes, store[a] = {} <=> store[b] = {},
               \A r \in store[a], s \in store[b] :
                 /\ r.head = s.head /\ r.ref = s.ref
                 /\ Unexpired(r.items, now) = Unexpired(s.items, now),
               NEW v \in Visible(a)
        PROVE  v \in Visible(b)
    <3>1. PICK r \in store[a] :
             v = [head |-> r.head, ref |-> r.ref, items |-> Unexpired(r.items, now)]
      BY <2>6, Zenon DEF Visible
    <3>2. PICK s \in store[b] : TRUE
      BY <2>6, <3>1, Zenon
    <3>3. v = [head |-> s.head, ref |-> s.ref, items |-> Unexpired(s.items, now)]
      BY <2>6, <3>1, <3>2, Zenon
    <3> QED BY <3>2, <3>3, Zenon DEF Visible
  <2>7. \A v \in Visible(m) : v \in Visible(n)
    BY <2>4, <2>5, <2>6, Zenon
  <2>8. \A v \in Visible(n) : v \in Visible(m)
    BY <2>4, <2>5, <2>6, Zenon
  <2> QED BY <2>7, <2>8, Zenon
<1> QED BY <1>1, HeldAlways, PTL
----------------------------------------------------------------------------
(* What is reported stored is held.                                        *)

\* The nodes that were given the fragment of call c.
Given(c) == {n \in Nodes : c \in given[n]}

\* Who is counted as a replica of call c was given its fragment.
CountInv ==
    /\ \A m \in msgs : m.stored_by \subseteq Given(m.id.call)
    /\ \A c \in Active :
         /\ call[c].stored_by \subseteq Given(c)
         /\ Kind(c) = "publish" /\ call[c].pc # "idle" =>
              call[c].required = Cardinality(select_k_closest_nodes(At(c)))
         /\ call[c].status = "stored" =>
              Kind(c) = "publish" /\ Cardinality(call[c].stored_by) >= call[c].required

\* What was given stays given.
LEMMA GivenGrows ==
    ASSUME TypeInv, [Next]_vars
    PROVE  \A c : Given(c) \subseteq Given(c)'
<1>1. CASE UNCHANGED <<store, given>>
  BY <1>1, Zenon DEF Given
<1>2. CASE \E n \in Nodes, c \in Publications : Gives(n, c)
  <2>1. PICK n \in Nodes, c \in Publications : given' = [given EXCEPT ![n] = @ \cup {c}]
    BY <1>2, Zenon DEF Gives
  <2>2. given \in [Nodes -> SUBSET Publications]
    BY Zenon DEF TypeInv, StoreInv
  <2> QED BY <2>1, <2>2, Zenon DEF Given
<1> QED BY <1>1, <1>2, StoreSteps, Zenon

\* A call that goes on counts nodes that were given its fragment.
LEMMA CountGoesOn ==
    ASSUME TypeInv, CountInv, setup' = setup, \A d : Given(d) \subseteq Given(d)',
           NEW c \in Active, NEW k, NEW j, NEW rest, rest \subseteq msgs,
           GoesOn(c, k, j, rest), k.stored_by \subseteq Given(c)',
           Kind(c) = "publish" => k.required = Cardinality(select_k_closest_nodes(At(c))),
           j.status = "stored" => Kind(c) = "publish" /\ Cardinality(j.stored_by) >= j.required
    PROVE  CountInv'
<1>1. /\ call' = [call EXCEPT ![c] = j] /\ j.stored_by = k.stored_by
      /\ j.required = k.required
      /\ \A m \in msgs' : m \in msgs \/ (m.stored_by = k.stored_by /\ m.id.call = c)
  BY Zenon DEF GoesOn, Asks, Returns
<1>2. call \in [Active -> Calls]
  BY Zenon DEF TypeInv
<1>3. \A m \in msgs' : m.stored_by \subseteq Given(m.id.call)'
  BY <1>1, Zenon DEF CountInv
<1>4. ASSUME NEW d \in Active
      PROVE  /\ call'[d].stored_by \subseteq Given(d)'
             /\ Kind(d) = "publish" /\ call'[d].pc # "idle" =>
                  call'[d].required = Cardinality(select_k_closest_nodes(At(d)))
             /\ call'[d].status = "stored" =>
                  Kind(d) = "publish" /\ Cardinality(call'[d].stored_by) >= call'[d].required
  <2>1. CASE d = c
    <3>1. call'[d] = j
      BY <1>1, <1>2, <2>1, Zenon
    <3> QED BY <1>1, <2>1, <3>1, Zenon
  <2>2. CASE d # c
    <3>1. call'[d] = call[d]
      BY <1>1, <1>2, <2>2, Zenon
    <3> QED BY <3>1, Zenon DEF CountInv
  <2> QED BY <2>1, <2>2, Zenon
<1> QED BY <1>3, <1>4, SetupStays, Zenon DEF CountInv

----------------------------------------------------------------------------
(* The steps, once more: every step is one of seven, and each says what it *)
(* does to the replicas, the messages and the calls.                       *)

\* Request m of a publication becomes x.
PublishStep(m, x) ==
    /\ m \in msgs /\ m \in Requests /\ m.kind = "publish" /\ m.to \in Nodes
    /\ UNCHANGED <<now, call>> /\ (Answers(m, x) \/ Passes(m, x)) /\ x.rec = {}
    /\ \/ /\ UNCHANGED <<store, given>> /\ x.stored_by = m.stored_by
          /\ m.to \in select_k_closest_nodes(m.to) => m.to \in m.stored_by
       \/ /\ Gives(m.to, m.id.call)
          /\ m.to \in select_k_closest_nodes(m.to) /\ x.stored_by = m.stored_by \cup {m.to}

\* Request m of a query becomes x.
QueryStep(m, x) ==
    /\ m \in msgs /\ m \in Requests /\ m.kind = "query" /\ m.to \in Nodes
    /\ UNCHANGED <<now, store, call, given>> /\ x.stored_by = {}
    /\ \/ x.rec = m.rec
       \/ /\ m.to \in select_k_closest_nodes(m.to) /\ store[m.to] # {}
          /\ x.rec = _merge_query_record_json(m.rec, store[m.to])
    /\ \/ Answers(m, x)
       \/ /\ Passes(m, x)
          /\ IF m.to \in select_k_closest_nodes(m.to)
             THEN x.cursor = Dist[m.to] ELSE x.cursor = m.cursor

\* No pending forward is new.
ForwardsShrink == \A n \in Nodes : pending'[n] \subseteq pending[n]

\* Result m goes one node back, as x.
ReturnStep(m, x) ==
    /\ m \in msgs /\ UNCHANGED <<now, store, call, given>> /\ ForwardsShrink
    /\ msgs' = (msgs \ {m}) \cup {x} /\ x \in Results /\ SameAttempt(x.id, m.id)
    /\ x.stored_by = m.stored_by /\ x.rec = m.rec

\* Nothing is sent, stored or learnt.
QuietStep ==
    /\ UNCHANGED <<store, given>> /\ (now' = now \/ now' = now + 1)
    /\ msgs' \subseteq msgs /\ ForwardsShrink
    /\ \A c \in Active :
         /\ call'[c].stored_by = call[c].stored_by /\ call'[c].required = call[c].required
         /\ call'[c].status = call[c].status /\ call'[c].rec = call[c].rec
         /\ call'[c].after = call[c].after /\ call'[c].attempt = call[c].attempt
         /\ call[c].pc = "idle" => call'[c].pc = "idle"

\* Call c publishes, and goes on from k as j.
PublishCall(c, k, j) ==
    /\ Kind(c) = "publish" /\ call[c].pc = "idle" /\ UNCHANGED <<now, pending>>
    /\ k.required = Cardinality(select_k_closest_nodes(At(c))) /\ k.after = {}
    /\ \/ k.stored_by = {} /\ UNCHANGED <<store, given>>
       \/ /\ k.stored_by = {At(c)} /\ At(c) \in select_k_closest_nodes(At(c))
          /\ Gives(At(c), c)
    /\ GoesOn(c, k, j, msgs)
    /\ j.status = "stored" => Cardinality(j.stored_by) >= j.required

\* Call c queries, and goes on from k as j.
QueryCall(c, k, j) ==
    /\ Kind(c) = "query" /\ call[c].pc = "idle"
    /\ UNCHANGED <<now, store, pending, given>>
    /\ k.stored_by = call[c].stored_by /\ k.after = StoredCalls
    /\ GoesOn(c, k, j, msgs)
    /\ j.status # "stored"
    /\ j.status = "found" => /\ At(c) \in select_k_closest_nodes(At(c))
                             /\ store[At(c)] # {} /\ j.rec = store[At(c)]

\* An attempt of call c ends with what message m brought, or with nothing.
AttemptEnds(c, stored_by, rec, rest) ==
    /\ UNCHANGED <<now, store, pending, given>> /\ rest \subseteq msgs
    /\ \/ stored_by = {} /\ rec = {}
       \/ \E m \in msgs : m.id.call = c /\ stored_by = m.stored_by /\ rec = m.rec
    /\ Continues(c, stored_by, rec, rest)

\* There are no other steps.
LEMMA Steps ==
    ASSUME TypeInv, [Next]_vars
    PROVE  /\ setup' = setup
           /\ \/ \E m, x : PublishStep(m, x)
              \/ \E m, x : QueryStep(m, x)
              \/ \E m, x : ReturnStep(m, x)
              \/ QuietStep
              \/ \E c \in Active : \E k, j : PublishCall(c, k, j)
              \/ \E c \in Active : \E k, j : QueryCall(c, k, j)
              \/ \E c \in Active : \E b, rec, rest : AttemptEnds(c, b, rec, rest)
<1>0. /\ setup \in Scenarios /\ pending \in [Nodes -> SUBSET Forwards]
      /\ call \in [Active -> Calls]
  BY Zenon DEF TypeInv
<1>1. ASSUME NEW m \in msgs, _handle_publish(m)
      PROVE  setup' = setup /\ \E x : PublishStep(m, x)
  <2>1. m \in Requests /\ m.kind = "publish"
    BY <1>1, Kinds, Zenon DEF _handle_publish
  <2>2. m.to \in Nodes
    BY <2>1, Zenon DEF Requests
  <2>3. UNCHANGED <<setup, now, call>>
    BY <1>0, <1>1, <2>1, PublishHandled, Zenon
  <2>4. PICK x : /\ Answers(m, x) \/ Passes(m, x)
                 /\ x.rec = {}
                 /\ \/ /\ UNCHANGED <<store, given>> /\ x.stored_by = m.stored_by
                       /\ m.to \in select_k_closest_nodes(m.to) => m.to \in m.stored_by
                    \/ /\ Gives(m.to, m.id.call)
                       /\ m.to \in select_k_closest_nodes(m.to)
                       /\ x.stored_by = m.stored_by \cup {m.to}
    BY <1>0, <1>1, <2>1, PublishHandled, Zenon
  <2>5. PublishStep(m, x)
    BY <1>1, <2>1, <2>2, <2>3, <2>4, Zenon DEF PublishStep
  <2> QED BY <2>3, <2>5, Zenon
<1>2. ASSUME NEW m \in msgs, _handle_query(m)
      PROVE  setup' = setup /\ \E x : QueryStep(m, x)
  <2>1. m \in Requests /\ m.kind = "query"
    BY <1>2, Kinds, Zenon DEF _handle_query
  <2>2. m.to \in Nodes
    BY <2>1, Zenon DEF Requests
  <2>3. UNCHANGED <<setup, now, store, call, given>>
    BY <1>2, <2>1, QueryHandled, Zenon
  <2>4. PICK x : /\ x.stored_by = {}
                 /\ \/ x.rec = m.rec
                    \/ /\ m.to \in select_k_closest_nodes(m.to) /\ store[m.to] # {}
                       /\ x.rec = _merge_query_record_json(m.rec, store[m.to])
                 /\ \/ Answers(m, x)
                    \/ /\ Passes(m, x)
                       /\ IF m.to \in select_k_closest_nodes(m.to)
                          THEN x.cursor = Dist[m.to] ELSE x.cursor = m.cursor
    BY <1>2, <2>1, QueryHandled, Zenon
  <2>5. QueryStep(m, x)
    BY <1>2, <2>1, <2>2, <2>3, <2>4, Zenon DEF QueryStep
  <2> QED BY <2>3, <2>5, Zenon
<1>3. ASSUME NEW m \in msgs, _pop_pending_forward(m)
      PROVE  setup' = setup /\ \E x : ReturnStep(m, x)
  <2>1. /\ m.kind = "result" /\ UNCHANGED <<setup, now, store, call, given>>
    BY <1>3, Zenon DEF _pop_pending_forward
  <2>2. m \in Results
    BY <2>1, Kinds, Zenon
  <2>3. m.to \in Nodes
    BY <2>2, Zenon DEF Results
  <2>4. PICK p \in pending[m.to] :
          /\ p.id = m.id
          /\ pending' = [pending EXCEPT ![m.to] = @ \ {p}]
          /\ msgs' = (msgs \ {m}) \cup {[m EXCEPT !.id = p.prev_id, !.from = m.to, !.to = p.prev]}
    BY <1>3, Zenon DEF _pop_pending_forward
  <2>5. PICK x : x = [m EXCEPT !.id = p.prev_id, !.from = m.to, !.to = p.prev]
    BY Zenon
  <2>6. p \in Forwards /\ SameAttempt(p.prev_id, m.id)
    BY <2>3, <2>4, Zenon DEF TypeInv, ForwardInv
  <2>7. /\ x \in Results /\ x.id = p.prev_id /\ x.stored_by = m.stored_by /\ x.rec = m.rec
    BY <2>2, <2>3, <2>5, <2>6, Zenon DEF Results, Forwards
  <2>8. ForwardsShrink
    BY <1>0, <2>4, Zenon DEF ForwardsShrink
  <2>9. ReturnStep(m, x)
    BY <1>3, <2>1, <2>4, <2>5, <2>6, <2>7, <2>8, Zenon DEF ReturnStep
  <2> QED BY <2>1, <2>9, Zenon
<1>4. ASSUME NEW m \in msgs, complete_result(m)
      PROVE  /\ setup' = setup
             /\ \/ QuietStep
                \/ \E c \in Active : \E b, rec, rest : AttemptEnds(c, b, rec, rest)
  <2>1. /\ UNCHANGED <<setup, now, store, pending, given>>
        /\ \/ msgs' = msgs \ {m} /\ call' = call
           \/ Continues(m.id.call, m.stored_by, m.rec, msgs \ {m})
    BY <1>4, ResultCompletes, Zenon
  <2>2. CASE msgs' = msgs \ {m} /\ call' = call
    BY <2>1, <2>2, Zenon DEF QuietStep, ForwardsShrink
  <2>3. CASE Continues(m.id.call, m.stored_by, m.rec, msgs \ {m})
    <3>1. m.id.call \in Active
      BY Kinds, Zenon
    <3>2. AttemptEnds(m.id.call, m.stored_by, m.rec, msgs \ {m})
      BY <1>4, <2>1, <2>3, Zenon DEF AttemptEnds
    <3> QED BY <2>1, <3>1, <3>2, Zenon
  <2> QED BY <2>1, <2>2, <2>3, Zenon
<1>5. ASSUME NEW n \in Nodes, _cleanup_pending_forwards(n)
      PROVE  setup' = setup /\ QuietStep
  <2>1. /\ UNCHANGED <<setup, now, store, msgs, call, given>>
        /\ \E p : pending' = [pending EXCEPT ![n] = @ \ {p}]
    BY <1>5, Zenon DEF _cleanup_pending_forwards
  <2> QED BY <1>0, <2>1, Zenon DEF QuietStep, ForwardsShrink
<1>6. ASSUME NEW n \in Nodes, Restart(n)
      PROVE  setup' = setup /\ QuietStep
  <2>1. /\ UNCHANGED <<setup, now, store, given>>
        /\ pending' = [pending EXCEPT ![n] = {}] /\ msgs' \subseteq msgs
        /\ call' = [c \in Active |-> IF At(c) = n /\ call[c].pc = "waiting"
                                     THEN [call[c] EXCEPT !.pc = "lost"] ELSE call[c]]
    BY <1>6, Zenon DEF Restart
  <2>2. ForwardsShrink
    BY <1>0, <2>1, Zenon DEF ForwardsShrink
  <2>3. ASSUME NEW c \in Active
        PROVE  /\ call'[c].stored_by = call[c].stored_by /\ call'[c].required = call[c].required
               /\ call'[c].status = call[c].status /\ call'[c].rec = call[c].rec
               /\ call'[c].after = call[c].after /\ call'[c].attempt = call[c].attempt
               /\ call[c].pc = "idle" => call'[c].pc = "idle"
    <3>1. call[c] \in Calls
      BY <1>0, Zenon
    <3>2. CASE call'[c] = call[c]
      BY <3>2, Zenon
    <3>3. CASE call[c].pc = "waiting" /\ call'[c] = [call[c] EXCEPT !.pc = "lost"]
      BY <3>1, <3>3, Zenon DEF Calls
    <3> QED BY <2>1, <3>2, <3>3, Zenon
  <2> QED BY <2>1, <2>2, <2>3, Zenon DEF QuietStep
<1>7. ASSUME NEW c \in Active, publish(c)
      PROVE  setup' = setup /\ \E k, j : PublishCall(c, k, j)
  <2>1. /\ Kind(c) = "publish" /\ call[c].pc = "idle" /\ UNCHANGED <<setup, now, pending>>
    BY <1>7, PublishStarts, Zenon
  <2>2. PICK k, j :
           /\ k.required = Cardinality(select_k_closest_nodes(At(c)))
           /\ k.after = call[c].after
           /\ \/ k.stored_by = {} /\ UNCHANGED <<store, given>>
              \/ /\ k.stored_by = {At(c)} /\ At(c) \in select_k_closest_nodes(At(c))
                 /\ Gives(At(c), c)
           /\ GoesOn(c, k, j, msgs)
           /\ j.status = "stored" => Cardinality(j.stored_by) >= j.required
    BY <1>7, PublishStarts, Zenon
  <2>3. k.after = {}
    BY <2>1, <2>2, Zenon DEF TypeInv, CallInv
  <2>4. PublishCall(c, k, j)
    BY <2>1, <2>2, <2>3, Zenon DEF PublishCall
  <2> QED BY <2>1, <2>4, Zenon
<1>8. ASSUME NEW c \in Active, query(c)
      PROVE  setup' = setup /\ \E k, j : QueryCall(c, k, j)
  <2>1. /\ Kind(c) = "query" /\ call[c].pc = "idle"
        /\ UNCHANGED <<setup, now, store, pending, given>>
    BY <1>8, QueryStarts, Zenon
  <2>2. PICK k, j :
           /\ k.stored_by = call[c].stored_by /\ k.after = StoredCalls
           /\ GoesOn(c, k, j, msgs)
           /\ j.status # "stored"
           /\ j.status = "found" => /\ At(c) \in select_k_closest_nodes(At(c))
                                    /\ store[At(c)] # {} /\ j.rec = store[At(c)]
    BY <1>8, QueryStarts, Zenon
  <2>3. QueryCall(c, k, j)
    BY <2>1, <2>2, Zenon DEF QueryCall
  <2> QED BY <2>1, <2>3, Zenon
<1>9. ASSUME NEW c \in Active, _send_and_wait_result_timeout(c)
      PROVE  setup' = setup /\ AttemptEnds(c, {}, {}, msgs)
  <2>1. UNCHANGED <<setup, now, store, pending, given>> /\ Continues(c, {}, {}, msgs)
    BY <1>9, AttemptTimesOut, Zenon
  <2> QED BY <2>1, Zenon DEF AttemptEnds
<1>10. CASE Tick \/ UNCHANGED vars
  <2>1. /\ UNCHANGED <<setup, store, pending, msgs, call, given>>
        /\ now' = now \/ now' = now + 1
    BY <1>10, Zenon DEF Tick, vars
  <2> QED BY <2>1, Zenon DEF QuietStep, ForwardsShrink
<1> QED
  BY <1>1, <1>2, <1>3, <1>4, <1>5, <1>6, <1>7, <1>8, <1>9, <1>10, Zenon DEF Next
\* A step of no call counts no one who was not given the fragment.
LEMMA CountMessages ==
    ASSUME TypeInv, CountInv, setup' = setup,
           \A c \in Active : /\ call'[c].stored_by = call[c].stored_by
                             /\ call'[c].required = call[c].required
                             /\ call'[c].status = call[c].status
                             /\ call[c].pc = "idle" => call'[c].pc = "idle",
           \A c : Given(c) \subseteq Given(c)',
           \A m \in msgs' : m \in msgs \/ m.stored_by \subseteq Given(m.id.call)'
    PROVE  CountInv'
<1>1. \A m \in msgs' : m.stored_by \subseteq Given(m.id.call)'
  BY Zenon DEF CountInv
<1>2. ASSUME NEW c \in Active
      PROVE  /\ call'[c].stored_by \subseteq Given(c)'
             /\ Kind(c) = "publish" /\ call'[c].pc # "idle" =>
                  call'[c].required = Cardinality(select_k_closest_nodes(At(c)))
             /\ call'[c].status = "stored" =>
                  Kind(c) = "publish" /\ Cardinality(call'[c].stored_by) >= call'[c].required
  BY Zenon DEF CountInv
<1> QED BY <1>1, <1>2, SetupStays DEF CountInv

\* Every step counts only nodes that were given the fragment.
LEMMA CountStep ==
    ASSUME TypeInv, CountInv, [Next]_vars
    PROVE  CountInv'
<1>0. setup' = setup /\ \A c : Given(c) \subseteq Given(c)'
  BY Steps, GivenGrows, Zenon
<1>a. ASSUME NEW n \in Nodes, NEW c \in Active, Kind(c) = "publish", Gives(n, c)
      PROVE  n \in Given(c)'
  <2>1. given \in [Nodes -> SUBSET Publications] /\ given' = [given EXCEPT ![n] = @ \cup {c}]
    BY <1>a, Zenon DEF TypeInv, StoreInv, Gives
  <2> QED BY <2>1, Zenon DEF Given
<1>1. ASSUME NEW m, NEW x, PublishStep(m, x)
      PROVE  CountInv'
  <2>1. /\ m \in msgs /\ m \in Requests /\ m.kind = "publish" /\ m.to \in Nodes /\ call' = call
        /\ msgs' = (msgs \ {m}) \cup {x} /\ x.id.call = m.id.call
    BY <1>1, Zenon DEF PublishStep, Answers, Passes
  <2>2. /\ m.id.call \in Active /\ Kind(m.id.call) = "publish"
        /\ m.stored_by \subseteq Given(m.id.call)
    BY <2>1, Kinds, Zenon DEF TypeInv, MessageInv, CountInv
  <2>3. x.stored_by \subseteq Given(m.id.call)'
    BY <1>0, <1>1, <1>a, <2>1, <2>2, Zenon DEF PublishStep
  <2> QED BY <1>0, <2>1, <2>3, CountMessages, Zenon
<1>2. ASSUME NEW m, NEW x, QueryStep(m, x)
      PROVE  CountInv'
  <2>1. call' = call /\ msgs' = (msgs \ {m}) \cup {x} /\ x.stored_by = {}
    BY <1>2, Zenon DEF QueryStep, Answers, Passes
  <2> QED BY <1>0, <2>1, CountMessages, Zenon
<1>3. ASSUME NEW m, NEW x, ReturnStep(m, x)
      PROVE  CountInv'
  <2>1. /\ call' = call /\ msgs' = (msgs \ {m}) \cup {x} /\ m \in msgs
        /\ x.stored_by = m.stored_by /\ x.id.call = m.id.call
    BY <1>3, Zenon DEF ReturnStep, SameAttempt
  <2>2. x.stored_by \subseteq Given(x.id.call)'
    BY <1>0, <2>1, Zenon DEF CountInv
  <2> QED BY <1>0, <2>1, <2>2, CountMessages, Zenon
<1>4. CASE QuietStep
  BY <1>0, <1>4, CountMessages, Zenon DEF QuietStep
<1>5. ASSUME NEW c \in Active, NEW k, NEW j, PublishCall(c, k, j)
      PROVE  CountInv'
  <2>1. At(c) \in Nodes /\ Kind(c) = "publish"
    BY <1>5, SetupFacts, Zenon DEF PublishCall, TypeInv
  <2>2. k.stored_by \subseteq Given(c)'
    BY <1>5, <1>a, <2>1, Zenon DEF PublishCall
  <2> QED BY <1>0, <1>5, <2>1, <2>2, CountGoesOn, Zenon DEF PublishCall
<1>6. ASSUME NEW c \in Active, NEW k, NEW j, QueryCall(c, k, j)
      PROVE  CountInv'
  <2>1. k.stored_by \subseteq Given(c)'
    BY <1>0, <1>6, Zenon DEF QueryCall, CountInv
  <2> QED BY <1>0, <1>6, <2>1, CountGoesOn, Zenon DEF QueryCall
<1>7. ASSUME NEW c \in Active, NEW b, NEW rec, NEW rest, AttemptEnds(c, b, rec, rest)
      PROVE  CountInv'
  <2>1. b \subseteq Given(c) /\ rest \subseteq msgs
    BY <1>7, Zenon DEF AttemptEnds, CountInv
  <2>2. call[c].pc = "waiting"
    BY <1>7, Zenon DEF AttemptEnds, Continues
  <2>3. PICK k, j :
           /\ k.stored_by \subseteq call[c].stored_by \cup b /\ k.required = call[c].required
           /\ GoesOn(c, k, j, rest)
           /\ j.status = "stored" =>
                Kind(c) = "publish" /\ Cardinality(j.stored_by) >= j.required
    BY <1>7, Zenon DEF AttemptEnds, Continues
  <2>4. k.stored_by \subseteq Given(c)'
    BY <1>0, <2>1, <2>3, Zenon DEF CountInv
  <2>5. Kind(c) = "publish" => k.required = Cardinality(select_k_closest_nodes(At(c)))
    BY <2>2, <2>3, Zenon DEF CountInv
  <2> QED BY <1>0, <2>1, <2>3, <2>4, <2>5, CountGoesOn, Zenon
<1> QED BY <1>1, <1>2, <1>3, <1>4, <1>5, <1>6, <1>7, Steps, Zenon

\* No one is counted at the start.
LEMMA CountInit == Init => CountInv
<1> SUFFICES ASSUME Init PROVE CountInv
  BY Zenon
<1>1. /\ msgs = {} /\ \A c \in Active : /\ call[c].pc = "idle" /\ call[c].stored_by = {}
                                        /\ call[c].status = "none"
  BY Zenon DEF Init, IdleCall
<1> QED BY <1>1, Zenon DEF CountInv

\* Whoever is counted was given the fragment, always.
LEMMA CountAlways == Spec => []CountInv
<1>1. TypeInv /\ CountInv /\ [Next]_vars => CountInv'
  BY CountStep, Zenon
<1> QED BY <1>1, CountInit, TypeInvAlways, PTL DEF Spec

\* What a node was given it holds.
LEMMA GivenIsHeld ==
    ASSUME TypeInv, HeldInv, NEW c \in Active, NEW n \in Given(c)
    PROVE  store[n] # {} /\ \A r \in store[n] : Covers(r, Fragment(c))
<1>1. n \in Nodes /\ Fragment(c) \in Sources(n) /\ setup \in Scenarios
  BY Zenon DEF Given, Sources, TypeInv
<1>2. store[n] # {} /\ \A r \in store[n] : CoversAt(setup.ns, now, r, Fragment(c))
  BY <1>1, Zenon DEF HeldInv, HeldFrom
<1> QED BY <1>1, <1>2, CoversIsCoversAt, Zenon

\* A publication that ended "stored" is held by as many nodes as the
\* publisher knew to be responsible: the replicas it counted, in stored_by,
\* were each given the fragment, and what a node was given no later merge,
\* restart or time takes away.  In ddt the publishers have to give the
\* content the same metadata, or _upsert_local_record drops the fragment.
THEOREM StoredAreHeld == Spec => [](OneDescription => StoredIsHeld)
<1>1. HeldTyped /\ CountInv => (OneDescription => StoredIsHeld)
  <2> SUFFICES ASSUME TypeInv, HeldInv, CountInv, NEW c \in StoredCalls
               PROVE  Cardinality({n \in Nodes : \E r \in store[n] : Covers(r, Fragment(c))})
                        >= Cardinality(select_k_closest_nodes(At(c)))
    BY Zenon DEF HeldTyped, StoredIsHeld
  <2> DEFINE Holders == {n \in Nodes : \E r \in store[n] : Covers(r, Fragment(c))}
  <2>1. /\ c \in Active /\ call[c].pc = "done" /\ call[c].status = "stored"
        /\ setup \in Scenarios
    BY Zenon DEF StoredCalls, TypeInv
  <2>2. At(c) \in Nodes
    BY <2>1, SetupFacts, Zenon
  <2>3. /\ call[c].stored_by \subseteq Given(c)
        /\ call[c].required = Cardinality(select_k_closest_nodes(At(c)))
        /\ Cardinality(call[c].stored_by) >= call[c].required
    BY <2>1, Zenon DEF CountInv
  <2>4. Given(c) \subseteq Holders
    <3>1. ASSUME NEW n \in Given(c) PROVE n \in Holders
      BY <2>1, <3>1, GivenIsHeld, Zenon DEF Given
    <3> QED BY <3>1, Zenon
  <2>5. Holders \subseteq Nodes /\ call[c].stored_by \subseteq Holders
    BY <2>3, <2>4, Zenon
  <2> HIDE DEF Holders
  <2>6. /\ IsFiniteSet(Holders) /\ IsFiniteSet(call[c].stored_by)
        /\ Cardinality(call[c].stored_by) <= Cardinality(Holders)
    BY <2>5, DistAssumption, FS_Subset, Zenon
  <2>7. Cardinality(Holders) \in Nat /\ Cardinality(call[c].stored_by) \in Nat
    BY <2>6, FS_CardinalityType, Zenon
  <2>8. Cardinality(select_k_closest_nodes(At(c))) \in Nat
    BY <2>1, <2>2, ResponsibleNodes, Zenon
  <2>9. Cardinality(Holders) >= Cardinality(select_k_closest_nodes(At(c)))
    BY <2>3, <2>6, <2>7, <2>8
  <2> QED BY <2>9, Zenon DEF Holders
<1> QED BY <1>1, HeldAlways, CountAlways, PTL
----------------------------------------------------------------------------
(* When all nodes agree on who is responsible.                             *)

\* The nodes that take themselves to be responsible for the key.
Responsible == {n \in Nodes : IsResponsible(n)}

\* When all agree, they are the nodes that everyone selects.
LEMMA SameViewMeans ==
    ASSUME setup \in Scenarios, SameView
    PROVE  /\ \A n \in Nodes : select_k_closest_nodes(n) = Responsible
           /\ IsFiniteSet(Responsible)
<1> DEFINE Views == {select_k_closest_nodes(n) : n \in Nodes}
<1>1. IsFiniteSet(Views)
  <2>1. Views \subseteq SUBSET Nodes
    BY ResponsibleNodes, Zenon
  <2> HIDE DEF Views
  <2>2. IsFiniteSet(SUBSET Nodes)
    BY DistAssumption, FS_SUBSET, Zenon
  <2> QED BY <2>1, <2>2, FS_Subset, Zenon
<1>2. PICK R : Views = {R}
  <2>1. Cardinality(Views) = 1
    BY Zenon DEF SameView
  <2> HIDE DEF Views
  <2> QED BY <1>1, <2>1, FS_Singleton, Zenon
<1>3. \A n \in Nodes : select_k_closest_nodes(n) = R
  BY <1>2, Zenon
<1>4. \A n \in Nodes : select_k_closest_nodes(n) \subseteq Nodes
  BY ResponsibleNodes, Zenon
<1>5. \A n \in Nodes : select_k_closest_nodes(n) = Responsible
  BY <1>3, <1>4, Zenon DEF Responsible, IsResponsible
<1>6. IsFiniteSet(Responsible)
  BY DistAssumption, FS_Subset, Zenon DEF Responsible
<1> QED BY <1>5, <1>6, Zenon

\* Who is responsible does not change.
LEMMA SameViewStays ==
    ASSUME setup' = setup
    PROVE  SameView' = SameView /\ Responsible' = Responsible
  BY Zenon DEF SameView, Responsible, IsResponsible, select_k_closest_nodes

\* rec has what was stored before query q began.
CoversAfter(q, rec) == \A c \in call[q].after : \E r \in rec : Covers(r, Fragment(c))

\* Only responsible nodes are counted, all of them were given what was
\* stored before a query began, and a record the query has read covers it.
ReadInv ==
    /\ \A m \in msgs : /\ m.stored_by \subseteq Responsible
                       /\ m.rec # {} => CoversAfter(m.id.call, m.rec)
    /\ \A q \in Active : /\ call[q].stored_by \subseteq Responsible
                         /\ \A c \in call[q].after : Responsible \subseteq Given(c)
                         /\ call[q].status = "found" => CoversAfter(q, call[q].rec)

\* What is stored was given to every responsible node.
LEMMA StoredWasGiven ==
    ASSUME TypeInv, CountInv, SameView, ReadInv, NEW c \in StoredCalls
    PROVE  Responsible \subseteq Given(c)
<1>1. /\ c \in Active /\ call[c].pc = "done" /\ call[c].status = "stored"
      /\ setup \in Scenarios
  BY Zenon DEF StoredCalls, TypeInv
<1>2. At(c) \in Nodes
  BY <1>1, SetupFacts, Zenon
<1>3. select_k_closest_nodes(At(c)) = Responsible /\ IsFiniteSet(Responsible)
  BY <1>1, <1>2, SameViewMeans, Zenon
<1>4. /\ call[c].stored_by \subseteq Given(c)
      /\ Cardinality(call[c].stored_by) >= Cardinality(Responsible)
  BY <1>1, <1>3, Zenon DEF CountInv
<1>5. call[c].stored_by \subseteq Responsible
  BY <1>1, Zenon DEF ReadInv
<1>6. /\ Cardinality(call[c].stored_by) <= Cardinality(Responsible)
      /\ Cardinality(Responsible) = Cardinality(call[c].stored_by) =>
           Responsible = call[c].stored_by
      /\ IsFiniteSet(call[c].stored_by)
  BY <1>3, <1>5, FS_Subset, Zenon
<1>7. Cardinality(call[c].stored_by) \in Nat /\ Cardinality(Responsible) \in Nat
  BY <1>3, <1>6, FS_CardinalityType, Zenon
<1> QED BY <1>4, <1>6, <1>7

\* A record that covers what was stored goes on doing so.
LEMMA CoversAfterStays ==
    ASSUME TypeInv, setup' = setup, now' = now \/ now' = now + 1,
           NEW q \in Active, call'[q].after = call[q].after, NEW rec \in Recs, CoversAfter(q, rec)
    PROVE  CoversAfter(q, rec)'
<1>1. /\ setup.ns \in Namespaces /\ now \in Int /\ setup \in Scenarios
      /\ \A c \in Active : Fragment(c) \in Records(setup.ns)
      /\ call[q].after \subseteq Active
  <2>1. call[q] \in Calls
    BY Zenon DEF TypeInv
  <2> QED BY <2>1, SetupFacts DEF TypeInv, Calls, Publications
<1>2. ASSUME NEW c \in call[q].after
      PROVE  \E r \in rec : Covers(r, Fragment(c))'
  <2>1. PICK r \in rec : Covers(r, Fragment(c))
    BY Zenon DEF CoversAfter
  <2>2. CoversAt(setup.ns, now, r, Fragment(c)) /\ r \in Records(setup.ns)
    BY <1>1, <2>1, CoversIsCoversAt, Zenon DEF Recs
  <2>3. Fragment(c) \in Records(setup.ns)
    BY <1>1, Zenon
  <2>4. CoversAt(setup.ns, now', r, Fragment(c))
    <3>1. CASE now' = now
      BY <2>2, <3>1, Zenon
    <3>2. CASE now' = now + 1
      BY <1>1, <2>2, <2>3, <3>2, CoversLater, Zenon
    <3> QED BY <3>1, <3>2, Zenon
  <2>5. Fragment(c)' = Fragment(c)
    BY SetupStays, Zenon
  <2>6. (CoversAt(setup.ns, now, r, Fragment(c)) => Covers(r, Fragment(c)))'
    BY <1>1, <2>5, Zenon DEF Covers, CoversAt, Namespaces
  <2> QED BY <2>4, <2>5, <2>6, Zenon DEF CoversAt
<1> QED BY <1>2, Zenon DEF CoversAfter

\* A query that reads a responsible node covers what was stored before.
LEMMA MergedCovers ==
    ASSUME TypeInv, HeldInv, ReadInv, NEW q \in Active, NEW n \in Responsible,
           store[n] # {}, NEW rec \in Recs
    PROVE  CoversAfter(q, _merge_query_record_json(rec, store[n]))
<1>1. /\ setup.ns \in Namespaces /\ now \in Int /\ setup \in Scenarios /\ store[n] \in Recs
      /\ \A c \in Active : Fragment(c) \in Records(setup.ns)
      /\ call[q].after \subseteq Active
  <2>1. call[q] \in Calls /\ n \in Nodes
    BY Zenon DEF TypeInv, Responsible
  <2> QED BY <2>1, SetupFacts DEF TypeInv, StoreInv, Calls, Publications
<1>2. ASSUME NEW c \in call[q].after
      PROVE  \E r \in _merge_query_record_json(rec, store[n]) : Covers(r, Fragment(c))
  <2>1. n \in Given(c) /\ c \in Active
    BY <1>1, Zenon DEF ReadInv
  <2>2. \A r \in store[n] : Covers(r, Fragment(c))
    BY <2>1, GivenIsHeld, Zenon
  <2> DEFINE U == UNION {validate_and_merge(setup.ns, a, l, now) : a \in rec, l \in store[n]}
  <2>3. _merge_query_record_json(rec, store[n]) = IF rec = {} \/ U = {} THEN store[n] ELSE U
    BY DEF _merge_query_record_json
  <2>4. ASSUME NEW g \in U PROVE Covers(g, Fragment(c))
    <3>1. PICK a \in rec, l \in store[n] : g \in validate_and_merge(setup.ns, a, l, now)
      BY <2>4
    <3>2. a \in Records(setup.ns) /\ l \in Records(setup.ns) /\ Fragment(c) \in Records(setup.ns)
      BY <1>1, <2>1 DEF Recs
    <3>3. CoversAt(setup.ns, now, l, Fragment(c))
      BY <1>1, <2>2, CoversIsCoversAt
    <3>4. CoversAt(setup.ns, now, g, Fragment(c))
      BY <1>1, <3>1, <3>2, <3>3, MergeKeeps
    <3> QED BY <1>1, <3>4, CoversIsCoversAt
  <2> HIDE DEF U
  <2>5. CASE rec = {} \/ U = {}
    BY <2>2, <2>3, <2>5, Zenon
  <2>6. CASE ~(rec = {} \/ U = {})
    BY <2>3, <2>4, <2>6, Zenon
  <2> QED BY <2>5, <2>6, Zenon
<1> QED BY <1>2, Zenon DEF CoversAfter

\* The records of messages and calls are records.
LEMMA RecordTypes ==
    ASSUME TypeInv
    PROVE  /\ \A m \in msgs : m.id.call \in Active /\ m.rec \in Recs
           /\ \A c \in Active : call[c].rec \in Recs /\ call[c] \in Calls
<1>1. \A m \in msgs : m.id.call \in Active /\ m.rec \in Recs
  BY Kinds, Zenon DEF TypeInv, MessageInv, Requests, Results
<1>2. \A c \in Active : call[c] \in Calls
  BY Zenon DEF TypeInv
<1> QED BY <1>1, <1>2, Zenon DEF Calls

\* A step of no call.
LEMMA ReadMessages ==
    ASSUME TypeInv, ReadInv, setup' = setup, now' = now \/ now' = now + 1,
           \A c \in Active : /\ call'[c].stored_by = call[c].stored_by
                             /\ call'[c].status = call[c].status
                             /\ call'[c].rec = call[c].rec
                             /\ call'[c].after = call[c].after,
           \A c : Given(c) \subseteq Given(c)',
           \A m \in msgs' :
              \/ m \in msgs
              \/ /\ m.id.call \in Active /\ m.rec \in Recs /\ m.stored_by \subseteq Responsible
                 /\ m.rec # {} => CoversAfter(m.id.call, m.rec)
    PROVE  ReadInv'
<1>0. Responsible' = Responsible /\ Active' = Active
  BY SameViewStays, SetupStays, Zenon
<1>1. ASSUME NEW m \in msgs'
      PROVE  m.stored_by \subseteq Responsible /\ (m.rec # {} => CoversAfter(m.id.call, m.rec)')
  <2>1. /\ m.id.call \in Active /\ m.rec \in Recs /\ m.stored_by \subseteq Responsible
        /\ m.rec # {} => CoversAfter(m.id.call, m.rec)
    BY RecordTypes, Zenon DEF ReadInv
  <2> QED BY <2>1, CoversAfterStays, Zenon
<1>2. ASSUME NEW q \in Active
      PROVE  /\ call'[q].stored_by \subseteq Responsible
             /\ \A c \in call'[q].after : Responsible \subseteq Given(c)'
             /\ call'[q].status = "found" => CoversAfter(q, call[q].rec)'
  <2>1. /\ call[q].stored_by \subseteq Responsible
        /\ \A c \in call[q].after : Responsible \subseteq Given(c)
        /\ call[q].status = "found" => CoversAfter(q, call[q].rec)
    BY Zenon DEF ReadInv
  <2>2. PICK rec : rec = call[q].rec
    BY Zenon
  <2>3. call[q].status = "found" => CoversAfter(q, rec)'
    BY <2>1, <2>2, RecordTypes, CoversAfterStays, Zenon
  <2>4. CoversAfter(q, rec)' => CoversAfter(q, call[q].rec)'
    BY <2>2, Zenon DEF CoversAfter
  <2> QED BY <2>1, <2>3, <2>4, Zenon
<1> QED BY <1>0, <1>1, <1>2, Zenon DEF ReadInv

\* A call that goes on.
LEMMA ReadGoesOn ==
    ASSUME TypeInv, ReadInv, setup' = setup, now' = now, \A d : Given(d) \subseteq Given(d)',
           NEW c \in Active, NEW k, NEW j, NEW rest, rest \subseteq msgs, GoesOn(c, k, j, rest),
           k.stored_by \subseteq Responsible, \A d \in k.after : Responsible \subseteq Given(d),
           k.after = call[c].after \/ \A m \in msgs : m.id.call # c,
           call[c].status # "found",
           j.pc = "done" /\ j.status = "found" =>
              \A d \in k.after : \E r \in j.rec : Covers(r, Fragment(d))
    PROVE  ReadInv'
<1>1. /\ call' = [call EXCEPT ![c] = j] /\ j \in Calls
      /\ j.stored_by = k.stored_by /\ j.after = k.after
      /\ j.status = "found" => j.pc = "done"
      /\ \A m \in msgs' : m \in msgs \/ (m.stored_by = k.stored_by /\ m.rec = {} /\ m.id.call = c)
  BY DEF GoesOn, Asks, Returns
<1>2. /\ call \in [Active -> Calls] /\ call'[c] = j
      /\ \A d \in Active : d # c => call'[d] = call[d]
  BY <1>1, Zenon DEF TypeInv
<1>3. Responsible' = Responsible /\ Active' = Active /\ \A d : Fragment(d)' = Fragment(d)
  BY SameViewStays, SetupStays, Zenon
<1>4. ASSUME NEW m \in msgs'
      PROVE  m.stored_by \subseteq Responsible /\ (m.rec # {} => CoversAfter(m.id.call, m.rec)')
  <2>1. CASE m \notin msgs
    BY <1>1, <2>1, Zenon
  <2>2. CASE m \in msgs
    <3>1. /\ m.id.call \in Active /\ m.rec \in Recs /\ m.stored_by \subseteq Responsible
          /\ m.rec # {} => CoversAfter(m.id.call, m.rec)
      BY <2>2, RecordTypes, Zenon DEF ReadInv
    <3>2. call'[m.id.call].after = call[m.id.call].after
      BY <1>1, <1>2, <2>2, <3>1, Zenon
    <3> QED BY <3>1, <3>2, CoversAfterStays, Zenon
  <2> QED BY <2>1, <2>2, Zenon
<1>5. ASSUME NEW q \in Active
      PROVE  /\ call'[q].stored_by \subseteq Responsible
             /\ \A d \in call'[q].after : Responsible \subseteq Given(d)'
             /\ call'[q].status = "found" => CoversAfter(q, call[q].rec)'
  <2>1. CASE q # c
    <3>1. /\ call'[q] = call[q] /\ call[q].stored_by \subseteq Responsible
          /\ \A d \in call[q].after : Responsible \subseteq Given(d)
          /\ call[q].status = "found" => CoversAfter(q, call[q].rec)
      BY <1>2, <2>1, Zenon DEF ReadInv
    <3>2. PICK rec : rec = call[q].rec
      BY Zenon
    <3>3. call[q].status = "found" => CoversAfter(q, rec)'
      BY <3>1, <3>2, RecordTypes, CoversAfterStays, Zenon
    <3>4. CoversAfter(q, rec)' => CoversAfter(q, call[q].rec)'
      BY <3>1, <3>2, Zenon DEF CoversAfter
    <3> QED BY <3>1, <3>3, <3>4, Zenon
  <2>2. CASE q = c
    <3>1. /\ call'[q] = j /\ j.stored_by \subseteq Responsible
          /\ \A d \in j.after : Responsible \subseteq Given(d)'
      BY <1>1, <1>2, <2>2, Zenon
    <3>2. ASSUME j.status = "found", NEW d \in j.after
          PROVE  \E r \in j.rec : Covers(r, Fragment(d))'
      <4>1. PICK r \in j.rec : Covers(r, Fragment(d))
        BY <1>1, <3>2, Zenon
      <4>2. Covers(r, Fragment(d))' <=> Covers(r, Fragment(d))
        BY <1>3, Zenon DEF Covers
      <4> QED BY <4>1, <4>2, Zenon
    <3>3. j.status = "found" => CoversAfter(q, call[q].rec)'
      BY <3>1, <3>2, Zenon DEF CoversAfter
    <3> QED BY <3>1, <3>3, Zenon
  <2> QED BY <2>1, <2>2, Zenon
<1> QED BY <1>3, <1>4, <1>5, Zenon DEF ReadInv

\* Every step keeps what queries have read and will read.
LEMMA ReadStep ==
    ASSUME TypeInv, HeldInv, CountInv, SameView, ReadInv, [Next]_vars
    PROVE  ReadInv'
<1>0. /\ setup' = setup /\ setup \in Scenarios /\ \A c : Given(c) \subseteq Given(c)'
  BY Steps, GivenGrows, Zenon DEF TypeInv
<1>a. \A n \in Nodes : select_k_closest_nodes(n) = Responsible
  BY <1>0, SameViewMeans, Zenon
<1>b. \A m \in msgs : m \in Requests => m.id.call \in Active /\ m.rec \in Recs
  BY RecordTypes, Zenon
<1>1. ASSUME NEW m, NEW x, PublishStep(m, x)
      PROVE  ReadInv'
  <2>1. /\ m \in msgs /\ m.to \in Nodes /\ call' = call /\ now' = now
        /\ msgs' = (msgs \ {m}) \cup {x} /\ x.rec = {} /\ x.id.call = m.id.call
    BY <1>1, Zenon DEF PublishStep, Answers, Passes
  <2>2. m.stored_by \subseteq Responsible /\ m.id.call \in Active /\ {} \in Recs
    BY <2>1, RecordTypes, Zenon DEF ReadInv, Recs
  <2>3. x.stored_by \subseteq Responsible
    BY <1>1, <1>a, <2>1, <2>2, Zenon DEF PublishStep
  <2> QED BY <1>0, <2>1, <2>2, <2>3, ReadMessages, Zenon
<1>2. ASSUME NEW m, NEW x, QueryStep(m, x)
      PROVE  ReadInv'
  <2>1. /\ m \in msgs /\ m \in Requests /\ m.to \in Nodes /\ call' = call /\ now' = now
        /\ msgs' = (msgs \ {m}) \cup {x} /\ x.stored_by = {} /\ x.id.call = m.id.call
    BY <1>2, Zenon DEF QueryStep, Answers, Passes
  <2>2. x.rec \in Recs
    BY <1>2, Zenon DEF QueryStep, Answers, Passes, Requests, Results
  <2>3. m.id.call \in Active /\ m.rec \in Recs /\ (m.rec # {} => CoversAfter(m.id.call, m.rec))
    BY <2>1, RecordTypes, Zenon DEF ReadInv
  <2>4. x.rec # {} => CoversAfter(m.id.call, x.rec)
    <3>1. CASE x.rec = m.rec
      BY <2>3, <3>1, Zenon
    <3>2. CASE /\ m.to \in select_k_closest_nodes(m.to) /\ store[m.to] # {}
               /\ x.rec = _merge_query_record_json(m.rec, store[m.to])
      <4>1. m.to \in Responsible
        BY <1>a, <2>1, <3>2, Zenon
      <4> QED BY <2>3, <3>2, <4>1, MergedCovers, Zenon
    <3> QED BY <1>2, <3>1, <3>2, Zenon DEF QueryStep
  <2> QED BY <1>0, <2>1, <2>2, <2>3, <2>4, ReadMessages, Zenon
<1>3. ASSUME NEW m, NEW x, ReturnStep(m, x)
      PROVE  ReadInv'
  <2>1. /\ call' = call /\ now' = now /\ msgs' = (msgs \ {m}) \cup {x} /\ m \in msgs
        /\ x.stored_by = m.stored_by /\ x.rec = m.rec /\ x.id.call = m.id.call
    BY <1>3, Zenon DEF ReturnStep, SameAttempt
  <2>2. /\ x.id.call \in Active /\ x.rec \in Recs /\ x.stored_by \subseteq Responsible
        /\ x.rec # {} => CoversAfter(x.id.call, x.rec)
    BY <2>1, RecordTypes, Zenon DEF ReadInv
  <2> QED BY <1>0, <2>1, <2>2, ReadMessages, Zenon
<1>4. CASE QuietStep
  BY <1>0, <1>4, ReadMessages, Zenon DEF QuietStep
<1>5. ASSUME NEW c \in Active, NEW k, NEW j, PublishCall(c, k, j)
      PROVE  ReadInv'
  <2>1. /\ Kind(c) = "publish" /\ At(c) \in Nodes /\ now' = now /\ k.after = {}
        /\ GoesOn(c, k, j, msgs) /\ call[c].pc = "idle"
    BY <1>0, <1>5, SetupFacts, Zenon DEF PublishCall
  <2>2. k.stored_by \subseteq Responsible
    BY <1>5, <1>a, <2>1, Zenon DEF PublishCall
  <2>3. call[c].after = {} /\ call[c].status # "found"
    BY <2>1, Zenon DEF TypeInv, CallInv
  <2> QED BY <1>0, <2>1, <2>2, <2>3, ReadGoesOn, Zenon
<1>6. ASSUME NEW c \in Active, NEW k, NEW j, QueryCall(c, k, j)
      PROVE  ReadInv'
  <2>1. /\ call[c].pc = "idle" /\ At(c) \in Nodes /\ now' = now /\ k.after = StoredCalls
        /\ k.stored_by = call[c].stored_by /\ GoesOn(c, k, j, msgs)
    BY <1>0, <1>6, SetupFacts, Zenon DEF QueryCall
  <2>2. k.stored_by \subseteq Responsible
    BY <2>1, Zenon DEF ReadInv
  <2>3. \A d \in k.after : Responsible \subseteq Given(d)
    BY <2>1, StoredWasGiven, Zenon
  <2>4. call[c].attempt = 0 /\ call[c].status # "found"
    BY <2>1, Zenon DEF TypeInv, CallInv
  <2>5. \A m \in msgs : m.id.call # c
    <3>1. ASSUME NEW m \in msgs, m.id.call = c PROVE FALSE
      <4>1. m.id \in Ids /\ Attempted(m.id)
        BY Zenon DEF TypeInv, MessageInv, Requests, Results
      <4> QED BY <2>4, <3>1, <4>1 DEF Attempted, Ids
    <3> QED BY <3>1, Zenon
  <2>6. ASSUME j.status = "found", NEW d \in k.after
        PROVE  \E r \in j.rec : Covers(r, Fragment(d))
    <3>1. /\ At(c) \in select_k_closest_nodes(At(c)) /\ store[At(c)] # {} /\ j.rec = store[At(c)]
      BY <1>6, <2>6, Zenon DEF QueryCall
    <3>2. At(c) \in Given(d) /\ d \in Active
      BY <1>a, <2>1, <2>3, <3>1, Zenon DEF StoredCalls
    <3> QED BY <3>1, <3>2, GivenIsHeld, Zenon
  <2> QED BY <1>0, <2>1, <2>2, <2>3, <2>4, <2>5, <2>6, ReadGoesOn, Zenon
<1>7. ASSUME NEW c \in Active, NEW b, NEW rec, NEW rest, AttemptEnds(c, b, rec, rest)
      PROVE  ReadInv'
  <2>1. /\ b \subseteq Responsible /\ rest \subseteq msgs /\ now' = now
        /\ rec # {} => CoversAfter(c, rec)
    BY <1>7, Zenon DEF AttemptEnds, ReadInv
  <2>2. call[c].pc = "waiting"
    BY <1>7, Zenon DEF AttemptEnds, Continues
  <2>3. PICK k, j :
           /\ k.stored_by \subseteq call[c].stored_by \cup b /\ k.after = call[c].after
           /\ GoesOn(c, k, j, rest)
           /\ j.status = "found" => Kind(c) = "publish" \/ (rec # {} /\ j.rec = rec)
    BY <1>7, Zenon DEF AttemptEnds, Continues
  <2>4. /\ k.stored_by \subseteq Responsible
        /\ \A d \in k.after : Responsible \subseteq Given(d)
    BY <2>1, <2>3, Zenon DEF ReadInv
  <2>5. call[c].status # "found" /\ (Kind(c) = "publish" => call[c].after = {})
    BY <2>2, Zenon DEF TypeInv, CallInv
  <2>6. j.status = "found" => \A d \in k.after : \E r \in j.rec : Covers(r, Fragment(d))
    BY <2>1, <2>3, <2>5, Zenon DEF CoversAfter
  <2> QED BY <1>0, <2>1, <2>3, <2>4, <2>5, <2>6, ReadGoesOn, Zenon
<1> QED BY <1>1, <1>2, <1>3, <1>4, <1>5, <1>6, <1>7, Steps, Zenon

\* Nothing has been read at the start.
LEMMA ReadInit == Init => ReadInv
<1> SUFFICES ASSUME Init PROVE ReadInv
  BY Zenon
<1>1. /\ msgs = {} /\ \A c \in Active : /\ call[c].stored_by = {} /\ call[c].after = {}
                                        /\ call[c].status = "none"
  BY Zenon DEF Init, IdleCall
<1> QED BY <1>1, Zenon DEF ReadInv

\* A query that began after a publication was reported stored and that ends
\* "found" returns what was published, when all nodes agree on who is
\* responsible and, in ddt, publishers on the metadata: a publication that is
\* stored was given to every responsible node, and whichever of them the query
\* reads first covers the fragment, whatever is merged into it.
THEOREM ReadsSee == Spec => []ReadsSeeStored
<1> DEFINE Read == SameView /\ OneDescription => ReadInv
<1>1. Init => Read
  BY ReadInit, Zenon
<1>2. ASSUME HeldTyped, CountInv, Read, [Next]_vars PROVE Read'
  <2>1. SameView' = SameView /\ OneDescription' = OneDescription
    BY <1>2, Steps, SameViewStays, DescriptionStays, Zenon DEF HeldTyped
  <2> QED BY <1>2, <2>1, ReadStep, Zenon DEF HeldTyped
<1>3. Read => ReadsSeeStored
  BY Zenon DEF ReadInv, CoversAfter, ReadsSeeStored
<1> HIDE DEF Read
<1> QED BY <1>1, <1>2, <1>3, HeldAlways, CountAlways, PTL DEF Spec
----------------------------------------------------------------------------
(* Requests do not loop.                                                   *)

\* Node n has been passed by request m: m says so if n is responsible.
Passed(m, n) ==
    n \in Responsible => IF m.kind = "publish" THEN n \in m.stored_by ELSE Dist[n] <= m.cursor

\* An attempt has one request under way.  Once forwarded, it is at a
\* responsible node it has not passed, and it has passed every node that
\* waits for its answer.
RequestInv(m) ==
    /\ m.id.hop > 0 =>
         /\ m.to \in Responsible
         /\ IF m.kind = "publish" THEN m.to \notin m.stored_by ELSE Dist[m.to] > m.cursor
    /\ \A n \in Nodes : \A p \in pending[n] :
         SameAttempt(m.id, p.id) => m.id.hop > 0 /\ Passed(m, n)

\* This is so for every request.
LoopInv ==
    /\ \A m, q \in msgs : m \in Requests /\ q \in Requests /\ SameAttempt(m.id, q.id) => m = q
    /\ \A m \in msgs : m \in Requests => RequestInv(m)

\* A step that sends no request.
LEMMA LoopAnswers ==
    ASSUME TypeInv, LoopInv, setup' = setup, ForwardsShrink,
           \A m \in msgs' : m \in msgs \/ m \in Results
    PROVE  LoopInv'
<1>0. /\ Responsible' = Responsible /\ Requests' = Requests
      /\ \A m : m \in Results => m \notin Requests
  BY SameViewStays, SetupStays, Zenon DEF Requests, Results
<1>1. \A m, q \in msgs' : m \in Requests /\ q \in Requests /\ SameAttempt(m.id, q.id) => m = q
  BY <1>0, Zenon DEF LoopInv
<1>2. ASSUME NEW m \in msgs', m \in Requests
      PROVE  RequestInv(m)'
  <2>1. RequestInv(m)
    BY <1>0, <1>2, Zenon DEF LoopInv
  <2> QED BY <1>0, <2>1, Zenon DEF RequestInv, Passed, ForwardsShrink
<1> QED BY <1>0, <1>1, <1>2, Zenon DEF LoopInv

\* A request that is passed on is at a responsible node it has not passed, and
\* it has passed the node that passed it on.
LEMMA LoopPasses ==
    ASSUME TypeInv, LoopInv, setup' = setup, NEW m \in msgs, m \in Requests, NEW q, Passes(m, q),
           q.to \in Responsible, m.to \in Nodes, Passed(q, m.to),
           m.kind = "publish" => m.stored_by \subseteq q.stored_by,
           m.kind # "publish" =>
              q.cursor = IF m.to \in Responsible THEN Dist[m.to] ELSE m.cursor
    PROVE  LoopInv'
<1>0. Responsible' = Responsible /\ Requests' = Requests
  BY SameViewStays, SetupStays, Zenon
<1>1. /\ msgs' = (msgs \ {m}) \cup {q} /\ q \in Requests /\ q.kind = m.kind
      /\ SameAttempt(q.id, m.id) /\ q.id.hop > 0
      /\ q.to \notin q.stored_by /\ (q.kind = "query" => Dist[q.to] > q.cursor)
      /\ m.kind \in {"publish", "query"} /\ m.cursor \in Int
  BY DEF Passes, SameAttempt, Requests, Ids
<1>2. /\ pending \in [Nodes -> SUBSET Forwards]
      /\ pending' = [pending EXCEPT ![m.to] =
           @ \cup {[id |-> q.id, prev |-> m.from, prev_id |-> m.id]}]
  BY Zenon DEF Passes, TypeInv
<1>3. ASSUME NEW n \in Nodes, NEW p \in pending'[n]
      PROVE  p \in pending[n] \/ (n = m.to /\ p.id = q.id)
  BY <1>2
<1>4. \A x, y \in msgs' : x \in Requests /\ y \in Requests /\ SameAttempt(x.id, y.id) => x = y
  BY <1>1 DEF LoopInv, SameAttempt
<1>5. ASSUME NEW x \in msgs', x \in Requests
      PROVE  RequestInv(x)'
  <2>1. CASE x # q
    <3>1. x \in msgs /\ x # m /\ RequestInv(x)
      BY <1>1, <1>5, <2>1, Zenon DEF LoopInv
    <3>2. ~SameAttempt(x.id, q.id)
      BY <1>1, <1>5, <3>1, Zenon DEF LoopInv, SameAttempt
    <3>3. \A n \in Nodes : \A p \in pending'[n] : SameAttempt(x.id, p.id) => p \in pending[n]
      BY <1>3, <3>2, Zenon
    <3> QED BY <1>0, <3>1, <3>3, Zenon DEF RequestInv, Passed
  <2>2. CASE x = q
    <3>1. RequestInv(m)
      BY Zenon DEF LoopInv
    <3>2. ASSUME NEW n \in Nodes, NEW p \in pending'[n], SameAttempt(q.id, p.id)
          PROVE  Passed(q, n)
      <4>1. CASE p \notin pending[n]
        BY <1>3, <4>1, Zenon
      <4>2. CASE p \in pending[n]
        <5>1. Passed(m, n) /\ m.to \in Responsible
              /\ (m.kind # "publish" => Dist[m.to] > m.cursor)
          BY <1>1, <3>1, <3>2, <4>2, Zenon DEF RequestInv, SameAttempt
        <5>2. Dist[n] \in Nat /\ Dist[m.to] \in Nat
          BY DistAssumption, Zenon
        <5>3. CASE m.kind = "publish"
          BY <1>1, <5>1, <5>3, Zenon DEF Passed
        <5>4. CASE m.kind # "publish"
          BY <1>1, <5>1, <5>2, <5>4 DEF Passed
        <5> QED BY <5>3, <5>4, Zenon
      <4> QED BY <4>1, <4>2, Zenon
    <3>3. \A n \in Nodes : \A p \in pending'[n] :
             SameAttempt(q.id, p.id) => q.id.hop > 0 /\ Passed(q, n)
      BY <1>1, <3>2, Zenon
    <3>4. \A n : Passed(q, n)' <=> Passed(q, n)
      BY <1>0, Zenon DEF Passed
    <3> QED BY <1>0, <1>1, <2>2, <3>3, <3>4, Zenon DEF RequestInv
  <2> QED BY <2>1, <2>2, Zenon
<1> QED BY <1>0, <1>4, <1>5, Zenon DEF LoopInv

\* A call that goes on asks with an attempt of its own.
LEMMA LoopGoesOn ==
    ASSUME TypeInv, LoopInv, setup' = setup, pending' = pending, NEW c \in Active, NEW k, NEW j,
           NEW rest, rest \subseteq msgs, GoesOn(c, k, j, rest)
    PROVE  LoopInv'
<1>1. CASE Returns(c, j, rest)
  BY <1>1, LoopAnswers, Zenon DEF Returns, ForwardsShrink
<1>2. ASSUME NEW q, Asks(c, j, q, rest)
      PROVE  LoopInv'
  <2>0. Responsible' = Responsible /\ Requests' = Requests /\ call[c].attempt \in Nat
    BY SameViewStays, SetupStays, Zenon DEF TypeInv, Calls
  <2>1. /\ msgs' = rest \cup {q} /\ q \in Requests /\ q.id.call = c /\ q.id.hop = 0
        /\ q.id.attempt = call[c].attempt + 1
    BY <1>2, Zenon DEF Asks
  <2>2. ASSUME NEW id \in Ids, Attempted(id) PROVE ~SameAttempt(q.id, id)
    BY <2>0, <2>1, <2>2 DEF SameAttempt, Attempted, Ids
  <2>3. \A m \in msgs : ~SameAttempt(q.id, m.id)
    BY <2>2, Zenon DEF TypeInv, MessageInv, Requests, Results
  <2>4. \A n \in Nodes : \A p \in pending[n] : ~SameAttempt(q.id, p.id)
    BY <2>2 DEF TypeInv, ForwardInv, Forwards
  <2>5. \A x, y \in msgs' : x \in Requests /\ y \in Requests /\ SameAttempt(x.id, y.id) => x = y
    BY <2>1, <2>3 DEF LoopInv, SameAttempt
  <2>6. ASSUME NEW x \in msgs', x \in Requests
        PROVE  RequestInv(x)'
    <3>1. CASE x = q
      BY <2>1, <2>4, <3>1 DEF RequestInv
    <3>2. CASE x \in msgs
      <4>1. RequestInv(x)
        BY <2>6, <3>2, Zenon DEF LoopInv
      <4> QED BY <2>0, <4>1, Zenon DEF RequestInv, Passed
    <3> QED BY <2>1, <3>1, <3>2, Zenon
  <2> QED BY <2>0, <2>5, <2>6, Zenon DEF LoopInv
<1> QED BY <1>1, <1>2, Zenon DEF GoesOn

\* Every step keeps the requests apart from the nodes that wait for them.
LEMMA LoopStep ==
    ASSUME TypeInv, SameView, LoopInv, [Next]_vars
    PROVE  LoopInv'
<1>0. setup' = setup /\ setup \in Scenarios
  BY Steps, Zenon DEF TypeInv
<1>a. \A n \in Nodes : select_k_closest_nodes(n) = Responsible
  BY <1>0, SameViewMeans, Zenon
<1>b. ASSUME NEW m, NEW x, Answers(m, x) PROVE LoopInv'
  BY <1>0, <1>b, LoopAnswers, Zenon DEF Answers, ForwardsShrink
<1>1. ASSUME NEW m, NEW x, PublishStep(m, x)
      PROVE  LoopInv'
  <2>1. CASE Passes(m, x)
    <3>1. /\ m \in msgs /\ m \in Requests /\ m.to \in Nodes /\ m.kind = "publish"
          /\ m.to \in Responsible => m.to \in x.stored_by
          /\ m.stored_by \subseteq x.stored_by
      BY <1>1, <1>a, Zenon DEF PublishStep
    <3>2. x.to \in Responsible /\ x.kind = "publish"
      BY <1>a, <2>1, <3>1, Zenon DEF Passes
    <3> QED BY <1>0, <2>1, <3>1, <3>2, LoopPasses, Zenon DEF Passed
  <2> QED BY <1>1, <1>b, <2>1, Zenon DEF PublishStep
<1>2. ASSUME NEW m, NEW x, QueryStep(m, x)
      PROVE  LoopInv'
  <2>1. CASE Passes(m, x) /\ IF m.to \in select_k_closest_nodes(m.to)
                             THEN x.cursor = Dist[m.to] ELSE x.cursor = m.cursor
    <3>1. m \in msgs /\ m \in Requests /\ m.to \in Nodes /\ m.kind = "query"
      BY <1>2, Zenon DEF QueryStep
    <3>2. x.to \in Responsible /\ x.kind = "query"
      BY <1>a, <2>1, <3>1, Zenon DEF Passes
    <3>3. Dist[m.to] \in Nat
      BY <3>1, DistAssumption, Zenon
    <3>4. x.cursor = IF m.to \in Responsible THEN Dist[m.to] ELSE m.cursor
      BY <1>a, <2>1, <3>1, Zenon
    <3>5. Passed(x, m.to)
      BY <3>2, <3>3, <3>4 DEF Passed
    <3> QED BY <1>0, <2>1, <3>1, <3>2, <3>4, <3>5, LoopPasses, Zenon
  <2> QED BY <1>2, <1>b, <2>1, Zenon DEF QueryStep
<1>3. ASSUME NEW m, NEW x, ReturnStep(m, x)
      PROVE  LoopInv'
  BY <1>0, <1>3, LoopAnswers, Zenon DEF ReturnStep
<1>4. CASE QuietStep
  BY <1>0, <1>4, LoopAnswers, Zenon DEF QuietStep
<1>5. ASSUME NEW c \in Active, NEW k, NEW j, PublishCall(c, k, j)
      PROVE  LoopInv'
  BY <1>0, <1>5, LoopGoesOn, Zenon DEF PublishCall
<1>6. ASSUME NEW c \in Active, NEW k, NEW j, QueryCall(c, k, j)
      PROVE  LoopInv'
  BY <1>0, <1>6, LoopGoesOn, Zenon DEF QueryCall
<1>7. ASSUME NEW c \in Active, NEW b, NEW rec, NEW rest, AttemptEnds(c, b, rec, rest)
      PROVE  LoopInv'
  BY <1>0, <1>7, LoopGoesOn, Zenon DEF AttemptEnds, Continues
<1> QED BY <1>1, <1>2, <1>3, <1>4, <1>5, <1>6, <1>7, Steps, Zenon

\* When all nodes agree on who is responsible, a forwarded request never
\* comes back to a node that waits for its answer: an attempt has one request
\* under way, which is at a node it has not passed and has passed every node
\* that waits.
THEOREM RequestsDoNotLoop == Spec => []NoRequestLoops
<1>1. Init => (SameView => LoopInv)
  BY Zenon DEF Init, LoopInv
<1>2. TypeInv /\ (SameView => LoopInv) /\ [Next]_vars => (SameView => LoopInv)'
  <2>1. ASSUME TypeInv, [Next]_vars PROVE SameView' = SameView
    BY <2>1, Steps, SameViewStays, Zenon
  <2> QED BY <2>1, LoopStep, Zenon
<1>3. TypeInv /\ (SameView => LoopInv) => NoRequestLoops
  <2> SUFFICES ASSUME TypeInv, LoopInv, NEW m \in msgs, m.kind # "result", NEW p \in pending[m.to],
                      p.id.call = m.id.call, p.id.attempt = m.id.attempt
               PROVE  FALSE
    BY Zenon DEF NoRequestLoops
  <2>1. m \in Requests
    BY Zenon DEF TypeInv, MessageInv, Results
  <2>2. /\ m.to \in Nodes /\ m.kind \in {"publish", "query"} /\ m.cursor \in Int
        /\ Dist[m.to] \in Nat
    BY <2>1, DistAssumption, Zenon DEF Requests
  <2>3. RequestInv(m)
    BY <2>1, Zenon DEF LoopInv
  <2>4. m.id.hop > 0 /\ Passed(m, m.to)
    BY <2>2, <2>3, Zenon DEF RequestInv, SameAttempt
  <2> QED BY <2>2, <2>3, <2>4 DEF RequestInv, Passed
<1> QED BY <1>1, <1>2, <1>3, TypeInvAlways, PTL DEF Spec
=============================================================================
