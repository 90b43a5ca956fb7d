------------------------------ MODULE DhtMerge ------------------------------
(***************************************************************************)
(* Merging a fragment into the record a node holds for a DHT key.          *)
(*                                                                         *)
(* A record is [head, ref, items].  The head stands for the part that does *)
(* not accumulate: the descriptor of a dpnt record, the title, type and    *)
(* tags of a ddt record, the last_modified of a dpt record, the virtual    *)
(* node of a drt record.  The ref is the target_ref of a dpt record and 0  *)
(* elsewhere.  The items are the route entries (drt), holders (ddt) or     *)
(* entries (dtt), each [path, exp, rtt, pk]; in ddt and dtt records path   *)
(* names the holder or the resource.                                       *)
(*                                                                         *)
(* Signatures and proof of work always verify, and every fragment belongs  *)
(* to the key: what can make a merge raise is the expiry of all items of a *)
(* fragment and, in ddt, other metadata.  A merge returns the set of its   *)
(* result, which is empty when it raises.                                  *)
(***************************************************************************)
EXTENDS Integers

Namespaces == {"dpnt", "drt", "ddt", "dtt", "dpt"}

Entry == [path : Int, exp : Int, rtt : Int, pk : Int]

\* A publisher announces one entry per path, and a merge keeps one.
UniquePaths(S) == \A x, y \in S : x.path = y.path => x = y

\* The records of a namespace.
Records(ns) ==
    {r \in [head : Int, ref : Int, items : SUBSET Entry] :
        /\ ns = "drt" => UniquePaths(r.items)
        /\ IF ns = "dpt" THEN r.items = {} ELSE r.ref = 0}

_is_expired(item, now) == item.exp <= now

Unexpired(items, now) == {item \in items : ~_is_expired(item, now)}

\* A fragment with items of which none is valid makes the merge raise.
NoneValid(fragment, now) ==
    fragment.items # {} /\ Unexpired(fragment.items, now) = {}

validate_and_merge_dpnt_fragment(parent, fragment) == {fragment}

\* Mutant: the entry of the parent is kept whatever the fragment brings.
is_better_never(candidate, current) == FALSE

_is_better_drt_route_entry(candidate, current) ==
    \/ candidate.exp > current.exp
    \/ candidate.exp = current.exp /\ candidate.rtt < current.rtt
    \/ candidate.exp = current.exp /\ candidate.rtt = current.rtt
       /\ candidate.pk < current.pk

\* One pass over the parent's entries and then the fragment's.
_deduplicate_drt_route_entries(old, new) ==
    {e \in old : \A f \in new :
        f.path = e.path => ~_is_better_drt_route_entry(f, e)}
    \cup
    {f \in new :
        /\ \A e \in old : e.path = f.path => _is_better_drt_route_entry(f, e)
        /\ \A g \in new : g.path = f.path => ~_is_better_drt_route_entry(g, f)}

validate_and_merge_drt_fragment(parent, fragment, now) ==
    IF NoneValid(fragment, now) THEN {}
    ELSE {[parent EXCEPT !.items = _deduplicate_drt_route_entries(
             Unexpired(parent.items, now), Unexpired(fragment.items, now))]}

_ensure_ddt_metadata_matches(parent, fragment) == parent.head = fragment.head

\* The parent's holders are kept without another look at their expiry.
validate_and_merge_ddt_fragment(parent, fragment, now) ==
    IF ~_ensure_ddt_metadata_matches(parent, fragment) \/ NoneValid(fragment, now)
    THEN {}
    ELSE {[parent EXCEPT !.items = @ \cup Unexpired(fragment.items, now)]}

validate_and_merge_dtt_fragment(parent, fragment, now) ==
    IF NoneValid(fragment, now) THEN {}
    ELSE {[parent EXCEPT !.items = @ \cup Unexpired(fragment.items, now)]}

\* Of two versions modified at the same time the stored one stays.
_is_fragment_newer(parent, fragment) == fragment.head > parent.head

validate_and_merge_dpt_fragment(parent, fragment) ==
    IF _is_fragment_newer(parent, fragment) THEN {fragment} ELSE {parent}

validate_and_merge(ns, parent, fragment, now) ==
    CASE ns = "dpnt" -> validate_and_merge_dpnt_fragment(parent, fragment)
      [] ns = "drt" -> validate_and_merge_drt_fragment(parent, fragment, now)
      [] ns = "ddt" -> validate_and_merge_ddt_fragment(parent, fragment, now)
      [] ns = "dtt" -> validate_and_merge_dtt_fragment(parent, fragment, now)
      [] ns = "dpt" -> validate_and_merge_dpt_fragment(parent, fragment)
=============================================================================
