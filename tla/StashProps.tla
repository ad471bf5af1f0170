------------------------------- MODULE StashProps -------------------------------
(* What Stash promises. *)
EXTENDS Stash

Entries(t) == {<<p, t[p]>> : p \in {p \in StashPaths : Has(t, p)}}
Changes(s) == Entries(s.work) \cup Entries(s.untracked) \cup Entries(s.index)
Stashed(l) == UNION {Changes(l[i]) \ Entries(l[i].base) : i \in DOMAIN l}

\* What the user asked to do without: a stash dropped, or what was staged in a popped one.
GivenUp ==
  UNION {IF stashing.kind = "drop" THEN Changes(s)
         ELSE IF stashing.restore THEN {} ELSE Entries(s.index) :
           s \in {was.list[i] : i \in {i \in DOMAIN was.list : was.list[i].id = stashing.id}}}

\* An untracked link below a folder that stands where a file comes back: entry_in_the_way
\* passes it over and no hazard is found there.
PassedOver(then, p) ==
  /\ then.wt[p] = "link"
  /\ \E f \in Holders(p) : Has(then.top, f) \/ Has(then.idx, f)

\* A staged file that was not to be stashed, in the place of HEAD's folder of which something
\* is: the revert puts that back in the index, and the file's entry goes.
Displaced(p) ==
  /\ p \notin saved.sel.tracked /\ Has(saved.there.idx, p)
  /\ \E q \in saved.sel.tracked \cap Held(p) : Has(saved.there.top, q)

\* Whatever stood in the work tree or the index, and whatever a stash held, still stands
\* there, is in a stash, or is committed, at every step, also when it stops half-way; and
\* nothing is written through a link.  An ignored file at a path that is applied is the
\* exception.
NothingIsLost ==
  /\ ~wroteBeyond
  /\ raced \/ stashing.kind = "none" \/
       \A c \in Entries(was.wt) \cup Entries(was.idx) \cup (Stashed(was.list) \ GivenUp) :
         \/ c \in Entries(wt) \cup Entries(idx) \cup Stashed(list) \cup Entries(top) \cup Entries(was.top)
         \/ stashing.kind = "save" /\ PassedOver(was, c[1])
         \/ stashing.kind = "save" /\ Displaced(c[1]) /\ c \notin Entries(was.wt)
         \/ wt[c[1]] = "marked" \/ c[2] = "conflict" \/ c[2] = "theirs" \/ saved.since

\* A stash that is popped right away puts the work tree back as it was, and the index if
\* that was asked for; one that cannot be popped changes nothing and stays.
BackAsItWas ==
  stashing.kind = "pop" /\ stashing.pc = "idle" /\ ~saved.since =>
    IF stashing.outcome = "done"
    THEN /\ \A p \in StashPaths : wt[p] = saved.there.wt[p] \/ PassedOver(saved.there, p)
         /\ stashing.restore =>
              \A p \in StashPaths : idx[p] = saved.there.idx[p] \/ Displaced(p)
    ELSE list = was.list /\ (stashing.outcome = "refused" => wt = was.wt /\ idx = was.idx)

(* Stashing, applying and popping lose nothing at any step, also when they stop half-way,    *)
(* and a stash that is popped right away gives back what it took (save_stash,                *)
(* entry_in_the_way, apply_stash, pop_stash).                                                *)
StashGivesBack == NothingIsLost /\ BackAsItWas

StashesThere == {list[i].id : i \in DOMAIN list}

(* Only the stash the user chose in the list he saw is dropped, and by a pop only once it    *)
(* left no conflict, unless another tool changes the list within the pop itself              *)
(* (ensure_stash_at, pop_stash).                                                             *)
OnlyTheChosenIsDropped ==
  [][stashing' # stashing /\ Len(list') < Len(list) /\ ~raced =>
       /\ StashesThere \ StashesThere' = {stashing'.id}
       /\ stashing'.kind = "pop" => ~Conflicted(idx')]_stashVars
=============================================================================
