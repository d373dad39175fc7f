----------------------------- MODULE UciPackage -----------------------------
(***************************************************************************)
(* One UCI package and the algorithm of apply/applier.go that turns a      *)
(* desired configuration into UCI calls.                                   *)
(*                                                                         *)
(* A package is the sequence of its sections in file order.  A section has *)
(* an id (its name when it is a named one), a type, and options; values    *)
(* are opaque, a list option being one of them.  A desired configuration   *)
(* has a mode, the ".delete" flag, whether it fails to parse, and for each *)
(* section type, sorted, the wanted sections in their order; an anonymous  *)
(* one is wanted under the name "".  A name is wanted at most once.        *)
(***************************************************************************)
EXTENDS Integers, Sequences, FiniteSets, SequencesExt

Op(op, id, arg) == [op |-> op, id |-> id, arg |-> arg]

\* The numbers up to n that are in I, in order.
Ascending(n, I) ==
  LET f[m \in 0 .. n] ==
        IF m = 0 THEN <<>> ELSE IF m \in I THEN Append(f[m - 1], m) ELSE f[m - 1]
  IN  f[n]

\* The elements of a sequence at the positions in I, in order.
Selected(s, I) ==
  LET at == Ascending(Len(s), I)
  IN  [k \in DOMAIN at |-> s[at[k]]]

\* The section with an id, as a sequence of at most one.
Find(secs, id) ==
  LET found == {s \in ToSet(secs) : s.id = id}
  IN  IF found = {} THEN <<>> ELSE <<CHOOSE s \in found : TRUE>>

\* The anonymous sections of a type.
Anonymous(secs, type) ==
  Selected(secs, {i \in DOMAIN secs : secs[i].anon /\ secs[i].type = type})

AnonymousIDs(secs, type) ==
  LET anon == Anonymous(secs, type)
  IN  [i \in DOMAIN anon |-> anon[i].id]

\* The types of the sections, in the order in which they first appear.
SectionTypes(secs) ==
  LET first == Selected(secs, {i \in DOMAIN secs : \A j \in 1 .. i - 1 : secs[j].type # secs[i].type})
  IN  [i \in DOMAIN first |-> first[i].type]

CreateOrRetype(existing, id, type) ==
  LET old == Find(existing, id)
  IN  CASE old = <<>> -> <<Op("add", id, type)>>
        [] old # <<>> /\ old[1].type # type -> <<Op("retype", id, type)>>
        [] OTHER -> <<>>

SetValues(id, opts) == IF DOMAIN opts = {} THEN <<>> ELSE <<Op("set", id, opts)>>

\* Mutant: the options a section has and should not are left alone.
CleanNothing(existing, id, opts) == <<>>

CleanStaleOptions(existing, id, opts) ==
  LET old   == Find(existing, id)
      stale == IF old = <<>> THEN {} ELSE DOMAIN old[1].opts \ DOMAIN opts
  IN  IF stale = {} THEN <<>> ELSE <<Op("unset", id, stale)>>

\* The calls for one wanted section; the id "" is the one Add has returned.
ApplySection(existing, type, want, reuse) ==
  CASE want.name # "" ->
         CreateOrRetype(existing, want.name, type)
           \o SetValues(want.name, want.opts)
           \o CleanStaleOptions(existing, want.name, want.opts)
    [] want.name = "" /\ reuse # "" ->
         SetValues(reuse, want.opts) \o CleanStaleOptions(existing, reuse, want.opts)
    [] OTHER -> <<Op("add", "", type)>> \o SetValues("", want.opts)

\* In merge mode the i-th wanted anonymous section takes the i-th existing one.
ApplyType(existing, mode, wanted) ==
  LET ids    == IF mode = "merge" THEN AnonymousIDs(existing, wanted.type) ELSE <<>>
      nth(i) == Cardinality({j \in 1 .. i : wanted.sections[j].name = ""})
      reuse(i) == IF wanted.sections[i].name = "" /\ nth(i) <= Len(ids) THEN ids[nth(i)] ELSE ""
  IN  FlattenSeq([i \in DOMAIN wanted.sections |->
        ApplySection(existing, wanted.type, wanted.sections[i], reuse(i))])

DeleteUnwanted(existing, keep) ==
  LET types == SectionTypes(existing)
      unwanted(t) == Selected(existing, {i \in DOMAIN existing :
                       LET s == existing[i] IN s.type = t /\ (s.anon \/ s.id \notin keep)})
      deletes(t) == [i \in DOMAIN unwanted(t) |-> Op("delete", unwanted(t)[i].id, "")]
  IN  FlattenSeq([i \in DOMAIN types |-> deletes(types[i])])

Mode(cfg) == IF cfg.delete THEN "replace" ELSE cfg.mode
WantedTypes(cfg) == IF cfg.delete THEN <<>> ELSE cfg.types

Wants(cfg) == UNION {ToSet(WantedTypes(cfg)[i].sections) : i \in DOMAIN WantedTypes(cfg)}
WantedNames(cfg) == {w.name : w \in Wants(cfg)} \ {""}

\* All calls that stage a configuration on top of the sections read.
StagePlan(existing, cfg) ==
  (IF Mode(cfg) = "replace" THEN DeleteUnwanted(existing, WantedNames(cfg)) ELSE <<>>)
    \o FlattenSeq([i \in DOMAIN WantedTypes(cfg) |->
         ApplyType(existing, Mode(cfg), WantedTypes(cfg)[i])])

-----------------------------------------------------------------------------
(* What rpcd and libuci do with a call. *)

Executable(secs, op) == op.op \in {"delete", "set", "unset"} => Find(secs, op.id) # <<>>

Overwrite(old, opts) ==
  [o \in DOMAIN old \cup DOMAIN opts |-> IF o \in DOMAIN opts THEN opts[o] ELSE old[o]]

\* The package after a call; an anonymous section that is added gets newId.
Executed(secs, op, newId) ==
  LET change(s) ==
        IF s.id # op.id THEN s
        ELSE CASE op.op \in {"add", "retype"} -> [s EXCEPT !.type = op.arg]
               [] op.op = "set" -> [s EXCEPT !.opts = Overwrite(@, op.arg)]
               [] OTHER -> [s EXCEPT !.opts = [o \in DOMAIN @ \ op.arg |-> @[o]]]
      added == [id |-> IF op.id = "" THEN newId ELSE op.id, type |-> op.arg,
                anon |-> op.id = "", opts |-> <<>>]
  IN  CASE op.op = "delete" -> Selected(secs, {i \in DOMAIN secs : secs[i].id # op.id})
        [] op.op \in {"add", "retype"} /\ Find(secs, op.id) = <<>> -> Append(secs, added)
        [] OTHER -> [i \in DOMAIN secs |-> change(secs[i])]

-----------------------------------------------------------------------------
(* The reference: what a configuration means for a package, without calls. *)

\* What a package says: the named sections, and by type the anonymous ones in order.
View(secs) ==
  LET anon(t) == Anonymous(secs, t)
      at(n) == Find(secs, n)[1]
  IN  [named |-> [n \in {s.id : s \in {x \in ToSet(secs) : ~ x.anon}} |-> <<at(n).type, at(n).opts>>],
       anon |-> [t \in {s.type : s \in {x \in ToSet(secs) : x.anon}} |->
                   [i \in DOMAIN anon(t) |-> anon(t)[i].opts]]]

\* What a package that says old says once cfg is applied to it.
Wanted(old, cfg) ==
  LET types == WantedTypes(cfg)
      listed == {types[i].type : i \in DOMAIN types}
      of(t) == (CHOOSE w \in ToSet(types) : w.type = t).sections
      bare(t) == IF t \notin listed THEN <<>>
                 ELSE LET new == Selected(of(t), {i \in DOMAIN of(t) : of(t)[i].name = ""})
                      IN  [i \in DOMAIN new |-> new[i].opts]
      kept(t) == IF Mode(cfg) = "replace" \/ t \notin DOMAIN old.anon THEN <<>>
                 ELSE SubSeq(old.anon[t], Len(bare(t)) + 1, Len(old.anon[t]))
      named == [n \in WantedNames(cfg) |->
                  LET w == CHOOSE w \in Wants(cfg) : w.name = n
                      t == CHOOSE t \in ToSet(types) : w \in ToSet(t.sections)
                  IN  <<t.type, w.opts>>]
      all == listed \cup DOMAIN old.anon
  IN  [named |-> IF Mode(cfg) = "replace" THEN named ELSE Overwrite(old.named, named),
       anon |-> [t \in {u \in all : bare(u) \o kept(u) # <<>>} |-> bare(t) \o kept(t)]]
=============================================================================
