------------------------------ MODULE Catalogue ------------------------------
(***************************************************************************)
(* The mapping files of a vehicle: mapping/loader.py load_tree reads them, *)
(* mapping/registry.py keeps them and resolves them against what the ECU   *)
(* can do, and the poll loop of live.py carries the values of the channels *)
(* they declare, those of mapping/derive.py included, from cycle to cycle. *)
(*                                                                         *)
(* A file is [id, production, wellFormed, family, match, probe, requests,  *)
(* derived, period].  wellFormed stands for the checks of single fields    *)
(* (Decoding has those of a request), period for its polling class.  A     *)
(* request is [id, needs, signals]; a derived channel is [key, needs,      *)
(* fallbacks, trigger]: the inputs without and with a fallback, and the    *)
(* signals that trigger it, Default when none are written.                 *)
(* What a channel computes is left out: whether it has a value is kept.    *)
(* What is resolved is kept as sets: nothing depends on its order.         *)
(***************************************************************************)
EXTENDS Integers, FiniteSets, Sequences

CONSTANTS
  Trees,        \* sequences of files that may be on disk
  Abilities,    \* capability sets an ECU may have
  Family,       \* the family resolved for
  Default

VARIABLES
  tree,         \* the files, in the order of the walk
  known,        \* registry.mappings
  profile,      \* what is resolved: [requests, derived, dropped]
  stance,       \* "loading", "refused", "loaded", "polling"
  able,         \* the ECU's capabilities
  shown         \* the keys that have a value in the poll loop's `values`

catalogueVars == <<tree, known, profile, stance, able, shown>>

Elements(s) == {s[i] : i \in DOMAIN s}
IsSequence(s) == s \in Seq(Elements(s))

ASSUME CatalogueAssumption ==
  \A t \in Trees :
    /\ IsSequence(t)
    /\ \A f \in Elements(t) : IsSequence(f.requests) /\ IsSequence(f.derived)

Signals(f) == UNION {r.signals : r \in Elements(f.requests)}
Keys(f) == Signals(f) \cup {d.key : d \in Elements(f.derived)}
RequestIds(f) == {r.id : r \in Elements(f.requests)}

\* _derived: without a trigger of its own a channel is computed when all its
\* inputs that have no fallback are fresh.
Trigger(d) == IF d.trigger = Default THEN d.needs ELSE d.trigger

-----------------------------------------------------------------------------
(* loader.py *)

\* No key, and no request, twice in one file.
Unique(f) ==
  /\ \A i, j \in DOMAIN f.requests :
       i # j => /\ f.requests[i].signals \cap f.requests[j].signals = {}
                /\ f.requests[i].id # f.requests[j].id
  /\ \A i, j \in DOMAIN f.derived : i # j => f.derived[i].key # f.derived[j].key
  /\ \A i \in DOMAIN f.derived : f.derived[i].key \notin Signals(f)

\* _check_derived_inputs: a file stands by itself.
InputsKnown(f) ==
  \A d \in Elements(f.derived) :
    /\ d.needs \cup d.fallbacks # {}
    /\ d.needs \cup d.fallbacks \cup Trigger(d) \subseteq Keys(f)

\* load_text
Loads(f) ==
  /\ f.wellFormed /\ f.period > 0
  /\ f.probe \subseteq RequestIds(f)
  /\ Unique(f) /\ InputsKnown(f)

\* MappingRegistry.add
Collides(f) ==
  \E g \in Elements(known) :
    RequestIds(f) \cap RequestIds(g) # {} \/ Keys(f) \cap Keys(g) # {}

-----------------------------------------------------------------------------
(* registry.py *)

\* Mutation: the channels are looked at once.
OnePass(n) == 1

\* How often the channels of a file with n of them are gone through.
Passes(n) == n

Needed(d) == d.needs

\* A channel that is taken is there for the next.
TakeReady(taken, d, read) ==
  IF Needed(d) \subseteq read \cup {t.key : t \in taken} THEN taken \cup {d} ELSE taken

\* One pass in the order of the file.
Pass(f, taken, read) ==
  LET after[n \in 0 .. Len(f.derived)] ==
        IF n = 0 THEN taken ELSE TakeReady(after[n - 1], f.derived[n], read)
  IN  after[Len(f.derived)]

\* The channels of file f that are kept when the signals `read` are.
Kept(f, read) ==
  LET passed[n \in 0 .. Passes(Len(f.derived))] ==
        IF n = 0 THEN {} ELSE Pass(f, passed[n - 1], read)
  IN  passed[Passes(Len(f.derived))]

Usable(f) == {r \in Elements(f.requests) : r.needs \subseteq able}
Read(f) == UNION {r.signals : r \in Usable(f)}

\* resolve, for one file: what it adds, and what is dropped for what reason.
Resolved(f) ==
  IF f.family # Family \/ ~(f.match \subseteq able)
  THEN [requests |-> {}, derived |-> {}, dropped |-> {<<"mapping", f.id>>}]
  ELSE [requests |-> Usable(f), derived |-> Kept(f, Read(f)),
        dropped |->
          {<<"request", r.id>> : r \in Elements(f.requests) \ Usable(f)}
            \cup {<<"derived", d.key>> : d \in Elements(f.derived) \ Kept(f, Read(f))}]

\* resolve: what the files add, together.
Resolution ==
  [requests |-> UNION {Resolved(f).requests : f \in Elements(known)},
   derived  |-> UNION {Resolved(f).derived : f \in Elements(known)},
   dropped  |-> UNION {Resolved(f).dropped : f \in Elements(known)}]

Nothing == [requests |-> {}, derived |-> {}, dropped |-> {}]

-----------------------------------------------------------------------------
(* derive.py, live.py poll_loop *)

\* apply_derived: the channels in their order, all from the same view.
Computed(view, fresh) ==
  {d.key : d \in {x \in profile.derived : Trigger(x) \subseteq fresh /\ x.needs \subseteq view}}

\* What goes with the keys of `gone`: a channel with a required input among them.
OneRound(gone) == gone \cup {d.key : d \in {x \in profile.derived : x.needs \cap gone # {}}}

\* Mutation: what is computed from a flagged signal goes, and no further.
NoCascade(gone) == OneRound(gone)

\* And what goes with those, until no channel is added: as many rounds as there
\* are channels are enough.
Cascade(gone) ==
  LET rounds == Cardinality(profile.derived)
      lost[n \in 0 .. rounds] == IF n = 0 THEN gone ELSE OneRound(lost[n - 1])
  IN  lost[rounds]

-----------------------------------------------------------------------------
CatalogueInit ==
  /\ tree \in Trees /\ able \in Abilities
  /\ known = <<>> /\ profile = Nothing /\ stance = "loading" /\ shown = {}

\* load_tree, one file; only production files reach the registry, but a file
\* that does not load stops the program, whatever it is.
LoadFile ==
  /\ stance = "loading" /\ tree # <<>>
  /\ LET f == Head(tree) IN
       IF ~Loads(f) \/ (f.production /\ Collides(f))
         THEN stance' = "refused" /\ UNCHANGED known
         ELSE /\ known' = IF f.production THEN Append(known, f) ELSE known
              /\ UNCHANGED stance
  /\ tree' = Tail(tree)
  /\ UNCHANGED <<profile, able, shown>>

\* A connection: the ECU's capabilities are known, and no value is carried
\* over from the one before.
Resolve ==
  /\ stance = "loading" /\ tree = <<>>
  /\ profile' = Resolution
  /\ stance' = "polling" /\ shown' = {}
  /\ UNCHANGED <<tree, known, able>>

Reconnect ==
  /\ stance = "polling"
  /\ able' \in Abilities
  /\ stance' = "loading"
  /\ profile' = Nothing /\ shown' = {}
  /\ UNCHANGED <<tree, known>>

\* One cycle: of the signals asked some answer, some of them with a reading
\* that is not usable.
Cycle ==
  /\ stance = "polling"
  /\ LET asked == UNION {r.signals : r \in profile.requests} IN
     \E fresh \in SUBSET asked, flagged \in SUBSET asked :
       LET view == (shown \cup fresh) \ Cascade(flagged) IN
       /\ fresh \cap flagged = {}
       /\ shown' = view \cup Computed(view, fresh)
  /\ UNCHANGED <<tree, known, profile, stance, able>>

CatalogueNext == LoadFile \/ Resolve \/ Reconnect \/ Cycle

CatalogueSpec == CatalogueInit /\ [][CatalogueNext]_catalogueVars

-----------------------------------------------------------------------------
(* Properties *)

\* Of a file that matches, exactly the channels that can have a value are kept:
\* those in every set that is closed under "all its required inputs are read or
\* in the set".  The rest of the file, and every other file, is accounted for
\* among the dropped (registry.py:531-657, 578-582).
ResolvedIsLeast ==
  stance = "polling" =>
    /\ \A f \in Elements(known) :
         f.family = Family /\ f.match \subseteq able =>
           LET all  == Elements(f.derived)
               Closed(S) == \A d \in all :
                 d.needs \subseteq Read(f) \cup {s.key : s \in S} => d \in S
               kept == profile.derived \cap all
           IN  /\ Closed(kept)
               /\ \A S \in SUBSET all : Closed(S) => kept \subseteq S
    /\ \A f \in Elements(known) :
         \/ <<"mapping", f.id>> \in profile.dropped
         \/ /\ \A r \in Elements(f.requests) :
                 r \in profile.requests <=> <<"request", r.id>> \notin profile.dropped
            /\ \A d \in Elements(f.derived) :
                 d \in profile.derived <=> <<"derived", d.key>> \notin profile.dropped

\* A channel that has a value has it from inputs that have one: nothing
\* computed from a signal the ECU has since flagged is left standing, however
\* far down the chain (live.py:3380-3418).
ShownIsGrounded ==
  stance = "polling" =>
    \A d \in profile.derived : d.key \in shown => d.needs \subseteq shown
=============================================================================
