----------------------------- MODULE TargetBuild -----------------------------
(***************************************************************************)
(* What a lang_*_compile target promises, without the actions, manifests   *)
(* and premerge files that it takes to keep the promise: every file of the *)
(* target is what one plugin wrote for it, or the template of that plugin; *)
(* a file is delivered once and never changes; the build fails only of     *)
(* what the plugins or the names of their files bring about.               *)
(*                                                                         *)
(* A source is a plugin that the target runs: the outputs declared for it  *)
(* (those it may write, for a directory), the name that each gets in the   *)
(* target, and whether it has to write "all" of them, may leave some to    *)
(* its "template", or fills a "directory".  Build implements this module.  *)
(***************************************************************************)
EXTENDS Integers, Sequences, SequencesExt

CONSTANT InWay(_, _)   \* two names have one path, or one is a directory above the other

VARIABLES
  stage,      \* "analysis", "refused" or "building"
  target,     \* the sources, by their place in the target's list of plugins,
              \* and whether their files are merged in a directory
  wrote,      \* for each source that has run, the outputs that it wrote
  delivered,  \* the files of the target that exist, each with its content
  faults      \* what failed, and of what plugin

vars == <<stage, target, wrote, delivered, faults>>

Nothing == [n \in {} |-> n]

NoTarget == [sources |-> << >>, merged |-> FALSE]

Init ==
  /\ stage = "analysis"
  /\ target = NoTarget
  /\ wrote = Nothing
  /\ delivered = Nothing
  /\ faults = {}

-----------------------------------------------------------------------------

\* In what follows t is the target and w what its sources wrote.

Outs(s) == ToSet(s.outs)

Repeats(s) == ~ IsInjective(s.outs)

\* The names that the files of source s may have in the target.
NamesOf(s) == {s.names[k] : k \in DOMAIN s.outs}

\* A target is only built if it keeps the files of its plugins apart, except
\* for the content of the directories that it merges.
Apart(t) ==
  /\ \A i \in DOMAIN t.sources : LET s == t.sources[i] IN
       \A k, l \in DOMAIN s.outs : s.names[k] = s.names[l] => s.outs[k] = s.outs[l]
  /\ \A i, j \in DOMAIN t.sources :
       t.sources[i] # t.sources[j] /\ "directory" \notin {t.sources[i].writes, t.sources[j].writes} =>
         NamesOf(t.sources[i]) \cap NamesOf(t.sources[j]) = {}

Accept ==
  /\ stage = "analysis"
  /\ stage' = "building"
  /\ Apart(target')
  /\ UNCHANGED <<wrote, delivered, faults>>

Refuse ==
  /\ stage = "analysis"
  /\ stage' = "refused"
  /\ UNCHANGED <<target, wrote, delivered, faults>>

Failed(s, whys) == \E why \in whys : <<s.label, why>> \in faults

\* The one run of a plugin, which takes place or fails, also if the plugin is
\* in the target's list twice.
Run(t, w) ==
  /\ wrote' # w
  /\ \E i \in DOMAIN t.sources \ DOMAIN w :
       LET s == t.sources[i] IN
       /\ ~ Failed(s, {"twice", "missing"})
       /\ \E names \in SUBSET Outs(s) :
            /\ s.writes = "all" => names = Outs(s)
            /\ wrote' = [j \in DOMAIN w \cup {j \in DOMAIN t.sources : t.sources[j] = s} |->
                           IF t.sources[j] = s THEN names ELSE w[j]]
  /\ UNCHANGED <<stage, target, delivered, faults>>

-----------------------------------------------------------------------------
(* The files of the target *)

\* The outputs of source i that there is a file for when it has run.
Has(t, w, i) ==
  LET s == t.sources[i] IN {k \in DOMAIN s.outs : s.writes = "directory" => s.outs[k] \in w[i]}

Content(t, w, i, k) ==
  LET s == t.sources[i] IN [by |-> s.label, of |-> s.outs[k], filled |-> s.outs[k] \notin w[i]]

Gives(t, w, i) == {t.sources[i].names[k] : k \in Has(t, w, i)}

Deliver(t, w) ==
  /\ ~ t.merged
  /\ \E i \in DOMAIN w : \E k \in Has(t, w, i) :
       LET name == t.sources[i].names[k] IN
       /\ name \notin DOMAIN delivered
       /\ delivered' = [n \in DOMAIN delivered \cup {name} |->
                          IF n = name THEN Content(t, w, i, k) ELSE delivered[n]]
  /\ UNCHANGED <<stage, target, wrote, faults>>

\* The merged directory: a name is that of the first source which gives it.
Merged(t, w) ==
  [n \in UNION {Gives(t, w, i) : i \in DOMAIN w} |->
     LET i == CHOOSE i \in DOMAIN w :
                n \in Gives(t, w, i) /\ \A j \in DOMAIN w : j < i => n \notin Gives(t, w, j)
     IN Content(t, w, i, CHOOSE k \in Has(t, w, i) : t.sources[i].names[k] = n)]

\* An output that is not in a directory of its own is in the way of another,
\* or is there twice.
Conflict(t, w) ==
  \E i, j \in DOMAIN w :
    /\ t.sources[i].writes # "directory"
    /\ \E k \in Has(t, w, i), l \in Has(t, w, j) :
         (i # j \/ k # l) /\ InWay(t.sources[i].names[k], t.sources[j].names[l])

DeliverMerged(t, w) ==
  /\ t.merged
  /\ delivered = Nothing
  /\ DOMAIN w = DOMAIN t.sources
  /\ ~ Conflict(t, w)
  /\ delivered' = Merged(t, w)
  /\ UNCHANGED <<stage, target, wrote, faults>>

-----------------------------------------------------------------------------
(* Failures.  Any tool may fail; for the rest the plugins have to give cause. *)

MayFail(t, w, label, why) ==
  \/ why = "tool"
  \/ \E i \in DOMAIN t.sources \ DOMAIN w :
       LET s == t.sources[i] IN
       /\ label = s.label
       /\ (why = "twice" /\ Repeats(s)) \/ (why = "missing" /\ s.writes = "all")
  \/ \E i \in DOMAIN w :
       LET s == t.sources[i] IN
       label = s.label /\ why = "denied" /\ s.writes = "template" /\ Repeats(s)
  \/ why = "conflict" /\ t.merged /\ DOMAIN w = DOMAIN t.sources /\ Conflict(t, w)

Break(t, w) ==
  /\ faults \subseteq faults'
  /\ \A fault \in faults' \ faults : MayFail(t, w, fault[1], fault[2])
  /\ UNCHANGED <<stage, target, wrote, delivered>>

Build(t, w) == Run(t, w) \/ Deliver(t, w) \/ DeliverMerged(t, w) \/ Break(t, w)

Next ==
  \/ Accept \/ Refuse
  \/ stage = "building" /\ \E t \in {target}, w \in {wrote} : Build(t, w)

Spec == Init /\ [][Next]_vars
=============================================================================
