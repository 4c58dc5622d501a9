------------------------- MODULE MCProductWorkflow -------------------------
(***************************************************************************)
(* The product workflow for TLC: a change of code, tests and changelog,    *)
(* every such change with its code spoilt in one way, and incomplete or    *)
(* oversized ones.                                                         *)
(***************************************************************************)
EXTENDS ProductWorkflow

CONSTANTS code, tests, changelog, readme, workflow

MCPaths == {code, tests, changelog, readme, workflow}
MCProduction == {code}
MCTests == {tests}
MCAllowed == {code, tests, changelog, readme}

Good(p, n) ==
  [path |-> p, right |-> p, kind |-> "edit", file |-> "regular",
   text |-> "plain", size |-> n, lines |-> n]

Spoilt(e) ==
  {[e EXCEPT !.kind = k] : k \in {"new", "delete", "mode", "noop"}}
  \cup {[e EXCEPT !.file = f] : f \in {"symlink", "hardlink", "executable"}}
  \cup {[e EXCEPT !.text = t] : t \in {"binary", "credential", "whitespace", "notUtf8",
                                     "marker", "directive"}}
  \cup {[e EXCEPT !.size = 3], [e EXCEPT !.lines = 4]}

Base == {Good(code, 1), Good(tests, 1), Good(changelog, 1)}

Variants ==
  {Base, Base \cup {Good(readme, 1)}, Base \cup {Good(workflow, 1)},
   {Good(code, 2), Good(tests, 1), Good(changelog, 1)},
   {[e EXCEPT !.size = 2] : e \in Base}}
  \cup {Base \ {e} : e \in Base}
  \cup {(Base \ {Good(code, 1)}) \cup {s} : s \in Spoilt(Good(code, 1))}

Materializable(p) == \A e \in p : e.kind # "noop"

MCWorkspaces == {p \in Variants : Materializable(p)} \cup {{}}

MCPatches ==
  Variants \cup {Base \cup {Good(code, 2)},
                 (Base \ {Good(code, 1)}) \cup {[Good(code, 1) EXCEPT !.right = workflow]}}

MCMetas == {"plain", "absent", "linked", "long", "control", "credential", "escapes"}
=============================================================================
