------------------------------ MODULE MCSkills ------------------------------
(* An instance of Skills for TLC: below a plugin root two directories have *)
(* the name of a skill; a project root, scanned later, holds one more copy.*)
EXTENDS Skills, TLC

TwoRoots == <<"plugin", "project">>
Names    == [p1 |-> "s1", p2 |-> "s1", p3 |-> "s1"]
Roots    == [p1 |-> 1, p2 |-> 1, p3 |-> 2]
Paths    == [p1 |-> 2, p2 |-> 1, p3 |-> 3]

Symmetry == Permutations(SkillThreads)

Pair(key, value) == [indent |-> "none", key |-> key, value |-> value, item |-> FALSE]
Indented(indent, line) == [line EXCEPT !.indent = indent]
Item  == [indent |-> "space", key |-> "none", value |-> "text", item |-> TRUE]
Loose == [indent |-> "none", key |-> "none", value |-> "text", item |-> FALSE]

Disables == Pair("disable-model-invocation", "true")
Closed(block) == [front |-> "closed", block |-> block, text |-> FALSE]

(* Described and closed to the model.                                      *)
Good == Closed(<<Pair("description", "text"), Disables>>)
(* A stray pair asks for the retry; the pair below metadata stays there.   *)
Retried == Closed(<<Pair("metadata", "empty"), Indented("space", Disables),
                    Loose, Indented("tab", Pair("description", "text"))>>)
(* Items that belong to a description, and one that belongs to nothing.    *)
Broken == Closed(<<Pair("description", "empty"), Item, Loose, Item>>)
(* No closing marker: the file is its body.                                *)
Open == [front |-> "unclosed", block |-> <<Disables>>, text |-> FALSE]

SomeDocs == {Good, Retried, Broken, Open}
=============================================================================
