------------------------------- MODULE Skills -------------------------------
(***************************************************************************)
(* Skills (tools/skills.py) as a role mounts them (role/runtime.py).       *)
(*                                                                         *)
(* A skill is a directory with a SKILL.md.  FileSkillRegistry scans its    *)
(* roots, reads every SKILL.md and keeps, for each skill id, the copy of   *)
(* the highest precedence in a cache that the next discovery replaces.     *)
(* The threads of a host share one registry and lock nothing, and users    *)
(* edit the files meanwhile: the scan of a root, every read and the        *)
(* replacement of the cache are steps of their own.                        *)
(*                                                                         *)
(* A document is what the parser tells apart: whether its frontmatter is   *)
(* opened and closed, for each line of the block its indent, key, value    *)
(* and whether it is a list item, and whether the body has a line of text. *)
(*                                                                         *)
(* McpClientProofs reads this module beside McpClient: they share no name. *)
(***************************************************************************)
EXTENDS Naturals, Sequences, FiniteSetsExt, SequencesExt

CONSTANTS
    SkillThreads,
    Ids,         \* skill ids: names of directories
    Places,      \* directories that may hold a SKILL.md
    IdOf,        \* the name of a place
    RootOf,      \* the index of the root it lies in
    PathOrder,   \* numbers ordered as the places' paths are
    RootScopes,  \* the scope of each root, in the order of the roots
    Untrusted,   \* the roots whose trust level is "untrusted"
    Docs,        \* what users write into a SKILL.md
    Absent,      \* no SKILL.md
    Mounted,     \* the skills that the role names
    MaxEdits     \* bound on the edits of a behaviour

\* What a line of a frontmatter block says; its key is "none" without a colon.
Lines == [indent : {"none", "space", "tab"}, key : STRING, value : STRING, item : BOOLEAN]

ASSUME SkillsAssumption ==
    /\ \A doc \in Docs : /\ doc.front \in {"none", "unclosed", "closed"}
                         /\ doc.text \in BOOLEAN /\ doc.block \in Seq(Lines)
    /\ RootScopes \in Seq(STRING)
    /\ IdOf \in [Places -> Ids] /\ RootOf \in [Places -> DOMAIN RootScopes]
    /\ PathOrder \in [Places -> Nat]
    /\ \A p, q \in Places : PathOrder[p] = PathOrder[q] => p = q
    /\ Untrusted \subseteq DOMAIN RootScopes /\ Mounted \subseteq Ids
    /\ Absent \notin Docs /\ MaxEdits \in Nat

VARIABLES
    file,     \* the document at each place
    cache,    \* FileSkillRegistry._cache
    bound,    \* SkillContextManager._bindings: the place of the first activation
    mounted,  \* the role is resolved, with its registry
    pc, op,
    want,     \* the skill a thread asks for
    root,     \* the root it has to scan next
    todo,     \* the SKILL.md files that the scan of a root has listed
    found,    \* the local table of a discovery
    (* history *)
    edits,
    dirty,    \* the places that changed since a thread's discovery began
    calm      \* no place changed since the discovery that filled the cache began

shared  == <<cache, bound, mounted>>
locals  == <<op, want, root, todo, found>>
skillsVars == <<file, shared, pc, locals, edits, dirty, calm>>

None    == [place |-> "none"]
Nothing == [s \in Ids |-> None]
-----------------------------------------------------------------------------
(* The frontmatter block, one line after the other.  The parser drops the  *)
(* nested value as soon as a line of it is neither an item among items nor *)
(* a pair (_parse_nested_block).                                           *)

Colon(line) == line.key # "none"
Opens(line) == Colon(line) /\ line.value = "empty"

Nested(lines) ==
    IF \A i \in DOMAIN lines : lines[i].item THEN "list"
    ELSE IF \A i \in DOMAIN lines : Colon(lines[i]) THEN "map" ELSE "empty"

Begun == [fields |-> <<>>, block |-> "none", nested |-> <<>>, failed |-> FALSE]

(* Close the block a line without indent ends, with the value of its lines.*)
CloseBlock(acc) ==
    IF acc.block = "none" THEN acc
    ELSE [acc EXCEPT !.fields = Append(@, <<acc.block,
                                            IF acc.nested = <<>> THEN "empty" ELSE Nested(acc.nested)>>),
                     !.block = "none", !.nested = <<>>]

Line(acc, line) ==
    LET flat == CloseBlock(acc)
    IN IF acc.failed THEN acc ELSE
       CASE line.indent = "space" /\ acc.block # "none" -> [acc EXCEPT !.nested = Append(@, line)]
         [] line.indent # "none" /\ ~(line.indent = "space" /\ acc.block # "none") ->
                [acc EXCEPT !.failed = TRUE]
         [] line.indent = "none" /\ Opens(line) -> [flat EXCEPT !.block = line.key]
         [] line.indent = "none" /\ Colon(line) /\ ~Opens(line) ->
                [flat EXCEPT !.fields = Append(@, <<line.key, line.value>>)]
         [] OTHER -> flat                      \* a malformed line is ignored

ParseBlock(block) ==
    LET acc[n \in 0..Len(block)] == IF n = 0 THEN Begun ELSE Line(acc[n - 1], block[n])
    IN  CloseBlock(acc[Len(block)])

(* Mutant: every indented pair moves to the margin.                        *)
FlattenAll(block) ==
    [i \in DOMAIN block |->
        IF block[i].indent # "none" /\ Colon(block[i]) /\ ~block[i].item
        THEN [block[i] EXCEPT !.indent = "none"] ELSE block[i]]

(* The retry: tabs become spaces, and an indented pair moves to the margin *)
(* unless the line before it opens a block.                                *)
Normalize(block) ==
    [i \in DOMAIN block |->
        LET opened == i > 1 /\ Opens(block[i - 1]) /\ ~block[i - 1].item
        IN IF block[i].indent # "none" /\ Colon(block[i]) /\ ~block[i].item /\ ~opened
           THEN [block[i] EXCEPT !.indent = "none"]
           ELSE [block[i] EXCEPT !.indent = IF @ = "tab" THEN "space" ELSE @]]

(* A file whose frontmatter is not closed is all body; its first line of   *)
(* text is then the marker itself.                                         *)
ParseDocument(doc) ==
    LET first == ParseBlock(doc.block)
    IN CASE doc.front = "none"     -> [fields |-> <<>>, text |-> doc.text, failed |-> FALSE]
         [] doc.front = "unclosed" -> [fields |-> <<>>, text |-> TRUE, failed |-> FALSE]
         [] OTHER ->
              LET parsed == IF first.failed THEN ParseBlock(Normalize(doc.block)) ELSE first
              IN [fields |-> parsed.fields, text |-> doc.text, failed |-> parsed.failed]

(* result[key]: the last line with the key decides.                        *)
Field(fields, key) ==
    LET at == {i \in DOMAIN fields : fields[i][1] = key}
    IN IF at = {} THEN "empty" ELSE fields[Max(at)][2]
-----------------------------------------------------------------------------
(* _load_from_ref: no skill when the block cannot be parsed or neither the *)
(* frontmatter nor the body describes it.  The model may invoke it unless  *)
(* its root is untrusted or the document says otherwise.                   *)
Describes(manifest) == Field(manifest.fields, "description") = "text" \/ manifest.text

LoadFromRef(p, doc) ==
    LET manifest == ParseDocument(doc)
    IN IF manifest.failed \/ ~Describes(manifest) THEN None
       ELSE [place |-> p, doc |-> doc, notes |-> {},
             invocable |-> /\ Field(manifest.fields, "disable-model-invocation") # "true"
                           /\ RootOf[p] \notin Untrusted]

Precedence == [project |-> 0, managed |-> 1, user |-> 2, bundled |-> 3, plugin |-> 4, mcp |-> 5]

Rank(p) == LET scope == RootScopes[RootOf[p]]
           IN IF scope \in DOMAIN Precedence THEN Precedence[scope] ELSE 100

(* Mutant: of two copies of one scope the later one wins.                  *)
LaterWins(p, q) == Rank(p) <= Rank(q)

(* _resolve_shadow: does the copy at p win over the one found earlier at q?*)
Shadows(p, q) == Rank(p) < Rank(q) \/ (Rank(p) = Rank(q) /\ PathOrder[p] < PathOrder[q])

(* Merge a candidate into the table of a discovery; the winner notes whom  *)
(* it shadows.                                                             *)
Merge(table, new) ==
    LET s   == IdOf[new.place]
        old == table[s]
    IN IF old = None THEN [table EXCEPT ![s] = new]
       ELSE IF Shadows(new.place, old.place)
       THEN [table EXCEPT ![s] = [new EXCEPT !.notes = @ \cup {old.place}]]
       ELSE [table EXCEPT ![s] = [old EXCEPT !.notes = @ \cup {new.place}]]
-----------------------------------------------------------------------------
Go(t, l) == pc' = [pc EXCEPT ![t] = l]

Reset(t) ==
    /\ op' = [op EXCEPT ![t] = "none"] /\ want' = [want EXCEPT ![t] = "none"]
    /\ root' = [root EXCEPT ![t] = 0] /\ todo' = [todo EXCEPT ![t] = {}]
    /\ found' = [found EXCEPT ![t] = Nothing] /\ dirty' = [dirty EXCEPT ![t] = {}]

SkillsInit ==
    /\ file \in [Places -> Docs \cup {Absent}]
    /\ cache = Nothing /\ bound = [s \in Ids |-> "none"] /\ mounted = FALSE
    /\ pc = [t \in SkillThreads |-> "idle"] /\ op = [t \in SkillThreads |-> "none"]
    /\ want = [t \in SkillThreads |-> "none"] /\ root = [t \in SkillThreads |-> 0]
    /\ todo = [t \in SkillThreads |-> {}] /\ found = [t \in SkillThreads |-> Nothing]
    /\ edits = 0 /\ dirty = [t \in SkillThreads |-> {}] /\ calm = FALSE

(* A user writes, replaces or deletes a SKILL.md.                          *)
Edit(p, doc) ==
    /\ edits < MaxEdits /\ doc # file[p]
    /\ file' = [file EXCEPT ![p] = doc]
    /\ edits' = edits + 1 /\ calm' = FALSE
    /\ dirty' = [t \in SkillThreads |-> IF pc[t] \in {"scan", "read"} THEN dirty[t] \cup {p} ELSE dirty[t]]
    /\ UNCHANGED <<shared, pc, locals>>

(* discover_skills begins.                                                 *)
Discover(t) ==
    /\ root' = [root EXCEPT ![t] = 1] /\ found' = [found EXCEPT ![t] = Nothing]
    /\ dirty' = [dirty EXCEPT ![t] = {}]
    /\ Go(t, "scan")
    /\ UNCHANGED todo

(* The role is resolved before its runtime serves anyone; afterwards the   *)
(* model's commands or the catalog are listed.                             *)
Mount(t) ==
    /\ ~mounted /\ \A u \in SkillThreads : pc[u] = "idle"
    /\ op' = [op EXCEPT ![t] = "mount"]
    /\ Discover(t)
    /\ UNCHANGED <<file, shared, want, edits, calm>>

List(t) ==
    /\ mounted /\ pc[t] = "idle"
    /\ op' = [op EXCEPT ![t] = "list"]
    /\ Discover(t)
    /\ UNCHANGED <<file, shared, want, edits, calm>>

(* _RoleSkillRegistry refuses a skill that the role does not name.         *)
Allowed(s) == s \in Mounted

(* invoke_skill, the Skill tool's call, renders; invoke_skill_wrapped      *)
(* loads, renders (which loads again) and marks the skill as activated.    *)
Invoke(t, o, s) ==
    /\ mounted /\ pc[t] = "idle" /\ Allowed(s)
    /\ op' = [op EXCEPT ![t] = o] /\ want' = [want EXCEPT ![t] = s]
    /\ Go(t, "load")
    /\ UNCHANGED <<file, shared, root, todo, found, edits, dirty, calm>>

(* load_skill discovers when the cache has no such skill.                  *)
Load(t) ==
    /\ pc[t] = "load"
    /\ IF cache[want[t]] = None THEN Discover(t)
       ELSE Go(t, "lookup") /\ UNCHANGED <<root, todo, found, dirty>>
    /\ UNCHANGED <<file, shared, op, want, edits, calm>>

(* The files that rglob lists in the next root.                            *)
ScanRoot(t) ==
    /\ pc[t] = "scan" /\ root[t] \in DOMAIN RootScopes
    /\ todo' = [todo EXCEPT ![t] = {p \in Places : RootOf[p] = root[t] /\ file[p] # Absent}]
    /\ Go(t, "read")
    /\ UNCHANGED <<file, shared, op, want, root, found, edits, dirty, calm>>

(* One of them, in the order of the directory, is read; it is gone when a  *)
(* user has deleted it since, and the discovery raises.                    *)
Read(t, p) ==
    /\ pc[t] = "read" /\ p \in todo[t]
    /\ IF file[p] = Absent
       THEN Go(t, "idle") /\ Reset(t)
       ELSE LET new == LoadFromRef(p, file[p])
            IN /\ found' = [found EXCEPT ![t] = IF new = None THEN @ ELSE Merge(@, new)]
               /\ todo' = [todo EXCEPT ![t] = @ \ {p}]
               /\ UNCHANGED <<pc, op, want, root, dirty>>
    /\ UNCHANGED <<file, shared, edits, calm>>

RootDone(t) ==
    /\ pc[t] = "read" /\ todo[t] = {}
    /\ root' = [root EXCEPT ![t] = @ + 1]
    /\ Go(t, "scan")
    /\ UNCHANGED <<file, shared, op, want, todo, found, edits, dirty, calm>>

(* The table replaces the cache.  A role with a skill that is not in it is *)
(* refused, and its registry dropped.                                      *)
Discovered(t) ==
    /\ pc[t] = "scan" /\ root[t] \notin DOMAIN RootScopes
    /\ LET refused == op[t] = "mount" /\ \E s \in Mounted : found[t][s] = None
       IN /\ cache' = IF refused THEN Nothing ELSE found[t]
          /\ calm' = (dirty[t] = {} /\ ~refused)
          /\ mounted' = ~refused
    /\ IF op[t] \in {"mount", "list"} THEN Go(t, "idle") /\ Reset(t)
       ELSE /\ Go(t, "lookup")
            /\ root' = [root EXCEPT ![t] = 0] /\ found' = [found EXCEPT ![t] = Nothing]
            /\ dirty' = [dirty EXCEPT ![t] = {}]
            /\ UNCHANGED <<op, want, todo>>
    /\ UNCHANGED <<file, bound, edits>>

(* mark_activated: the first activation of a skill binds its directory and *)
(* resources; a later one gets the same binding.                           *)
MarkActivated(s, p) == bound' = IF bound[s] = "none" THEN [bound EXCEPT ![s] = p] ELSE bound

(* _cache[skill_id] is read again, and by now another thread's discovery   *)
(* may have replaced the table: KeyError.                                  *)
Lookup(t) ==
    /\ pc[t] = "lookup"
    /\ LET s == want[t]
       IN IF cache[s] = None
          THEN Go(t, "idle") /\ Reset(t) /\ UNCHANGED bound
          ELSE CASE op[t] = "activate" ->     \* loaded; now it is rendered
                      /\ op' = [op EXCEPT ![t] = "render"] /\ Go(t, "load")
                      /\ UNCHANGED <<bound, want, root, todo, found, dirty>>
                 [] op[t] = "render" -> /\ MarkActivated(s, cache[s].place)
                                        /\ Go(t, "idle") /\ Reset(t)
                 [] OTHER -> Go(t, "idle") /\ Reset(t) /\ UNCHANGED bound
    /\ UNCHANGED <<file, cache, mounted, edits, calm>>
-----------------------------------------------------------------------------
Discovery(t) == ScanRoot(t) \/ (\E p \in Places : Read(t, p)) \/ RootDone(t) \/ Discovered(t)

SkillsNext ==
    \/ \E p \in Places, doc \in Docs \cup {Absent} : Edit(p, doc)
    \/ \E t \in SkillThreads :
          \/ Mount(t) \/ List(t) \/ Load(t) \/ Lookup(t) \/ Discovery(t)
          \/ \E s \in Ids, o \in {"invoke", "activate"} : Invoke(t, o, s)

SkillsSpec == SkillsInit /\ [][SkillsNext]_skillsVars
-----------------------------------------------------------------------------
(* What a document says, without the parser: a line stands at the margin,  *)
(* or a retry has to move it there; other lines belong to the opening line *)
(* at the margin above them, and make the block unreadable without one.    *)
AtMargin(b, i, retry) ==
    \/ b[i].indent = "none"
    \/ retry /\ Colon(b[i]) /\ ~b[i].item /\ ~(i > 1 /\ Opens(b[i - 1]) /\ ~b[i - 1].item)

Belongs(b, i, retry) ==
    \E j \in 1..(i - 1) :
        /\ AtMargin(b, j, retry) /\ Opens(b[j])
        /\ \A k \in (j + 1)..i : ~AtMargin(b, k, retry) /\ (retry \/ b[k].indent = "space")

Readable(b, retry) == \A i \in DOMAIN b : AtMargin(b, i, retry) \/ Belongs(b, i, retry)

Says(b, key, value) ==
    LET retry == ~Readable(b, FALSE)
    IN \E i \in DOMAIN b :
          /\ AtMargin(b, i, retry) /\ b[i].key = key /\ b[i].value = value
          /\ \A j \in (i + 1)..Len(b) : AtMargin(b, j, retry) => b[j].key # key

DocSays(doc, key, value) == doc.front = "closed" /\ Says(doc.block, key, value)

Usable(doc) ==
    /\ doc # Absent
    /\ doc.front = "closed" => Readable(doc.block, FALSE) \/ Readable(doc.block, TRUE)
    /\ doc.text \/ doc.front = "unclosed" \/ DocSays(doc, "description", "text")

Copies(s) == {p \in Places : IdOf[p] = s /\ Usable(file[p])}

Before(p, q) == Rank(p) < Rank(q) \/ (Rank(p) = Rank(q) /\ PathOrder[p] < PathOrder[q])

(* When no file changed since the discovery that filled the cache began,   *)
(* the cache holds for every skill the copy of the highest precedence of   *)
(* all the roots, whatever their order and that of their directories, as   *)
(* its document says, and notes that there are others, if there are; the   *)
(* discoveries of other threads do not matter (skills.py:152-179, 252-262, *)
(* 489-609; docs/developer-guide/internals/skills.md:19-20).               *)
CalmCacheIsExact ==
    calm => \A s \in Ids :
        IF Copies(s) = {} THEN cache[s] = None
        ELSE LET c == cache[s]
             IN /\ c # None
                /\ c.place \in Copies(s) /\ \A p \in Copies(s) : ~Before(p, c.place)
                /\ c.doc = file[c.place]
                /\ c.invocable <=> /\ ~DocSays(c.doc, "disable-model-invocation", "true")
                                  /\ RootOf[c.place] \notin Untrusted
                /\ c.notes \subseteq Copies(s) \ {c.place}
                /\ c.notes = {} => Copies(s) = {c.place}

(* However files change while a discovery reads, no copy it has passed and *)
(* that did not change outranks the copy it keeps (skills.py:155-178).     *)
SteadyCopyIsNotOutranked ==
    \A t \in SkillThreads, p \in Places :
        /\ pc[t] \in {"scan", "read"} /\ p \notin dirty[t] /\ Usable(file[p])
        /\ RootOf[p] < root[t] \/ (RootOf[p] = root[t] /\ pc[t] = "read" /\ p \notin todo[t])
        => /\ found[t][IdOf[p]] # None
           /\ ~Before(p, found[t][IdOf[p]].place)
=============================================================================
