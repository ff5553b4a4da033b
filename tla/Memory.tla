------------------------------- MODULE Memory -------------------------------
(***************************************************************************)
(* The memory tool's store (memory.rs): one agent's directory, and the     *)
(* commands models send to it.  Two requests of one agent work in it at a  *)
(* time, with no lock: a command is a series of calls to the file system,  *)
(* and a write empties its file before it fills it.                        *)
(*                                                                         *)
(* A text is a sequence of words; NL ends a line.  A path is the names     *)
(* under /memories.  A spelling is a path as a model writes it: with a     *)
(* slash behind it, or leading outside.                                    *)
(***************************************************************************)
EXTENDS Integers, SequencesExt

CONSTANTS
  Callers,      \* calls in flight at most
  Paths,        \* the paths models name, with the directories above them
  Trees,        \* what the directory may hold at first
  Texts,        \* what commands put in
  Sought,       \* what str_replace looks for
  MaxSize,      \* MAX_FILE_BYTES, in words
  MaxCommands   \* bound of the model

NL == "newline"
Root == <<>>

ASSUME MemoryAssumption ==
  /\ Root \in Paths /\ Paths \subseteq Seq(STRING) /\ Sought \subseteq Seq(STRING)
  /\ \A p \in Paths : \A n \in 0 .. Len(p) : SubSeq(p, 1, n) \in Paths
  /\ {MaxSize, MaxCommands} \subseteq Nat

VARIABLES
  disk,     \* what each path is
  call,     \* the command each caller is in, and how far
  asked,    \* commands so far
  ideal,    \* history: what the disk would be if commands were done one by one, when answered
  raced,    \* history: paths that commands in flight together, or a crash, have left unsure
  agreed    \* history: the last command, if nothing got in its way, was told what it was due

memoryVars == <<disk, call, asked, ideal, raced, agreed>>

None == [kind |-> "none", text |-> <<>>]
Dir == [kind |-> "dir", text |-> <<>>]
File(text) == [kind |-> "file", text |-> text]

Above(p) == {q \in Paths : IsStrictPrefix(q, p)}

\* A file system: what is there is in a directory.
IsTree(tree) ==
  /\ DOMAIN tree = Paths
  /\ \A p \in Paths : tree[p] \in {None, Dir} \/ tree[p].kind = "file"
  /\ \A p \in Paths : tree[p] # None => \A q \in Above(p) : tree[q] = Dir

ASSUME TreesAssumption == \A tree \in Trees : IsTree(tree)

Spellings == [path : Paths, as : {"plain"}]
             \cup {[path |-> Root, as |-> "slash"], [path |-> Root, as |-> "outside"]}

Ranges == {<<>>, <<0, 1>>, <<2, -1>>, <<1, 2>>}

Commands ==
  [cmd : {"view"}, p : Spellings, range : Ranges]
  \cup [cmd : {"create"}, p : Spellings, text : Texts]
  \cup [cmd : {"str_replace"}, p : Spellings, old : Sought, text : Texts]
  \cup [cmd : {"insert"}, p : Spellings, at : -1 .. 2, text : Texts]
  \cup [cmd : {"delete"}, p : Spellings]
  \cup [cmd : {"rename"}, p : Spellings, q : Spellings]

-----------------------------------------------------------------------------
(* Texts. *)

Lines(text) ==
  LET read == FoldLeft(LAMBDA acc, w : IF w = NL
                                       THEN [done |-> Append(acc.done, acc.line), line |-> <<>>]
                                       ELSE [acc EXCEPT !.line = Append(@, w)],
                       [done |-> <<>>, line |-> <<>>], text)
  IN  IF read.line = <<>> THEN read.done ELSE Append(read.done, read.line)

\* insert joins all lines again and ends the last one.
Joined(lines) ==
  IF lines = <<>> THEN <<NL>> ELSE FlattenSeq([n \in DOMAIN lines |-> Append(lines[n], NL)])

\* Where old stands in a text: it starts behind n words.
Places(text, old) == {n \in 0 .. Len(text) - Len(old) : SubSeq(text, n + 1, n + Len(old)) = old}

\* match_indices: from left to right, none over another.
HitsFrom(text, old, at) ==
  {n \in Places(text, old) : n >= at /\ \A m \in Places(text, old) : m >= at => n <= m}

FirstHits(text, old) == HitsFrom(text, old, 0)

NextHits(text, old, hit) == HitsFrom(text, old, hit + IF old = <<>> THEN 1 ELSE Len(old))

Replaced(text, at, old, new) ==
  SubSeq(text, 1, at) \o new \o SubSeq(text, at + Len(old) + 1, Len(text))

Inserted(lines, at, new) == SubSeq(lines, 1, at) \o new \o SubSeq(lines, at + 1, Len(lines))

\* The lines a view shows; -1 is the last one.
LastOf(range, lines) == IF range[2] = -1 THEN Len(lines) ELSE range[2]

InRange(range, lines) ==
  range # <<>> =>
    1 <= range[1] /\ range[1] <= LastOf(range, lines) /\ LastOf(range, lines) <= Len(lines)

Shown(range, lines) ==
  IF range = <<>> THEN lines ELSE SubSeq(lines, range[1], LastOf(range, lines))

-----------------------------------------------------------------------------
(* The directory. *)

Under(p, tree) == {q \in Paths : IsPrefix(p, q) /\ tree[q] # None}

\* create_dir_all of the root: a file in its place stays.
WithRoot(tree) == IF tree[Root].kind = "file" THEN tree ELSE [tree EXCEPT ![Root] = Dir]

\* create_dir_all(parent)
CanMakeParents(tree, p) == \A q \in Above(p) : tree[q].kind # "file"

WithParents(tree, p) == [q \in Paths |-> IF q \in Above(p) THEN Dir ELSE tree[q]]

Without(tree, p) == [q \in Paths |-> IF IsPrefix(p, q) THEN None ELSE tree[q]]

\* What is r when all under p is put under q.
CameFrom(p, q, r) == p \o SubSeq(r, Len(q) + 1, Len(r))

\* Everything under p, put under q.
Moved(tree, p, q) ==
  [r \in Paths |->
     IF IsPrefix(q, r) THEN IF CameFrom(p, q, r) \in Paths THEN tree[CameFrom(p, q, r)] ELSE None
     ELSE IF IsPrefix(p, r) THEN None ELSE tree[r]]

-----------------------------------------------------------------------------
(* One command after the other: what each is to do, and what it answers. *)

Refused(tree) == [ok |-> FALSE, tree |-> tree, shows |-> <<>>]
Achieved(tree) == [ok |-> TRUE, tree |-> tree, shows |-> <<>>]

\* Two places that overlap count as one.
OnePlace(text, old) ==
  /\ Places(text, old) # {}
  /\ \A n, m \in Places(text, old) : n < m => m - n < Len(old)

Viewed(tree, c) ==
  LET node == tree[c.p.path]
      lines == Lines(node.text)
  IN  IF node.kind = "dir" THEN Achieved(tree)
      ELSE IF node.kind = "file" /\ InRange(c.range, lines)
      THEN [ok |-> TRUE, tree |-> tree, shows |-> Shown(c.range, lines)]
      ELSE Refused(tree)

Created(tree, c) ==
  LET p == c.p.path
  IN  IF tree[p].kind # "dir" /\ CanMakeParents(tree, p) /\ Len(c.text) <= MaxSize
      THEN Achieved([WithParents(tree, p) EXCEPT ![p] = File(c.text)])
      ELSE Refused(tree)

\* The new text, and whether there is one.
Nowhere == [fits |-> FALSE, text |-> <<>>]

Insertion(lines, c) ==
  IF c.at \in 0 .. Len(lines)
  THEN [fits |-> TRUE,
        text |-> Joined(SubSeq(lines, 1, c.at) \o Lines(c.text) \o SubSeq(lines, c.at + 1, Len(lines)))]
  ELSE Nowhere

Replacement(text, c) ==
  LET n == CHOOSE n \in Places(text, c.old) : \A m \in Places(text, c.old) : n <= m
  IN  IF OnePlace(text, c.old)
      THEN [fits |-> TRUE, text |-> SubSeq(text, 1, n) \o c.text \o SubSeq(text, n + Len(c.old) + 1, Len(text))]
      ELSE Nowhere

Holding(tree, p, new) ==
  IF tree[p].kind = "file" /\ new.fits /\ Len(new.text) <= MaxSize
  THEN Achieved([tree EXCEPT ![p] = File(new.text)])
  ELSE Refused(tree)

Edited(tree, c) ==
  LET text == tree[c.p.path].text
  IN  Holding(tree, c.p.path, IF c.cmd = "insert" THEN Insertion(Lines(text), c) ELSE Replacement(text, c))

\* The root goes only by the name with a slash behind it.
Deleted(tree, c) ==
  IF c.p # [path |-> Root, as |-> "plain"] /\ tree[c.p.path] # None
  THEN Achieved(Without(tree, c.p.path))
  ELSE Refused(tree)

\* A directory does not fit into itself; the directories on the way to where it does not fit are made.
Renamed(tree, c) ==
  LET p == c.p.path
      q == c.q.path
  IN  IF \/ c.p = [path |-> Root, as |-> "plain"] \/ tree[p] = None \/ tree[q] # None
         \/ ~CanMakeParents(tree, q)
      THEN Refused(tree)
      ELSE IF IsPrefix(p, q) THEN Refused(WithParents(tree, q))
      ELSE Achieved(Moved(WithParents(tree, q), p, q))

Names(c) == {c.p} \cup IF c.cmd = "rename" THEN {c.q} ELSE {}

\* The directory is there once a path in it is asked for.
Done(tree, c) ==
  LET t == WithRoot(tree)
  IN  IF c.p.as = "outside" THEN Refused(tree)
      ELSE IF t[Root].kind = "file" \/ \E s \in Names(c) : s.as = "outside" THEN Refused(t)
      ELSE CASE c.cmd = "view" -> Viewed(t, c)
             [] c.cmd = "create" -> Created(t, c)
             [] c.cmd \in {"str_replace", "insert"} -> Edited(t, c)
             [] c.cmd = "delete" -> Deleted(t, c)
             [] c.cmd = "rename" -> Renamed(t, c)

-----------------------------------------------------------------------------
(* The commands as they run. *)

Idle == [step |-> "idle"]

MemoryInit ==
  /\ disk \in Trees
  /\ call = [c \in Callers |-> Idle]
  /\ asked = 0
  /\ ideal = disk
  /\ raced = {}
  /\ agreed = TRUE

InFlight == {c \in Callers : call[c] # Idle}

\* The paths a command may read or change.
Aims(c) == {s.path : s \in {s \in Names(c) : s.as # "outside"}}

Reach(c) == {q \in Paths : \E p \in Aims(c) : IsPrefix(p, q) \/ IsPrefix(q, p)}

Meet(c, d) == \E p \in Aims(c) : \E q \in Aims(d) : IsPrefix(p, q) \/ IsPrefix(q, p)

\* A command starts: its paths are resolved, which makes the root, or fails at a file there.
Ask(c) ==
  /\ call[c] = Idle /\ asked < MaxCommands
  /\ \E cmd \in Commands, readonly \in BOOLEAN :
       LET others == {call[d].c : d \in {d \in InFlight : Meet(cmd, call[d].c)}}
           changes == {d \in others \cup {cmd} : d.cmd # "view"}
           resolves == ~readonly /\ cmd.p.as # "outside"
           barred == resolves /\ disk[Root].kind = "file"
       IN  /\ readonly => cmd.cmd # "view"
           /\ call' = [d \in Callers |->
                IF d = c THEN [step |-> IF readonly THEN "readonly" ELSE IF barred THEN "barred" ELSE "asked",
                               c |-> cmd, text |-> <<>>, clean |-> others = {}]
                ELSE IF call[d] # Idle /\ call[d].c \in others
                THEN [call[d] EXCEPT !.clean = FALSE]
                ELSE call[d]]
           /\ raced' = IF others = {} THEN raced ELSE raced \cup UNION {Reach(d) : d \in changes}
           /\ disk' = IF resolves THEN WithRoot(disk) ELSE disk
  /\ asked' = asked + 1
  /\ UNCHANGED <<ideal, agreed>>

Moves(c, step, text) ==
  /\ call' = [call EXCEPT ![c].step = step, ![c].text = text]
  /\ UNCHANGED <<asked, ideal, raced, agreed>>

\* What the command is to do.
Owed(c) == IF call[c].step = "readonly" THEN Refused(ideal) ELSE Done(ideal, call[c].c)

\* What a race left unsure is taken as it is when the last of its commands ends.
Settles(c, ok, shows, due, clean, unsure, last) ==
  /\ call' = [call EXCEPT ![c] = Idle]
  /\ ideal' = [p \in Paths |-> IF last /\ p \in unsure THEN disk'[p] ELSE due.tree[p]]
  /\ raced' = IF last THEN {} ELSE unsure
  /\ agreed' = (clean => ok = due.ok /\ shows = due.shows)
  /\ UNCHANGED asked

\* The answer.
Answers(c, ok, shows) ==
  LET cmd == call[c].c
      clean == call[c].clean /\ Reach(cmd) \cap raced = {}
      harmless == clean \/ call[c].step = "readonly" \/ cmd.cmd = "view"
  IN  Settles(c, ok, shows, Owed(c), clean, IF harmless THEN raced ELSE raced \cup Reach(cmd), InFlight = {c})

Refuses(c) == UNCHANGED disk /\ Answers(c, FALSE, <<>>)

\* memory is read-only; there is no directory; a path leads outside
RefusesAtOnce(c) ==
  /\ \/ call[c].step \in {"readonly", "barred"}
     \/ call[c].step = "asked" /\ \E s \in Names(call[c].c) : s.as = "outside"
  /\ Refuses(c)

Runs(c, cmd) ==
  /\ call[c].step = "asked" /\ call[c].c.cmd = cmd
  /\ \A s \in Names(call[c].c) : s.as # "outside"

View(c) ==
  /\ Runs(c, "view")
  /\ UNCHANGED disk
  /\ LET cmd == call[c].c
         node == disk[cmd.p.path]
         lines == Lines(node.text)
     IN  CASE node.kind = "dir" -> Answers(c, TRUE, <<>>)
           [] node.kind = "file" /\ InRange(cmd.range, lines) ->
                Answers(c, TRUE, Shown(cmd.range, lines))
           [] OTHER -> Answers(c, FALSE, <<>>)

\* The size is checked, then the directories above are made.
Create(c) ==
  /\ Runs(c, "create")
  /\ LET cmd == call[c].c
         p == cmd.p.path
     IN  IF Len(cmd.text) <= MaxSize /\ CanMakeParents(disk, p)
         THEN disk' = WithParents(disk, p) /\ Moves(c, "write", cmd.text)
         ELSE Refuses(c)

\* Mutant: the first place is taken, however many there are.
NewText_First(cmd, text) ==
  LET lines == Lines(text)
  IN  IF cmd.cmd = "insert"
      THEN IF cmd.at \in 0 .. Len(lines) THEN {Joined(Inserted(lines, cmd.at, Lines(cmd.text)))} ELSE {}
      ELSE {Replaced(text, hit, cmd.old, cmd.text) : hit \in FirstHits(text, cmd.old)}

\* An edit reads the whole file and works out the whole of the new one.
NewText(cmd, text) ==
  LET lines == Lines(text)
  IN  IF cmd.cmd = "insert"
      THEN IF cmd.at \in 0 .. Len(lines) THEN {Joined(Inserted(lines, cmd.at, Lines(cmd.text)))} ELSE {}
      ELSE {Replaced(text, hit, cmd.old, cmd.text) :
              hit \in {hit \in FirstHits(text, cmd.old) : NextHits(text, cmd.old, hit) = {}}}

Edit(c) ==
  /\ Runs(c, "str_replace") \/ Runs(c, "insert")
  /\ LET cmd == call[c].c
         node == disk[cmd.p.path]
         new == {text \in NewText(cmd, node.text) : Len(text) <= MaxSize}
     IN  IF node.kind = "file" /\ new # {}
         THEN (\E text \in new : Moves(c, "write", text)) /\ UNCHANGED disk
         ELSE Refuses(c)

\* fs::write makes or empties the file ...
Opens(c) ==
  /\ call[c].step = "write"
  /\ LET p == call[c].c.p.path
     IN  IF disk[p].kind # "dir" /\ \A q \in Above(p) : disk[q].kind = "dir"
         THEN disk' = [disk EXCEPT ![p] = File(<<>>)] /\ Moves(c, "fill", call[c].text)
         ELSE Refuses(c)

\* ... and fills it: where it has been moved to, if a race did that, or nowhere.
Fills(c) ==
  /\ call[c].step = "fill"
  /\ LET p == call[c].c.p.path
     IN  \/ \E q \in {p} \cup (IF call[c].clean THEN {} ELSE raced) :
              disk[q].kind = "file" /\ disk' = [disk EXCEPT ![q] = File(call[c].text)]
         \/ ~call[c].clean /\ UNCHANGED disk
  /\ Answers(c, TRUE, <<>>)

\* The name of the root is compared as it is spelled.
IsRoot(s) == s = [path |-> Root, as |-> "plain"]

Delete(c) ==
  /\ Runs(c, "delete")
  /\ LET p == call[c].c.p.path
     IN  IF IsRoot(call[c].c.p) \/ disk[p] = None
         THEN Refuses(c)
         ELSE disk' = Without(disk, p) /\ Answers(c, TRUE, <<>>)

\* rename looks at both places, makes the directories above the new one ...
Rename(c) ==
  /\ Runs(c, "rename")
  /\ LET cmd == call[c].c
         q == cmd.q.path
     IN  IF ~IsRoot(cmd.p) /\ disk[cmd.p.path] # None /\ disk[q] = None /\ CanMakeParents(disk, q)
         THEN disk' = WithParents(disk, q) /\ Moves(c, "move", <<>>)
         ELSE Refuses(c)

\* ... and moves: over a file, if one has come there meanwhile.
CanMove(p, q) ==
  /\ disk[p] # None /\ ~IsPrefix(p, q)
  /\ \A r \in Above(q) : disk[r].kind = "dir"
  /\ IF disk[p].kind = "dir" THEN Under(q, disk) \subseteq {q} /\ disk[q].kind # "file"
     ELSE disk[q].kind # "dir"

Carry(c) ==
  /\ call[c].step = "move"
  /\ LET p == call[c].c.p.path
         q == call[c].c.q.path
     IN  IF CanMove(p, q)
         THEN disk' = Moved(disk, p, q) /\ Answers(c, TRUE, <<>>)
         ELSE Refuses(c)

\* The process ends with commands under way.
MemoryCrash ==
  /\ InFlight # {}
  /\ call' = [c \in Callers |-> Idle]
  /\ LET unsure == raced \cup UNION {Reach(call[c].c) : c \in InFlight}
     IN  ideal' = [p \in Paths |-> IF p \in unsure THEN disk[p] ELSE ideal[p]]
  /\ raced' = {}
  /\ agreed' = TRUE
  /\ UNCHANGED <<disk, asked>>

MemoryNext ==
  \/ \E c \in Callers :
       \/ Ask(c) \/ RefusesAtOnce(c) \/ View(c) \/ Create(c) \/ Edit(c) \/ Opens(c) \/ Fills(c)
       \/ Delete(c) \/ Rename(c) \/ Carry(c)
  \/ MemoryCrash

\* memory.rs, run: a command that no other command gets in the way of does to the directory
\* what the tool's page says of it, all of it or nothing, answers accordingly, shows the
\* lines it is asked for, and leaves all other paths as they are; what others did before,
\* and a crash of theirs, does not show.  Each step but the last may be seen by others only
\* in the paths the command names or makes directories of.
CommandsKept ==
  /\ \A p \in Paths :
       \/ disk[p] = ideal[p]
       \/ p \in raced
       \/ \E c \in InFlight : p \in Reach(call[c].c)
  /\ agreed
=============================================================================
