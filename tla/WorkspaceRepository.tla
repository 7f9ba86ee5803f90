-------------------------- MODULE WorkspaceRepository --------------------------
(***************************************************************************)
(* What a workspace repository says of its workspaces.                     *)
(*                                                                         *)
(* Manifests and pnpm-workspace.yaml files name the workspaces by patterns *)
(* of directories; a pattern with an exclamation mark takes directories    *)
(* away.  Patterns are normalised first, and those that are empty,         *)
(* absolute or lead upwards are not used.  A directory is opened only when *)
(* a pattern could name a directory in it.                                 *)
(*                                                                         *)
(* A path is a sequence of names.  The part of a pattern between two       *)
(* slashes is a name, a glob with the names that it matches, or a globstar *)
(* with the names that it passes through.  Braces around several parts and *)
(* a doubled slash inside of a pattern are left out.                       *)
(***************************************************************************)
EXTENDS Naturals, Sequences, SequencesExt

\* A part "./", an empty part and ".." match no name.
Part(kind, names) == [kind |-> kind, names |-> names]

Pattern(exclude, parts) == [exclude |-> exclude, parts |-> parts]

\* A line of pnpm-workspace.yaml: the key "packages", an item with a pattern, a
\* blank line or comment, or anything else.
Line(indent, what, pattern) == [indent |-> indent, what |-> what, pattern |-> pattern]

-----------------------------------------------------------------------------
(* Reading patterns.                                                       *)

\* The block of a key ends at a line that is indented less, or as much and is
\* no item.
YamlBlockHasEnded(line, indent) ==
    line.what # "blank" /\ (line.indent < indent \/ (line.indent = indent /\ line.what # "item"))

PnpmWorkspacePatterns(lines) ==
    LET keys == {i \in DOMAIN lines : lines[i].what = "packages"}
    IN  IF keys = {} THEN <<>>
        ELSE LET key   == CHOOSE i \in keys : \A j \in keys : i <= j
                 after == {i \in DOMAIN lines : i > key /\ YamlBlockHasEnded(lines[i], lines[key].indent)}
                 end   == IF after = {} THEN Len(lines) ELSE (CHOOSE i \in after : \A j \in after : i <= j) - 1
                 items == SelectSeq(SubSeq(lines, key + 1, end), LAMBDA l : l.what = "item")
             IN  [i \in DOMAIN items |-> items[i].pattern]

\* Those of the manifest come first.
WorkspacePatterns(repo, directory) ==
    (IF directory \in DOMAIN repo.manifests THEN repo.manifests[directory].workspaces ELSE <<>>)
    \o (IF directory \in DOMAIN repo.yaml THEN PnpmWorkspacePatterns(repo.yaml[directory].lines) ELSE <<>>)

\* readBoundedText: a file of more than MAX_WORKSPACE_CONFIG_BYTES.
IsTooLarge(repo, directory) ==
    \/ directory \in DOMAIN repo.manifests /\ repo.manifests[directory].large
    \/ directory \in DOMAIN repo.yaml /\ repo.yaml[directory].large

\* workspaceDeclaresPackage.
Declares(repo, directory, package) ==
    directory \in DOMAIN repo.manifests /\ package \in repo.manifests[directory].declares

\* normalizedWorkspacePattern: leading "./" and trailing slashes are cut off.
Normalized(parts) ==
    LET Kept(i) == parts[i].kind # "dot" \/ i = Len(parts)
        first == CHOOSE i \in DOMAIN parts : Kept(i) /\ \A j \in 1..(i - 1) : ~Kept(j)
        ends  == {0} \cup {i \in first..Len(parts) : parts[i].kind # "empty"}
        last  == CHOOSE i \in ends : \A j \in ends : j <= i
    IN  SubSeq(parts, first, last)

\* unusableWorkspacePattern.
IsUsable(parts) == parts # <<>> /\ parts[1].kind # "empty" /\ \A i \in DOMAIN parts : parts[i].kind # "up"

NormalizedPatterns(patterns, exclude) ==
    {parts \in {Normalized(p.parts) : p \in {p \in ToSet(patterns) : p.exclude = exclude}} : IsUsable(parts)}

-----------------------------------------------------------------------------
(* Matching a path.                                                        *)

\* A globstar passes through any number of directories, at the end through one
\* at least.
Matches(path, parts) ==
    LET m[i \in 1..(Len(parts) + 1), j \in 1..(Len(path) + 1)] ==
            IF i > Len(parts) THEN j > Len(path)
            ELSE \/ /\ parts[i].kind = "deep"
                    /\ \/ i < Len(parts) /\ m[i + 1, j]
                       \/ /\ j <= Len(path) /\ path[j] \in parts[i].names
                          /\ m[i, j + 1] \/ m[i + 1, j + 1]
                 \/ /\ parts[i].kind # "deep" /\ j <= Len(path)
                    /\ path[j] \in parts[i].names
                    /\ m[i + 1, j + 1]
    IN  m[1, 1]

MatchesAny(path, patterns) == \E parts \in patterns : Matches(path, parts)

\* isSelectedWorkspaceDirectory.
IsSelected(path, hasManifest, include, exclude) ==
    path # <<>> /\ hasManifest /\ MatchesAny(path, include) /\ ~MatchesAny(path, exclude)

\* The names before the first glob.
FixedPrefix(parts) ==
    LET n == CHOOSE n \in 0..Len(parts) : /\ \A i \in 1..n : parts[i].kind = "fixed"
                                          /\ n < Len(parts) => parts[n + 1].kind # "fixed"
    IN  [i \in 1..n |-> CHOOSE name \in parts[i].names : TRUE]

\* Mutant of CouldContain: a directory needs as many parts as the pattern.
CouldContainHere(path, parts) ==
    /\ IsPrefix(path, FixedPrefix(parts)) \/ IsPrefix(FixedPrefix(parts), path)
    /\ Matches(path, parts) \/ (\E i \in DOMAIN parts : parts[i].kind = "deep") \/ Len(path) + 1 < Len(parts)

\* patternCouldContainWorkspace: a path that is not a pattern's own needs a
\* globstar, or more parts in the pattern.
CouldContain(path, parts) ==
    /\ IsPrefix(path, FixedPrefix(parts)) \/ IsPrefix(FixedPrefix(parts), path)
    /\ Matches(path, parts) \/ (\E i \in DOMAIN parts : parts[i].kind = "deep") \/ Len(path) < Len(parts)

CouldContainWorkspace(path, patterns) == \E parts \in patterns : CouldContain(path, parts)
=============================================================================
