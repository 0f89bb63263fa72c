------------------------------ MODULE Workspace ------------------------------
(***************************************************************************)
(* The mediated file system a run works in: the bounded reads of           *)
(* adapters/workspace/restricted.py, its edits, the digest of a tree       *)
(* (application/verification/hard_gates.py) and the scan of intake         *)
(* (application/intake_scan.py), as operators on the state of a disk.      *)
(*                                                                         *)
(* A path is the sequence of its names, a file the sequence of its words;  *)
(* a size is a number of words, and a digest is the content it stands for. *)
(* A directory is there while a file is under it, and a line is a word.    *)
(* The tools run on the event loop with no await inside, so that an edit   *)
(* is one step; the lease a worker takes before it is in Worker.  What a   *)
(* walk cannot open or list, an OSError says: the set "shut".              *)
(***************************************************************************)
EXTENDS Integers, Sequences, FiniteSets, SequencesExt

CONSTANTS
  Paths,           \* bound: the paths a file may have
  Denied,          \* those is_sensitive_path names
  Unsafe,          \* bound: the paths _resolve_safe refuses
  Words,           \* bound: the words of a file
  NotText,         \* the word no UTF-8 decoder accepts
  Skipped,         \* _SKIPPED_DIRS, and the names that start with a dot
  KeyFiles,        \* _KEY_FILES
  None,            \* no file, no value
  MaxRead,         \* max_read_bytes
  MaxWrite,        \* max_write_bytes
  MaxList,         \* max_list_entries
  MaxSearchDirs,   \* max_search_directories
  MaxSearchFiles,  \* max_search_files
  MaxSearchWords,  \* max_search_file_bytes
  MaxMatches,      \* max_search_results
  MaxEntries,      \* the scan's max_entries
  MaxDirs,         \* the scan's max_dirs
  MaxTree          \* _TREE_MAX_ENTRIES

ASSUME WorkspaceAssumption ==
  /\ Paths \subseteq Seq(STRING) \ {<<>>} /\ IsFiniteSet(Paths)
  /\ Denied \subseteq Paths /\ Unsafe \cap Paths = {}
  /\ NotText \in Words
  /\ None \notin Words /\ None \notin BOOLEAN
  /\ None \notin Seq(Words) /\ None \notin Seq(STRING)
  /\ {MaxRead, MaxWrite, MaxList, MaxSearchDirs, MaxSearchFiles, MaxSearchWords,
      MaxMatches, MaxEntries, MaxDirs, MaxTree} \subseteq Nat

First(seq, n) == SubSeq(seq, 1, Min({n, Len(seq)}))

\* The order the walks visit the paths and the listings give the names in.
Ordered(set) == FoldSet(LAMBDA x, seq : Append(seq, x), <<>>, set)

PathOrder == Ordered(Paths)
NameOrder == Ordered(UNION {Range(p) : p \in Paths})

InOrder(order, set) ==
  FoldLeft(LAMBDA seq, x : IF x \in set THEN Append(seq, x) ELSE seq, <<>>, order)

Disk == [Paths -> Seq(Words) \cup {None}]

Files(disk) == {p \in Paths : disk[p] # None}

Under(disk, dir) == {p \in Files(disk) : IsStrictPrefix(dir, p)}

IsDir(disk, dir) == Under(disk, dir) # {}

Has(content, word) == \E i \in DOMAIN content : content[i] = word

IsText(content) == ~Has(content, NotText)

(***************************************************************************)
(* What a tool or a gate sees.                                             *)
(***************************************************************************)
Failed(kind) == [ok |-> FALSE, kind |-> kind, data |-> <<>>, cut |-> FALSE]

Seen(data, cut) == [ok |-> TRUE, kind |-> "", data |-> data, cut |-> cut]

Read(disk, path) ==
  CASE path \in Unsafe            -> Failed("unsafe_path")
    [] IsDir(disk, path)          -> Failed("not_file")
    [] path \notin Files(disk)    -> Failed("not_found")
    [] path \in Denied            -> Failed("sensitive_denied")
    [] OTHER -> Seen(First(disk[path], MaxRead), Len(disk[path]) > MaxRead)

Occurrences(content, word) == {i \in DOMAIN content : content[i] = word}

\* The names in a directory, the first max_list_entries of them.
Listing(disk, shut, dir) ==
  LET names == InOrder(NameOrder, {p[Len(dir) + 1] : p \in Under(disk, dir)})
  IN IF ~IsDir(disk, dir) \/ dir \in shut THEN Failed("list")
     ELSE Seen(First(names, MaxList), Len(names) > MaxList)

\* What no walk gets to.
Closed(shut, path) == \E dir \in shut : IsStrictPrefix(dir, path)

\* The directories a walk enters on its way to a file, as far as it gets.
Above(shut, path) ==
  {dir \in {First(path, n) : n \in 0 .. Len(path) - 1} : ~Closed(shut, dir)}

\* Mutant of Inspect: the tail of a long file is left out without a word of it.
InspectSilent(disk, shut, word, found, p) ==
  LET dirs  == found.dirs \cup Above(shut, p)
      lines == Occurrences(First(disk[p], MaxSearchWords), word)
      shown == {i \in lines :
        Cardinality(found.hits) + Cardinality({j \in lines : j <= i}) <= MaxMatches}
      full  == shown # lines
  IN IF found.stop THEN found
     ELSE IF Cardinality(dirs) > MaxSearchDirs
          THEN [found EXCEPT !.cut = TRUE, !.stop = TRUE]
     ELSE IF p \in Denied \/ Closed(shut, p) THEN [found EXCEPT !.dirs = dirs]
     ELSE IF found.files = MaxSearchFiles
          THEN [found EXCEPT !.cut = TRUE, !.stop = TRUE]
     ELSE IF p \in shut THEN [found EXCEPT !.dirs = dirs, !.files = @ + 1]
     ELSE [dirs |-> dirs, files |-> found.files + 1, hits |-> found.hits \cup ({p} \X shown),
           cut |-> found.cut \/ full, stop |-> full]

\* The walk comes to a file: the directories above it count, then the file, unless it
\* is denied, then the lines that match, in as much of it as is inspected.  A directory
\* that cannot be listed and a file that cannot be opened count and are passed over.
Inspect(disk, shut, word, found, p) ==
  LET dirs  == found.dirs \cup Above(shut, p)
      lines == Occurrences(First(disk[p], MaxSearchWords), word)
      shown == {i \in lines :
        Cardinality(found.hits) + Cardinality({j \in lines : j <= i}) <= MaxMatches}
      full  == shown # lines
  IN IF found.stop THEN found
     ELSE IF Cardinality(dirs) > MaxSearchDirs
          THEN [found EXCEPT !.cut = TRUE, !.stop = TRUE]
     ELSE IF p \in Denied \/ Closed(shut, p) THEN [found EXCEPT !.dirs = dirs]
     ELSE IF found.files = MaxSearchFiles
          THEN [found EXCEPT !.cut = TRUE, !.stop = TRUE]
     ELSE IF p \in shut THEN [found EXCEPT !.dirs = dirs, !.files = @ + 1]
     ELSE [dirs |-> dirs, files |-> found.files + 1, hits |-> found.hits \cup ({p} \X shown),
           cut |-> found.cut \/ Len(disk[p]) > MaxSearchWords \/ full, stop |-> full]

\* The walk from the root, in the order of the paths: the code's is depth first by name.
Search(disk, shut, word) ==
  FoldLeft(LAMBDA found, p : Inspect(disk, shut, word, found, p),
           [dirs |-> {}, files |-> 0, hits |-> {}, cut |-> FALSE, stop |-> FALSE],
           InOrder(PathOrder, Files(disk)))

(***************************************************************************)
(* The edits.  An edit that fails leaves the disk as it was.               *)
(***************************************************************************)
\* _atomic_write: exists says whether the file must be there, must not, or either.
\* A file in the way of a directory, or a directory in the way of the file, fails.
Store(disk, path, content, exists) ==
  LET blocked == IsDir(disk, path) \/ \E p \in Files(disk) : IsStrictPrefix(p, path)
      refused == \/ path \in Unsafe
                 \/ Len(content) > MaxWrite
                 \/ exists = TRUE /\ path \notin Files(disk)
                 \/ exists = FALSE /\ path \in Files(disk)
      ok      == ~refused /\ ~blocked
  IN [ok |-> ok, disk |-> IF ok THEN [disk EXCEPT ![path] = content] ELSE disk]

Refused(disk) == [ok |-> FALSE, disk |-> disk]

Create(disk, path, content) == Store(disk, path, content, FALSE)

Write(disk, path, content) == Store(disk, path, content, None)

\* content.replace(old, new, 1)
Substitute(content, old, new) ==
  IF Has(content, old)
    THEN [content EXCEPT ![CHOOSE i \in Occurrences(content, old) :
            \A j \in Occurrences(content, old) : i <= j] = new]
    ELSE content

\* Mutant of Replace: any number of occurrences will do.
ReplaceAmbiguous(disk, path, old, new) ==
  IF path \notin Files(disk) THEN Refused(disk)
  ELSE IF ~IsText(disk[path]) \/ ~Has(disk[path], old) THEN Refused(disk)
  ELSE Store(disk, path, Substitute(disk[path], old, new), TRUE)

Replace(disk, path, old, new) ==
  IF path \notin Files(disk) THEN Refused(disk)
  ELSE IF ~IsText(disk[path]) \/ Cardinality(Occurrences(disk[path], old)) # 1
       THEN Refused(disk)
       ELSE Store(disk, path, Substitute(disk[path], old, new), TRUE)

\* Mutant of Patch: each patch is applied to the file as it was.
PatchAfresh(disk, path, patches) ==
  IF path \notin Files(disk) \/ patches = <<>> THEN Refused(disk)
  ELSE IF ~IsText(disk[path]) \/ \E i \in DOMAIN patches : ~Has(disk[path], patches[i].old)
       THEN Refused(disk)
       ELSE Store(disk, path, FoldLeft(LAMBDA text, p : Substitute(disk[path], p.old, p.new),
                                       disk[path], patches), TRUE)

\* Every old text is looked for in the file as it is, then the patches are applied in
\* turn, each at the first place there is by then, if there is one.
Patch(disk, path, patches) ==
  IF path \notin Files(disk) \/ patches = <<>> THEN Refused(disk)
  ELSE IF ~IsText(disk[path]) \/ \E i \in DOMAIN patches : ~Has(disk[path], patches[i].old)
       THEN Refused(disk)
       ELSE Store(disk, path,
                  FoldLeft(LAMBDA text, p : Substitute(text, p.old, p.new),
                           disk[path], patches), TRUE)

(***************************************************************************)
(* compute_tree_digest: every file under a directory with its content.     *)
(* None when it raises: no such directory, or more entries than the limit. *)
(***************************************************************************)
TreeDigest(disk, dir) ==
  LET files == Under(disk, dir)
  IN IF files = {} \/ Cardinality(files) > MaxTree THEN None
     ELSE [p \in Paths |-> IF p \in files THEN disk[p] ELSE None]

(***************************************************************************)
(* scan_workspace: two levels, each entry counted until a bound is met;    *)
(* then the manifests at the top are read.  An entry that cannot be listed *)
(* counts as a file, a closed directory too; where the root cannot be      *)
(* listed there is nothing to see.                                         *)
(***************************************************************************)
Nothing == [entries |-> 0, dirs |-> {}, files |-> {}, keys |-> {}, cut |-> FALSE]

Visible(disk, shut, dir) ==
  LET names == Listing(disk, shut, dir).data
  IN InOrder(names, Range(names) \ Skipped)

\* Mutant of Account: a directory past the bound is dropped in silence.
AccountSilent(disk, shut, scan, path) ==
  IF scan.entries = MaxEntries THEN [scan EXCEPT !.cut = TRUE]
  ELSE IF ~Listing(disk, shut, path).ok
       THEN [scan EXCEPT !.entries = @ + 1, !.files = @ \cup {path}]
       ELSE IF Cardinality(scan.dirs) = MaxDirs THEN [scan EXCEPT !.entries = @ + 1]
            ELSE [scan EXCEPT !.entries = @ + 1, !.dirs = @ \cup {path}]

Account(disk, shut, scan, path) ==
  IF scan.entries = MaxEntries THEN [scan EXCEPT !.cut = TRUE]
  ELSE IF ~Listing(disk, shut, path).ok
       THEN [scan EXCEPT !.entries = @ + 1, !.files = @ \cup {path}]
       ELSE IF Cardinality(scan.dirs) = MaxDirs
            THEN [scan EXCEPT !.entries = @ + 1, !.cut = TRUE]
            ELSE [scan EXCEPT !.entries = @ + 1, !.dirs = @ \cup {path}]

ScanTop(disk, shut, scan, name) ==
  LET top    == Account(disk, shut, scan, <<name>>)
      inside == Visible(disk, shut, <<name>>)
  IN IF <<name>> \notin top.dirs THEN top
     ELSE FoldLeft(LAMBDA s, child : Account(disk, shut, s, <<name, child>>),
                   [top EXCEPT !.cut = @ \/ Listing(disk, shut, <<name>>).cut], inside)

Scan(disk, shut) ==
  LET walked == FoldLeft(LAMBDA s, name : ScanTop(disk, shut, s, name),
                         [Nothing EXCEPT !.cut = Listing(disk, shut, <<>>).cut],
                         Visible(disk, shut, <<>>))
      keys   == {p \in (walked.files \cap KeyFiles) \ shut : Read(disk, p).ok}
  IN [walked EXCEPT !.keys = keys,
                    !.cut  = @ \/ \E p \in keys : Read(disk, p).cut]
==============================================================================
