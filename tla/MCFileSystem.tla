---------------------------- MODULE MCFileSystem ----------------------------
(***************************************************************************)
(* The file system on small instances: path lookup with the inode cache,   *)
(* open files, and ext2.  They are put side by side, not connected: a      *)
(* behaviour runs one of them, which, and the others stay as they start.   *)
(***************************************************************************)
EXTENDS Integers, Sequences, FiniteSets, TLC

CONSTANTS t1, t2, sq, n1, n2, n3, NULL

VARIABLES which,
          mounted, pc, path, i, itmp, ino, held, calls, names, leaked, tree, i_count,
          slack_inodes, slacksem, s_sem, seen, bug,
          fds, file, kernel, lost, got, last,
          ext2_pc, ext2_held, st, ext2_bug
vfsVars == <<mounted, pc, path, i, itmp, ino, held, calls, names, leaked, tree, i_count,
             slack_inodes, slacksem, s_sem, seen, bug>>
filesVars == <<fds, file, kernel, lost, got, last>>
ext2Vars == <<ext2_pc, ext2_held, st, ext2_bug>>
vars == <<which, vfsVars, filesVars, ext2Vars>>

-----------------------------------------------------------------------------
\* One task, and another that squeezes the cache at any time.  The root has a
\* directory d, in it a directory e and a file f; a path of each shape: absolute
\* with doubled and trailing slashes, relative, empty, missing, through a file.
Entries == (<<2, "d">> :> 11) @@ (<<11, "e">> :> 12) @@ (<<11, "f">> :> 13)
AllPaths == { <<>>, <<"/">>, <<"/", "/", "d", "/">>, <<"d", "/", "/", "e">>,
              <<"/", "d", "/", "f", "/", "e">>, <<"x">> }
V == INSTANCE Vfs WITH Tasks <- {t1}, Squeezers <- {sq}, Inos <- {2, 11, 12, 13}, Root <- 2,
       Child <- Entries, Paths <- AllPaths, MaxCalls <- 3
\* Two tasks that look up the same file at the same time.
V2 == INSTANCE Vfs WITH Tasks <- {t1, t2}, Squeezers <- {}, Inos <- {2, 11, 12, 13}, Root <- 2,
       Child <- Entries, Paths <- {<<"/", "d", "/", "f">>}, MaxCalls <- 2

\* Three files, empty or of three bytes.
F == INSTANCE Files WITH MaxFiles <- 3, Sizes <- {0, 3}, Requests <- {0, 1, 2, 5}

\* Directories of one or three blocks, some of them holes, one of them damaged;
\* files of up to three blocks of three bytes.
Entry(n, x) == [rec_len |-> 12, name |-> n, inode |-> x]
Bad == [rec_len |-> 0, name |-> n2, inode |-> 0]
Block == {NULL, <<Entry(n1, 3), Entry(n2, 4)>>, <<Entry(n2, 5)>>, <<Entry(n3, 6), Bad, Entry(n1, 7)>>}
Directories == {<<x, y, z>> : x \in Block, y \in Block, z \in Block} \cup {<<x>> : x \in Block}
E == INSTANCE Ext2 WITH BS <- 3, NDIR <- 3, Ipg <- 4, Ipb <- 2, Groups <- 2, Dpb <- 1, Names <- {n1, n2, n3},
       Sizes <- {0, 1, 3, 5, 6, 8}, Dirs <- Directories, pc <- ext2_pc, held <- ext2_held, bug <- ext2_bug
Init ==
  /\ which \in {"vfs", "vfs2", "files", "ext2"}
  /\ IF which = "vfs2" THEN V2!Init ELSE V!Init
  /\ F!Init /\ E!Init

Only(x) ==
  /\ which = x /\ UNCHANGED which
  /\ IF x \in {"vfs", "vfs2"} THEN TRUE ELSE UNCHANGED vfsVars
  /\ IF x = "files" THEN TRUE ELSE UNCHANGED filesVars
  /\ IF x = "ext2" THEN TRUE ELSE UNCHANGED ext2Vars
\* The lookups come to an end (MaxCalls), and a kernel that has met a BUG stops.
Ended == which # "files" /\ UNCHANGED vars
Next ==
  \/ Only("vfs") /\ V!Next
  \/ Only("vfs2") /\ V2!Next
  \/ Only("files") /\ F!Next
  \/ Only("ext2") /\ E!Next
  \/ Ended
Spec == Init /\ [][Next]_vars

-----------------------------------------------------------------------------
(* Vfs (inode.c, dentry.c, vfs.h)                                          *)

\* The count of a cached inode is the number of references to it, those that failed
\* lookups left behind included.
CountIsRefs == which = "vfs" => V!CountIsRefs
\* Squeezing the cache frees no inode that somebody refers to.
UsedIsCached == which = "vfs" => V!UsedIsCached
\* iget never makes two inodes of one number, though it sleeps between the search
\* that misses and the insertion.
OneInodePerNumber == which = "vfs2" => V2!OneInodePerNumber

(* Files (fdt.c, open.c, read.c, close.c) and Ext2 (ext2.c)                *)

\* A file object lives as long as a descriptor or a kernel user refers to it and no
\* longer; one for which no descriptor was left is lost.
CountIsHolders == which = "files" => F!CountIsHolders
\* pread copies a run of bytes of the file, from the offset asked for, none left out
\* or doubled at a block boundary.
PreadInOrder == which = "ext2" => E!PreadInOrder
=============================================================================
