-------------------------------- MODULE Ext2 --------------------------------
(***************************************************************************)
(* The ext2 driver (fs/ext2.c): mounting, reading files, looking names up  *)
(* in directories and finding inodes, with a disk that may fail at every   *)
(* block.  Of a block that is read the model keeps which one it is; every  *)
(* buffer taken from the block layer is counted in held.                   *)
(***************************************************************************)
EXTENDS Integers, Sequences, FiniteSets

CONSTANTS BS,             \* s_blocksize
          NDIR,           \* EXT2_NDIR_BLOCKS
          Ipg, Ipb,       \* inodes per group and per block
          Groups, Dpb,    \* groups, and descriptors per block
          Sizes,          \* sizes of the files that are read
          Dirs,           \* directories: sequences of blocks, each a sequence
                          \* of entries (rec_len, name, inode) or NULL for a hole
          Names, NULL

VARIABLES pc, held, st, bug
vars == <<pc, held, st, bug>>

\* Where the inode table of a group begins on the disk.
Table(g) == 10 + g * (Ipg \div Ipb + 1)
db_count == (Groups + Dpb - 1) \div Dpb
Init == pc = "off" /\ held = 0 /\ st = [op |-> "none"] /\ bug = NULL

Running(l) == bug = NULL /\ pc = l
blk_read == held' = held + 1 /\ UNCHANGED bug
blk_free == held' = held - 1 /\ UNCHANGED bug
NoIO == UNCHANGED <<held, bug>>
Return(r) == pc' = "idle" /\ st' = [st EXCEPT !.ret = r]

-----------------------------------------------------------------------------
(* ext2_get_super.  If it fails, so does the boot.                         *)
get_super ==
  /\ Running("off") /\ st' = [op |-> "super", i |-> 0]
  /\ \/ pc' = "failed" /\ NoIO       \* block size refused, block 1 unreadable or no superblock
     \/ pc' = "desc" /\ blk_read
\* If a block of descriptors cannot be read, the missing buffer is freed once
\* for every one that was read.
get_desc ==
  /\ Running("desc") /\ st.i < db_count
  /\ \/ st' = [st EXCEPT !.i = @ + 1] /\ blk_read /\ UNCHANGED pc
     \/ st.i = 0 /\ pc' = "failed" /\ blk_free /\ UNCHANGED st
     \/ st.i > 0 /\ bug' = "blk_free(NULL)" /\ UNCHANGED <<pc, held, st>>
get_root ==
  /\ Running("desc") /\ st.i = db_count /\ UNCHANGED st
  /\ \/ pc' = "idle" /\ NoIO
     \/ pc' = "failed" /\ blk_free

-----------------------------------------------------------------------------
(* ext2_pread, a block at a time; out has the file offsets delivered.      *)
Pread(size, off, len) ==
  LET n == IF off + len > size THEN size - off ELSE len IN
  /\ Running("idle") /\ pc' = "pread"
  /\ st' = [op |-> "pread", size |-> size, from |-> off, want |-> n, off |-> off, len |-> n,
            x |-> off \div BS, last |-> (off + n) \div BS, out |-> <<>>, ret |-> NULL, failed |-> FALSE]
  /\ bug' = IF (off + n) \div BS >= NDIR THEN "last_block" ELSE NULL
  /\ UNCHANGED held

clen_whole == IF st.len > BS THEN BS - (st.off % BS) ELSE st.len
clen == IF (st.off % BS) + st.len > BS THEN BS - (st.off % BS) ELSE st.len
pread ==
  /\ Running("pread")
  /\ \/ (st.x > st.last \/ clen = 0) /\ Return(Len(st.out)) /\ NoIO
     \/ /\ st.x <= st.last /\ clen # 0
        /\ \/ pc' = "copy" /\ blk_read /\ UNCHANGED st
           \/ pc' = "idle" /\ NoIO /\ st' = [st EXCEPT !.ret = Len(st.out), !.failed = TRUE]
\* The bytes of the file in a part of a buffer; behind the block there are none.
Bytes(x, coff, n) == [k \in 1 .. n |-> IF coff + k <= BS THEN x * BS + coff + k - 1 ELSE NULL]
pread_copy ==
  /\ Running("copy") /\ blk_free
  /\ \/ pc' = "idle" /\ st' = [st EXCEPT !.ret = -1, !.failed = TRUE]  \* EFAULT
     \/ /\ st' = [st EXCEPT !.off = @ + clen, !.len = @ - clen, !.x = @ + 1,
                    !.out = @ \o Bytes(st.x, st.off % BS, clen)]
        /\ pc' = "pread"

-----------------------------------------------------------------------------
(* ext2_lookup, a block at a time.                                         *)
Lookup(d, n) ==
  /\ Running("idle") /\ pc' = "lookup" /\ NoIO
  /\ st' = [op |-> "lookup", dir |-> d, name |-> n, x |-> 1, ret |-> NULL, failed |-> FALSE]
lookup ==
  LET more == st.x <= Len(st.dir) /\ st.x <= NDIR IN
  /\ Running("lookup")
  /\ \/ ~more /\ Return(NULL) /\ NoIO
     \/ more /\ st.dir[st.x] = NULL /\ st' = [st EXCEPT !.x = @ + 1] /\ NoIO /\ UNCHANGED pc
     \/ more /\ st.dir[st.x] # NULL /\ pc' = "scan" /\ blk_read /\ UNCHANGED st
     \/ more /\ st.dir[st.x] # NULL /\ pc' = "idle" /\ NoIO /\ st' = [st EXCEPT !.failed = TRUE]

\* The entries of a block with the name, up to the first corrupted entry.
Hits(b, n) == {i \in DOMAIN b : b[i].name = n /\ \A j \in 1 .. i : b[j].rec_len >= 8}
lookup_scan ==
  LET b == st.dir[st.x]  h == Hits(b, st.name) IN
  /\ Running("scan") /\ blk_free
  /\ \/ h = {} /\ pc' = "lookup" /\ st' = [st EXCEPT !.x = @ + 1]
     \/ h # {} /\ Return(b[CHOOSE i \in h : \A j \in h : i <= j].inode)

-----------------------------------------------------------------------------
(* ext2_read_inode.                                                        *)
ReadInode(ino) ==
  /\ Running("idle")
  /\ st' = [op |-> "inode", ino |-> ino, ret |-> -1, at |-> NULL]
  /\ \/ NoIO /\ UNCHANGED pc         \* no such inode or group, or unreadable
     \/ ino \in 1 .. Ipg * Groups /\ blk_read /\ pc' = "inode"
\* Which block of the table is read, and which inode in it is taken.
block(ino) == Table((ino - 1) \div Ipg) + (ino - 1) \div Ipb
slot(ino) == (ino - 1) % Ipb
read_inode ==
  /\ Running("inode") /\ blk_free /\ pc' = "idle"
  /\ \E supported \in BOOLEAN :      \* a directory or a regular file
       st' = [st EXCEPT !.ret = IF supported THEN 0 ELSE -1, !.at = <<block(st.ino), slot(st.ino)>>]

Next ==
  \/ get_super \/ get_desc \/ get_root
  \/ \E s \in Sizes : \E off \in 0 .. s, len \in 0 .. s + 1 : Pread(s, off, len)
  \/ pread \/ pread_copy
  \/ \E d \in Dirs, n \in Names : Lookup(d, n)
  \/ lookup \/ lookup_scan
  \/ \E ino \in 0 .. Ipg * Groups + 1 : ReadInode(ino)
  \/ read_inode
Spec == Init /\ [][Next]_vars

-----------------------------------------------------------------------------
\* What pread has copied is a run of bytes of the file from the offset asked
\* for, none left out or doubled at a block boundary; and unless a block could
\* not be read or copied it is all that was asked for, up to the file's end.
PreadInOrder ==
  st.op = "pread" =>
    /\ st.out = [k \in 1 .. Len(st.out) |-> st.from + k - 1]
    /\ st.ret # NULL /\ ~st.failed => st.ret = st.want /\ Len(st.out) = st.want

\* After a call, whichever way it ended, the driver holds the superblock and
\* the group descriptors and no other buffer.
BuffersReturned == pc = "idle" /\ bug = NULL => held = 1 + db_count

\* A look-up finds the inode of the name if one of the directory's blocks has
\* an entry for it, and only then.
LookupFinds ==
  pc = "idle" /\ st.op = "lookup" /\ ~st.failed =>
    LET at == {e \in (1 .. Len(st.dir)) \X (1 .. 4) :
                 st.dir[e[1]] # NULL /\ e[2] \in Hits(st.dir[e[1]], st.name)
                 /\ st.dir[e[1]][e[2]].inode # 0}
    IN  IF at = {} THEN st.ret \in {NULL, 0}
        ELSE st.ret \in {st.dir[e[1]][e[2]].inode : e \in at}

\* The inode that is filled in is the one asked for: the inodes of a group are
\* numbered from the start of the group's own table.
RightInode ==
  st.op = "inode" /\ st.at # NULL =>
    LET g == (st.ino - 1) \div Ipg  k == (st.ino - 1) % Ipg
    IN  st.at = <<Table(g) + k \div Ipb, k % Ipb>>

\* The assertion of ext2_pread holds for every file that has its blocks in
\* the inode itself.
LastBlockDirect == bug # "last_block"
=============================================================================
