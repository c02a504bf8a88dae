------------------------------- MODULE Tree -------------------------------
(***************************************************************************)
(* Patches for directory trees (libdiffball/tree.c, with the listings of   *)
(* libcfile/multifile.c): delta_tree lists two trees and writes a patch,   *)
(* delta_patcher applies it to a directory.                                *)
(*                                                                         *)
(* A patch holds the manifests of the regular files of both trees, a delta *)
(* of their contents, a table of owners and modes, and a chain of commands *)
(* in the order of the names: one for each entry of the new tree, and an   *)
(* unlink for each that only the old one has.  Names are written relative  *)
(* to the one before, times as differences.                                *)
(*                                                                         *)
(* The delta of the contents is what the other modules are about; here it  *)
(* is the contents it builds.  A name is [path, slash]: those of           *)
(* directories end in a slash.                                             *)
(***************************************************************************)
EXTENDS Posix, FiniteSets

CONSTANTS
  Trees,     \* the trees there are, functions from paths to what stands there
  NameKey,   \* the characters of each name as numbers ordered as by strcmp; '/' is 0
  OneFs      \* whether the temporary directory is on the target's file system: the cases

VARIABLES
  src, ver,      \* the trees delta_tree is given
  inPlace,       \* delta_patcher works on the source tree (or in an empty directory)
  oneFs,
  pc,
  src_files, ref_files,   \* multifile_data.fs of the two trees
  src_pos, ref_pos,
  pe,            \* relative_encoder of the program that runs: last directory, last time
  patch,         \* what delta_tree writes,
  kept,          \* and how many of its commands come to the disk
  unflushed,     \* how many of the rebuilt files, at their end, do not
  target,        \* the directory delta_patcher writes to
  final_paths,   \* the regular files of the target manifest
  file_pos,      \* how many of them have been moved in place
  done,          \* commands executed
  err,
  exit           \* what treeReconstruct returns

inputs == <<src, ver, inPlace, oneFs>>
writer == <<src_files, ref_files, src_pos, ref_pos, patch, kept>>
reader == <<unflushed, target, final_paths, file_pos, done, err, exit>>
vars == <<inputs, pc, writer, pe, reader>>

Paths == DOMAIN src
Nothing == [p \in Paths |-> Absent]
NewEncoder == [dir |-> <<>>, time |-> 0]
NoHeader == -1   \* of kept: not even all that precedes the commands
NoPatch == [src |-> <<>>, ref |-> <<>>, delta |-> <<>>, ugm |-> <<>>, count |-> 0, cmds |-> <<>>]

---------------------------------------------------------------------------
(* Listings. *)

\* strcmp of names.
Chars(f) ==
  LET all == FlattenSeq([i \in DOMAIN f.path |-> Append(NameKey[f.path[i]], 0)])
  IN  IF f.slash THEN all ELSE Front(all)

Before(f, g) ==
  LET s == Chars(f)  t == Chars(g)
  IN  \/ IsStrictPrefix(s, t)
      \/ \E i \in DOMAIN s \cap DOMAIN t :
            /\ s[i] < t[i]
            /\ \A j \in 1..(i - 1) : s[j] = t[j]

\* The trees have the same paths, absent or not; what stands somewhere stands
\* in a directory.
ASSUME TreeAssumption ==
  \A t \in Trees :
    /\ IsFiniteSet(DOMAIN t) /\ \A u \in Trees : DOMAIN u = DOMAIN t
    /\ \A p \in DOMAIN t :
         /\ p \in Seq(DOMAIN NameKey) /\ Len(p) \in 1..2
         /\ Front(p) # <<>> => Front(p) \in DOMAIN t
         /\ Present(t, p) =>
              /\ t[p].type \in {"reg", "dir", "sym", "fifo", "sock", "dev"}
              /\ t[p].ctime \in Int /\ t[p].mtime \in Int
              /\ t[p].type = "sym" => t[p].data \in Seq(DOMAIN NameKey)
              /\ Front(p) # <<>> => Is(t, Front(p), "dir")

\* Names are distinct strings that are not empty, and strcmp is an order.
ASSUME OrderAssumption ==
  LET names == {[path |-> p, slash |-> s] : p \in UNION {DOMAIN t : t \in Trees}, s \in BOOLEAN}
  IN  /\ \A c \in DOMAIN NameKey : NameKey[c] \in Seq(Int) \ {<<>>}
      /\ \A f, g \in names : (Before(f, g) \/ Before(g, f) <=> f # g) /\ ~ (Before(f, g) /\ Before(g, f))
      /\ \A f, g, h \in names : Before(f, g) /\ Before(g, h) => Before(f, h)

\* The names of one inode are one file; only files, symlinks and devices hold
\* something.
ASSUME InodeAssumption ==
  \A t \in Trees : \A p \in DOMAIN t : Present(t, p) =>
    /\ t[p].type \in {"dir", "fifo", "sock"} => t[p].data = <<>>
    /\ \A q \in DOMAIN t : Present(t, q) /\ t[q].ino = t[p].ino => t[q] = t[p]

Name(tree, p) == [path |-> p, slash |-> Is(tree, p, "dir")]
Names(tree) == {Name(tree, p) : p \in {q \in DOMAIN tree : Present(tree, q)}}

\* All but the first name of an inode are links to the name before; the
\* target of a symlink is overwritten with it.
LinkTarget(tree, f) ==
  LET node  == tree[f.path]
      first == {g \in Names(tree) : tree[g.path].ino = node.ino /\ Before(g, f)}
  IN  IF first # {}
      THEN (CHOOSE g \in first : \A h \in first : h = g \/ Before(h, g)).path
      ELSE IF node.type = "sym" THEN node.data ELSE <<>>

Listing(tree) ==
  LET names == Names(tree)
      nth(i) == CHOOSE f \in names : Cardinality({g \in names : Before(g, f)}) = i - 1
  IN  [i \in 1..Cardinality(names) |->
         [name |-> nth(i), st |-> tree[nth(i).path], link_target |-> LinkTarget(tree, nth(i))]]

IsFile(e) == e.st.type = "reg" /\ e.link_target = <<>>
IsLink(e) == e.st.type = "reg" /\ e.link_target # <<>>

\* The names in the command of an entry; files have theirs in the manifest.
EntryNames(e) ==
  IF IsFile(e) THEN <<>>
  ELSE IF IsLink(e) THEN <<e.name, [path |-> e.link_target, slash |-> FALSE]>>
  ELSE <<e.name>>

---------------------------------------------------------------------------
(* The relative encoder. *)

\* What last_directory is after a name.
DirsOf(f) == IF f.slash THEN f.path ELSE Front(f.path)

EncodePath(dir, f) ==
  LET same == Len(LongestCommonPrefix({dir, DirsOf(f)}))
  IN  [up |-> Len(dir) - same, rest |-> SubSeq(f.path, same + 1, Len(f.path)), slash |-> f.slash]

\* As below, but never going up.
DecodePathDown(dir, e) == [path |-> dir \o e.rest, slash |-> e.slash]

DecodePath(dir, e) ==
  [path |-> SubSeq(dir, 1, Len(dir) - e.up) \o e.rest, slash |-> e.slash]

\* As below, but without the sign.
DecodeTimeUnsigned(last, v) == last + v \div 2

EncodeTime(last, t) == IF t < last THEN 2 * (last - t) + 1 ELSE 2 * (t - last)
DecodeTime(last, v) == IF v % 2 = 1 THEN last - v \div 2 ELSE last + v \div 2

\* Names written, and read, one after the other.
EncodePaths(dir, names) ==
  [i \in DOMAIN names |-> EncodePath(IF i = 1 THEN dir ELSE DirsOf(names[i - 1]), names[i])]

DecodePaths(dir, encoded) ==
  LET name[i \in 1..Len(encoded)] == DecodePath(IF i = 1 THEN dir ELSE DirsOf(name[i - 1]), encoded[i])
  IN  name

LastDir(dir, names) == IF names = <<>> THEN dir ELSE DirsOf(Last(names))

---------------------------------------------------------------------------
(* Writing. *)

\* The owners and modes of the new tree, least used first.
Ugms(files) ==
  LET uses(u) == Cardinality({i \in DOMAIN files : files[i].st.ugm = u})
  IN  CHOOSE s \in SetToSeqs({files[i].st.ugm : i \in DOMAIN files}) :
        \A i, j \in DOMAIN s : i < j => uses(s[i]) <= uses(s[j])

IndexOf(files, u) == CHOOSE i \in DOMAIN Ugms(files) : Ugms(files)[i] = u

\* The table in the patch: for each entry the uid goes where the gid should.
WrittenUgms(files) ==
  [i \in DOMAIN Ugms(files) |-> <<Ugms(files)[i][1], Ugms(files)[i][1], Ugms(files)[i][3]>>]

\* As below, but taking what has the same name for gone.
StopAfter(files, pos, f) ==
  LET later == {i \in pos..Len(files) : Before(f, files[i].name)}
  IN  IF later = {} THEN Len(files) + 1 ELSE CHOOSE i \in later : \A j \in later : i <= j

\* The first entry of src_files from pos on that does not come before f.
Stop(files, pos, f) ==
  LET later == {i \in pos..Len(files) : ~ Before(files[i].name, f)}
  IN  IF later = {} THEN Len(files) + 1 ELSE CHOOSE i \in later : \A j \in later : i <= j

\* Where a walk for f ends: an entry of the same name is passed.
Passed(files, pos, f) ==
  LET i == Stop(files, pos, f)
  IN  IF i <= Len(files) /\ files[i].name = f THEN i + 1 ELSE i

\* The walk for the unlinks with nothing written: where it is after each
\* entry, and how many it came past.
DryWalk(srcs, refs) ==
  LET at[i \in 0..Len(refs)] ==
        IF i = 0 THEN [pos |-> 1, n |-> 0]
        ELSE [pos |-> Passed(srcs, at[i - 1].pos, refs[i].name),
              n   |-> at[i - 1].n + Stop(srcs, at[i - 1].pos, refs[i].name) - at[i - 1].pos]
  IN  at

\* As below, but without the walk for the rest.
DryRunNoTail(srcs, refs) == DryWalk(srcs, refs)[Len(refs)].n

\* The unlinks there will be.
DryRun(srcs, refs) ==
  LET all == DryWalk(srcs, refs)[Len(refs)]
  IN  all.n + Len(srcs) + 1 - all.pos

Command(cmd, paths) ==
  [cmd |-> cmd, paths |-> paths, ugm |-> 0, times |-> <<>>, data |-> <<>>]

UnlinkCommands(dir, names) ==
  [i \in DOMAIN names |-> Command("UNLINK", <<EncodePaths(dir, names)[i]>>)]

Times(last, st) ==
  <<EncodeTime(last, st.ctime)>>
    \o (IF st.ctime = st.mtime THEN <<>> ELSE <<EncodeTime(st.ctime, st.mtime)>>)

\* encode_fs_entry.  A device is given the number of the file system it is on.
EntryCommand(coder, e) ==
  LET type == IF IsLink(e) THEN "HARDLINK" ELSE e.st.type
      base == Command(type, EncodePaths(coder.dir, EntryNames(e)))
  IN  [cmd |-> IF IsLink(e) THEN base
               ELSE [base EXCEPT !.ugm = IndexOf(ref_files, e.st.ugm),
                                 !.times = Times(coder.time, e.st),
                                 !.data = CASE e.st.type = "sym" -> e.link_target
                                            [] e.st.type = "dev" -> <<"st_dev">>
                                            [] OTHER -> <<>>],
       pe |-> [dir |-> LastDir(coder.dir, EntryNames(e)),
               time |-> IF IsLink(e) THEN coder.time ELSE e.st.mtime]]

NamesOf(files) == [i \in DOMAIN files |-> files[i].name]

\* The regular files, as a manifest lists them.
RegularFiles(files) ==
  LET upto[i \in 0..Len(files)] ==
        IF i = 0 THEN <<>>
        ELSE IF IsFile(files[i]) THEN Append(upto[i - 1], files[i]) ELSE upto[i - 1]
  IN  upto[Len(files)]

FileNames(files) == NamesOf(RegularFiles(files))

Init ==
  /\ src \in Trees /\ ver \in Trees
  /\ inPlace \in BOOLEAN /\ oneFs \in OneFs
  /\ pc = "list"
  /\ src_files = <<>> /\ ref_files = <<>> /\ src_pos = 1 /\ ref_pos = 1
  /\ pe = NewEncoder /\ patch = NoPatch /\ kept = NoHeader /\ unflushed = 0
  /\ target = (IF inPlace THEN src ELSE Nothing)
  /\ final_paths = <<>> /\ file_pos = 0 /\ done = 0 /\ err = "ok" /\ exit = "none"

\* copen_multifile_directory, for both trees.
List ==
  /\ pc = "list"
  /\ src_files' = Listing(src) /\ ref_files' = Listing(ver)
  /\ pc' = "header"
  /\ UNCHANGED <<inputs, src_pos, ref_pos, patch, kept, pe, reader>>

\* All that precedes the commands.
WriteHeader ==
  LET old == FileNames(src_files)
      new == FileNames(ref_files)
      mid == LastDir(pe.dir, old)
  IN  /\ pc = "header"
      /\ patch' = [src   |-> EncodePaths(pe.dir, old),
                   ref   |-> EncodePaths(mid, new),
                   delta |-> [i \in DOMAIN new |-> ver[new[i].path].data],
                   ugm   |-> WrittenUgms(ref_files),
                   count |-> Len(ref_files) + DryRun(src_files, ref_files),
                   cmds  |-> <<>>]
      /\ pe' = [pe EXCEPT !.dir = LastDir(mid, new)]
      /\ pc' = "encode"
      /\ UNCHANGED <<inputs, src_files, ref_files, src_pos, ref_pos, kept, reader>>

\* The unlinks of what comes before the next entry, and its command.
EncodeNext ==
  /\ pc = "encode" /\ ref_pos <= Len(ref_files)
  /\ LET e     == ref_files[ref_pos]
         gone  == NamesOf(SubSeq(src_files, src_pos, Stop(src_files, src_pos, e.name) - 1))
         entry == EntryCommand([pe EXCEPT !.dir = LastDir(pe.dir, gone)], e)
     IN  /\ patch' = [patch EXCEPT !.cmds = Append(@ \o UnlinkCommands(pe.dir, gone), entry.cmd)]
         /\ pe' = entry.pe
         /\ src_pos' = Passed(src_files, src_pos, e.name)
  /\ ref_pos' = ref_pos + 1
  /\ UNCHANGED <<inputs, pc, src_files, ref_files, kept, reader>>

\* The unlinks of the rest.
LastUnlinks ==
  /\ pc = "encode" /\ ref_pos > Len(ref_files)
  /\ patch' = [patch EXCEPT !.cmds = @ \o UnlinkCommands(pe.dir,
                                            NamesOf(SubSeq(src_files, src_pos, Len(src_files))))]
  /\ src_pos' = Len(src_files) + 1
  /\ pe' = NewEncoder
  /\ pc' = "read"
  /\ UNCHANGED <<inputs, src_files, ref_files, ref_pos, reader>>

EncodeTail ==
  /\ LastUnlinks
  /\ kept' = Len(patch'.cmds)

\* A page of the patch cannot be written.  Whether delta_tree, whose cwrite
\* tries forever, is stopped then, or the page is the last and its error that
\* of cclose: on disk is what comes before.
WriteFails ==
  /\ LastUnlinks
  /\ kept' \in NoHeader..(Len(patch'.cmds) - 1)

---------------------------------------------------------------------------
(* Applying. *)

Leave(e) == err' = e /\ pc' = "cleanup"

\* The manifests; the source has to be as it was, the target's files are
\* built in the temporary directory.  Whether the last page of them can be
\* flushed makes no difference: the result of cflush is overwritten.
ReadHeader ==
  /\ pc = "read" /\ kept # NoHeader
  /\ LET old == DecodePaths(pe.dir, patch.src)
         new == DecodePaths(LastDir(pe.dir, old), patch.ref)
     IN  /\ pe' = [pe EXCEPT !.dir = LastDir(LastDir(pe.dir, old), new)]
         /\ final_paths' = [i \in DOMAIN new |-> new[i].path]
  /\ unflushed' \in 0..Len(patch.delta)
  /\ pc' = "apply"
  /\ UNCHANGED <<inputs, writer, target, file_pos, done, err, exit>>

\* The program is gone, by the use of memory that is freed or was never there.
Crashes ==
  /\ pc' = "crashed"
  /\ UNCHANGED <<inputs, writer, pe, reader>>

\* It returns before it has a temporary directory: err is what comes out.
Returns(e) ==
  /\ err' = e /\ exit' = e /\ pc' = "done"
  /\ UNCHANGED <<inputs, writer, pe, unflushed, target, final_paths, file_pos, done>>

\* A manifest is cut off.  That of the target is freed, and then freed again.
HeaderCut ==
  /\ pc = "read" /\ kept = NoHeader
  /\ Returns("PATCH_TRUNCATED") \/ Crashes

\* A file of the source manifest is missing or of another size.
SourceDiffers ==
  /\ pc = "read" /\ FileNames(src_files) # <<>>
  /\ Returns("IO_ERROR")

\* make_tempdir: without memory for the name err is what it was; if mkdtemp
\* fails, the name is freed and then used.  What is not there any more may
\* crash, or be a directory that is not there (RebuildFails).
NoTempDir ==
  /\ pc = "read"
  /\ Returns(err) \/ Crashes

\* The files cannot be created or rebuilt, or the patch ends before its
\* commands.  No memory for their names is no error.
RebuildFails ==
  /\ pc = "read"
  /\ \E e \in {"IO_ERROR", "PATCH_TRUNCATED", "ok"} :
       /\ e = "PATCH_TRUNCATED" => kept = NoHeader
       /\ Leave(e)
  /\ UNCHANGED <<inputs, writer, pe, unflushed, target, final_paths, file_pos, done, exit>>

\* As below, but a directory goes without what is in it.
EnforceUnlinkShallow(fs, f) ==
  LET r == Unlink(fs, f.path, f.slash)
  IN  IF r.err = "ENOENT" THEN Result(fs, "ok")
      ELSE IF r.err = "EISDIR" THEN Place(fs, f.path, Absent)
      ELSE r

\* As below, but with nothing to remove for an error.
EnforceUnlinkStrict(fs, f) ==
  LET r == Unlink(fs, f.path, f.slash)
  IN  IF r.err = "EISDIR"
      THEN Result([p \in DOMAIN fs |-> IF Below(At(fs, f.path), p) THEN Absent ELSE fs[p]], "ok")
      ELSE r

EnforceUnlink(fs, f) ==
  LET r == Unlink(fs, f.path, f.slash)
  IN  IF r.err = "ENOENT" THEN Result(fs, "ok")
      ELSE IF r.err = "EISDIR"
      THEN Result([p \in DOMAIN fs |-> IF Below(At(fs, f.path), p) THEN Absent ELSE fs[p]], "ok")
      ELSE r

Plain(p) == [path |-> p, slash |-> FALSE]

\* What stands in the way is removed, and the call made again.
EnforceNode(fs, p, node) ==
  LET r == Make(fs, p, node)
      e == EnforceUnlink(fs, Plain(p))
  IN  IF r.err # "EEXIST" THEN r
      ELSE IF e.err # "ok" THEN e
      ELSE Make(e.fs, p, node)

EnforceDirectory(fs, p, node) ==
  LET r == Make(fs, p, node)
      e == Unlink(fs, p, FALSE)
  IN  IF r.err = "EEXIST" /\ Is(fs, At(fs, p), "dir") THEN Place(fs, p, node)
      ELSE IF r.err \notin {"EEXIST", "ENOTDIR"} THEN r
      ELSE IF e.err # "ok" THEN e
      ELSE Make(e.fs, p, node)

\* The second link has its arguments the other way round.
EnforceHardlink(fs, p, old) ==
  LET r == Link(fs, old, p)
      e == EnforceUnlink(fs, Plain(p))
  IN  IF r.err # "EEXIST" THEN r
      ELSE IF e.err # "ok" THEN e
      ELSE Link(e.fs, p, old)

EnforceMove(fs, p, node) == IF oneFs THEN Rename(fs, node, p) ELSE Result(fs, "EXDEV")

Node(type, ino, data, ugm, ctime, mtime) ==
  [type |-> type, ino |-> ino, data |-> data, ugm |-> ugm, ctime |-> ctime, mtime |-> mtime]

\* The command read next, with its names, its owner and its times.
Cmd == patch.cmds[done + 1]
Read == DecodePaths(pe.dir, Cmd.paths)
Ctime == DecodeTime(pe.time, Cmd.times[1])
Mtime == IF Len(Cmd.times) = 1 THEN Ctime ELSE DecodeTime(Ctime, Cmd.times[2])
New(type, p, data) == Node(type, <<1>> \o p, data, patch.ugm[Cmd.ugm], Ctime, Mtime)

\* One command of the chain: r is what it comes to.
Execute(cmds, r, timed) ==
  /\ pc = "apply" /\ done < patch.count /\ done < kept
  /\ Cmd.cmd \in cmds
  /\ target' = r.fs
  /\ IF r.err = "ok" THEN UNCHANGED <<pc, err>> ELSE Leave(r.err)
  /\ pe' = [dir |-> LastDir(pe.dir, Read), time |-> IF timed THEN Mtime ELSE pe.time]
  /\ done' = done + 1
  /\ UNCHANGED <<inputs, writer, unflushed, final_paths, exit>>

\* What is in a rebuilt file: those at the end of the last page go without.
Unflushed == <<"unflushed">>
Content(i) == IF i + unflushed <= Len(patch.delta) THEN patch.delta[i] ELSE Unflushed

ApplyReg ==
  LET p == final_paths[file_pos + 1]
  IN  /\ Execute({"reg"}, EnforceMove(target, p, New("reg", p, Content(file_pos + 1))), TRUE)
      /\ file_pos' = file_pos + 1

ApplyHardlink ==
  /\ Execute({"HARDLINK"}, EnforceHardlink(target, Read[1].path, Read[2].path), FALSE)
  /\ UNCHANGED file_pos

ApplyDir ==
  /\ Execute({"dir"}, EnforceDirectory(target, Read[1].path, New("dir", Read[1].path, <<>>)), TRUE)
  /\ UNCHANGED file_pos

\* Symlinks, pipes, sockets and devices.
ApplyNode ==
  /\ Execute({"sym", "fifo", "sock", "dev"},
             EnforceNode(target, Read[1].path, New(Cmd.cmd, Read[1].path, Cmd.data)), TRUE)
  /\ UNCHANGED file_pos

ApplyUnlink ==
  /\ Execute({"UNLINK"}, EnforceUnlink(target, Read[1]), FALSE)
  /\ UNCHANGED file_pos

\* The chain is over, or the patch before it is.
EndChain ==
  /\ pc = "apply"
  /\ \/ done = patch.count /\ Leave("ok")
     \/ done < patch.count /\ done = kept /\ Leave("PATCH_TRUNCATED")
  /\ UNCHANGED <<inputs, writer, pe, unflushed, target, final_paths, file_pos, done, exit>>

\* A name that is cut off is no error where it is read, but NULL: these
\* commands use it at once, before they read on.
NameCut ==
  /\ pc = "apply" /\ done < patch.count /\ done = kept
  /\ Cmd.cmd \in {"dir", "HARDLINK", "UNLINK"}
  /\ Crashes

\* The removal of the temporary directory has the last word on err.
Cleanup ==
  /\ pc = "cleanup"
  /\ exit' = "ok"
  /\ pc' = "done"
  /\ UNCHANGED <<inputs, writer, pe, unflushed, target, final_paths, file_pos, done, err>>

Next ==
  \/ List
  \/ WriteHeader
  \/ EncodeNext
  \/ EncodeTail
  \/ WriteFails
  \/ ReadHeader
  \/ HeaderCut
  \/ SourceDiffers
  \/ NoTempDir
  \/ RebuildFails
  \/ ApplyReg
  \/ ApplyHardlink
  \/ ApplyDir
  \/ ApplyNode
  \/ ApplyUnlink
  \/ EndChain
  \/ NameCut
  \/ Cleanup

Spec == Init /\ [][Next]_vars

---------------------------------------------------------------------------
(* Properties. *)

\* The variables have their types: positions stay within their lists, and
\* what stands in the target stands in directories.
TypeOK ==
  /\ pc \in {"list", "header", "encode", "read", "apply", "cleanup", "done", "crashed"}
  /\ src_pos \in 1..(Len(src_files) + 1) /\ ref_pos \in 1..(Len(ref_files) + 1)
  /\ Len(patch.cmds) <= patch.count /\ done <= patch.count
  /\ kept \in NoHeader..Len(patch.cmds) /\ unflushed \in 0..Len(patch.delta)
  /\ file_pos \in 0..Len(final_paths)
  /\ \A p \in Paths :
       Present(target, p) /\ Front(p) # <<>> => Is(target, Front(p), "dir")

\* The number of commands is written before they are, from a walk in which
\* nothing is written (generate_unlinks with dry_run): the two agree.
CountKept ==
  pc = "read" => Len(patch.cmds) = patch.count

\* The reader is in step with the writer: the command it is at is that of an
\* entry of the new tree, with its names, times and, of the files, the next of
\* the manifest; or it unlinks what only the old tree has.  Each name and time
\* is read relative to those of the command before, and what is gone is
\* found by comparing two sorted lists (cread_path, decode_time,
\* generate_unlinks).
InStep ==
  pc = "apply" /\ done < patch.count /\ done < kept =>
    \/ \E i \in DOMAIN ref_files :
         LET e == ref_files[i]
         IN  /\ done + 1 = i + DryWalk(src_files, ref_files)[i].n
             /\ Read = EntryNames(e)
             /\ Cmd.cmd = (IF IsLink(e) THEN "HARDLINK" ELSE e.st.type)
             /\ ~ IsLink(e) => Ctime = e.st.ctime /\ Mtime = e.st.mtime
             /\ IsFile(e) => /\ final_paths[file_pos + 1] = e.name.path
                             /\ patch.delta[file_pos + 1] = e.st.data
    \/ /\ Cmd.cmd = "UNLINK"
       /\ \E f \in Names(src) \ Names(ver) : Read = <<f>>

\* The same but for what no patch carries: groups (the table holds the uid
\* twice), the numbers of devices (those of the file system are written),
\* and the times of directories, which later commands disturb.
Alike(n, m) ==
  /\ n.type = m.type
  /\ n.type # "none" =>
       /\ n.ugm[1] = m.ugm[1] /\ n.ugm[3] = m.ugm[3]
       /\ n.type # "dev" => n.data = m.data
       /\ n.type # "dir" => n.mtime = m.mtime

\* Names of one symlink are written as symlinks to the first of them.
LinkedSymlinks ==
  \E p, q \in Paths : p # q /\ Is(ver, p, "sym") /\ Is(ver, q, "sym") /\ ver[p].ino = ver[q].ino

\* A chain that ran to its end has made the directory the new tree: what
\* stands where, with its content, owner, mode and time, which files are one
\* file, and nothing else (treeEncodeDCBuffer, consume_command_chain); if
\* only the last page of the contents could be written (ContentOnDisk).
Rebuilt ==
  pc = "cleanup" /\ err = "ok" /\ done = patch.count /\ unflushed = 0 /\ ~ LinkedSymlinks =>
    /\ \A p \in Paths : Alike(target[p], ver[p])
    /\ \A p, q \in Paths : Is(ver, p, "reg") /\ Is(ver, q, "reg") =>
         (target[p].ino = target[q].ino <=> ver[p].ino = ver[q].ino)

\* What makes a chain fail: a directory that becomes something else (rename
\* cannot replace it, and its unlink comes when it is none any more), a hard
\* link where something stands (the second link is the wrong way round), and
\* any file if the temporary directory, in TMPDIR or in /tmp, is not on the
\* file system of the target (rename does not reach over).
CannotApply ==
  \/ \E p \in Paths : Is(src, p, "dir") /\ ver[p].type \notin {"dir", "none"}
  \/ inPlace /\ \E i \in DOMAIN ref_files :
       ref_files[i].st.type = "reg" /\ ~ IsFile(ref_files[i]) /\ Present(src, ref_files[i].name.path)
  \/ ~ oneFs /\ \E i \in DOMAIN ref_files : IsFile(ref_files[i])

\* Apart from those, no command that is read fails for what stands in its way
\* or is missing: what a command needs, the ones before it have left, whatever
\* changed its type between the trees.  (A command that is cut off is an
\* error, or crashes in NameCut; a system call that fails for other reasons -
\* no space, no right, no memory - is not modelled.)
Applies ==
  pc = "cleanup" /\ ~ CannotApply => err \in {"ok", "PATCH_TRUNCATED", "IO_ERROR"}

\* Wherever a run in place stops, a file of both trees is there, with its old
\* content or its new one (enforce_file_move renames over it) - or, if the
\* last page of the new contents could not be written, with neither.
NeverLost ==
  \A p \in Paths :
    inPlace /\ Is(src, p, "reg") /\ (\E i \in DOMAIN ref_files : ref_files[i].name.path = p /\ IsFile(ref_files[i]))
      => /\ Is(target, p, "reg")
         /\ \/ target[p].data \in {src[p].data, ver[p].data}
            \/ unflushed > 0 /\ target[p].data = Unflushed

\* "Flush the output handle; ensure all content is on disk." (tree.c,
\* treeReconstruct): so it is when all its commands were executed.
ContentOnDisk ==
  pc = "done" /\ exit = "ok" /\ err = "ok" /\ done = patch.count /\ done > 0 =>
    \A p \in Paths : Is(ver, p, "reg") => target[p].data = ver[p].data

\* "anything remaining in the src must be wiped since it's not in the ref"
\* (tree.c, treeEncodeDCBuffer): so it is when treeReconstruct, given the
\* whole patch and a disk that takes all it writes, returns 0 after its
\* commands.
RestWiped ==
  pc = "done" /\ exit = "ok" /\ kept = patch.count /\ unflushed = 0 /\ done > 0 =>
    \A p \in Paths : Present(src, p) /\ ~ Present(ver, p) => ~ Present(target, p)

=============================================================================
