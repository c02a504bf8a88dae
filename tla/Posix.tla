------------------------------- MODULE Posix -------------------------------
(***************************************************************************)
(* The calls on a directory tree that libdiffball/tree.c makes, as it uses *)
(* them.  A tree maps each path to what stands there; a path is a sequence *)
(* of one or two names, so that the only directories that are walked       *)
(* through stand at the top.  What a call gives is the tree after it and   *)
(* its errno ("ok" if there is none).                                      *)
(***************************************************************************)
EXTENDS Integers, Sequences, SequencesExt

Absent == [type |-> "none"]

\* Nothing stands at a path that the model does not have.
Is(fs, p, t) == p \in DOMAIN fs /\ fs[p].type = t
Present(fs, p) == p \in DOMAIN fs /\ fs[p].type # "none"

\* The directory p is in, a symlink on the way followed once.
DirOf(fs, p) ==
  LET d == Front(p)
  IN  IF d # <<>> /\ Is(fs, d, "sym") THEN fs[d].data ELSE d

At(fs, p) == Append(DirOf(fs, p), Last(p))

\* The errno of the walk to p.
Walk(fs, p) ==
  LET d == DirOf(fs, p)
  IN  IF d = <<>> \/ Is(fs, d, "dir") THEN "ok"
      ELSE IF Present(fs, d) THEN "ENOTDIR" ELSE "ENOENT"

Result(fs, err) == [fs |-> fs, err |-> err]
Place(fs, p, node) == Result([fs EXCEPT ![At(fs, p)] = node], "ok")

\* mkdir, symlink, mknod: they never replace anything.
Make(fs, p, node) ==
  IF Walk(fs, p) # "ok" THEN Result(fs, Walk(fs, p))
  ELSE IF Present(fs, At(fs, p)) THEN Result(fs, "EEXIST")
  ELSE Place(fs, p, node)

\* link; the old path is looked up first.
Link(fs, old, new) ==
  IF Walk(fs, old) # "ok" THEN Result(fs, Walk(fs, old))
  ELSE IF ~ Present(fs, At(fs, old)) THEN Result(fs, "ENOENT")
  ELSE Make(fs, new, fs[At(fs, old)])

\* rename of a file from elsewhere: atomic, over anything but a directory.
Rename(fs, node, p) ==
  IF Walk(fs, p) # "ok" THEN Result(fs, Walk(fs, p))
  ELSE IF Is(fs, At(fs, p), "dir") THEN Result(fs, "EISDIR")
  ELSE Place(fs, p, node)

\* unlink; with a slash behind it a path must be that of a directory.
Unlink(fs, p, slash) ==
  IF Walk(fs, p) # "ok" THEN Result(fs, Walk(fs, p))
  ELSE IF ~ Present(fs, At(fs, p)) THEN Result(fs, "ENOENT")
  ELSE IF Is(fs, At(fs, p), "dir") THEN Result(fs, "EISDIR")
  ELSE IF slash THEN Result(fs, "ENOTDIR")
  ELSE Place(fs, p, Absent)

Below(d, p) == IsPrefix(d, p)

=============================================================================
