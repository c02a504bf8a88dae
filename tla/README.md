# diffball in TLA+

diffball computes binary deltas: a *differ* finds copies of a reference file
(the source) in a version file (the target) and writes a patch, a *patcher*
reads patches and rebuilds the version file from the reference. Everything runs
in one thread; what makes the program hard is state that is shared between
structures which look independent, and cursors that are resumed after the thing
they walk has changed.

This directory holds TLA+ modules for the parts of it that carry that state, the
TLC configurations that check them, and theorems about them proved with TLAPS.

To check everything: `tlc -config MCCFile.cfg MCCFile` (and likewise for the
other configurations, see *Runs*), and `tlapm` on each module whose name ends in
`Proofs`, and on `SetInduction` (`DifferProofs` and `TreeProofs` take some minutes).

## 1. Inventory

| component | source | state it keeps | operations |
|---|---|---|---|
| cfile core | `libcfile/cfile.c`, `noop.c`, `internal.h`, `include/cfile.h` | per handle: window, page (`offset`, `pos`, `end`, buffer), id; per root: `last`, `handle_count`; the position of the descriptor | `copen_*`, `copen_child_cfh`, `copen_dup_cfh`, `cclose`, `cseek`, `cread`, `next_page`, `prev_page`, `expose_page`, `cwrite`, `cflush` |
| compressed streams | `libcfile/gzip.c`, `bz2.c`, `lzma.c` | a decoder that only goes forward | open, refill, seek (by decoding again) |
| multifile | `libcfile/multifile.c` | a list of files, the one that is open | refill, seek over file borders |
| match list | `libdiffball/dcbuffer.c` (`DCB_llm_*`, `DCB_get_next_gap`), `diff-algs.c` (`MultiPassAlg`), `diffball.c` | linked list of matches, its cursor (`main`, `gap_pos`), the buffer of the current pass, `reconstruct_pos` | begin/finalize/truncate, next gap, next command |
| differencing in a window | `diff-algs.c` (`OneHalfPassCorrecting`) | rolling seed, place in the version, the match being grown | the pass |
| reference hash | `hash.c`, `adler32.c` | buckets of (checksum, offset) | insert block, look up, clean, free |
| command buffers | `dcbuffer.c`, `dcb-cfh-funcs.c` | full, matches and no-buffer variants; commands, sources, overlay chains | register source, add copy/add/overlay, get next, collapse, truncate, free |
| reconstruction | `apply-patch.c`, `api.c` | commands reordered by source; the target | `reconstructFile`, `read_seq_write_rand`, `simple_reconstruct` |
| formats | `gdiff.c`, `switching.c`, `bdiff.c`, `bdelta.c`, `bsdiff.c`, `xdelta1.c`, `fdtu.c`, `formats.c`, `bit-functions.c` | the place in a patch | encode, reconstruct |
| directory trees | `tree.c`, `delta_tree.c`, `delta_patcher.c` | two listings and the places reached in them, the last directory and time written or read, the directory that is changed | encode, apply |
| tar | `tar.c` | none | list the entries of an archive |
| programs, options, errors | `diffball.c`, `patcher.c`, `convert_delta.c`, `options.c`, `errors.c`, ... | none | option parsing, messages |

How they interact. Everything that reads does so through cfile handles. The
differ opens the two files once and then *children* (windows) of them: one per
tar entry, one per gap in every pass. All of these share one descriptor. The
match list is filled by `OneHalfPassCorrecting`, one window after another, walked
by `MultiPassAlg` to find windows still to be searched, and finally walked by an
encoder that turns it into commands. The patcher registers the patch and the
reference as sources of a command buffer, a format's reader fills it, and
`reconstructFile` executes the commands in an order of its own.

What is hard to test, and what must hold:

* *cfile core.* A handle may read without an `lseek` when it believes that the
  descriptor is where it left it. Correct when the bytes a handle gives its
  caller are always those of its own window at its own position, in every
  interleaving of open, close, seek and read on all handles; when `cread` ends,
  and ends short only at the end of the window.
* *Match list.* `main` is at once the cursor of the gap walk and the place where
  new matches are linked in. Correct when the list stays sorted and disjoint, each
  gap is visited once per walk and none that is long enough is missed, no match
  is ever lost, and the commands emitted tile the version file.
* *Reference hash and search.* The rolling checksum is moved over page ends, skipped
  bytes and the bytes of matches; a bucket is searched by halving; a match grows
  backward over earlier ones. Correct when a checksum is always that of the bytes
  at its place, a match copies what it stands for, and nothing is missed but
  what the hash cannot hold.
* *Command buffers and reconstruction.* The bytes written to the target are those
  the commands name, whatever the order of execution; overlay chains cover
  exactly what the overlay command said; references into arrays survive growth.
* *Formats.* Reading what was written gives the commands back, on both sides of
  every border between two encodings; what is left of a patch that was cut off
  is a beginning of it.
* *Directory trees.* Names and times are written relative to the ones before; a
  chain of commands changes a directory in place and may stop anywhere. Correct
  when a chain that ends well has made the one tree the other, no command
  needs what an earlier one took away, and no file is lost on the way - where
  the rebuilt contents came to the disk, which the code does not look at.

The hazards, each at its line, are in `PROJECT.json`.

## 2. Modules

| module | models | 
|---|---|
| `Cursors` | abstract: each handle is a cursor in a window with a page and a descriptor of its own |
| `CFile` | read handles on one uncompressed file, sharing a descriptor |
| `CFileProofs` | the theorems about `CFile` |
| `MCCFile` | the constants TLC uses for `CFile` |
| `Delta` | abstract: what differencing promises about the bytes of the version file |
| `MatchList` | the match list, the loops of `MultiPassAlg` and `diffball.c` over it, the encoders' loop |
| `MatchListProofs` | the theorems about `MatchList` |
| `MCMatchList` | the instance TLC uses for `MatchList` |
| `Patches` | abstract: what a chain of patches builds |
| `CommandBuffer` | full command buffers, overlays, and buffers as the source of the next patch, as `simple_reconstruct` chains them |
| `MCCommandBuffer` | the chains TLC uses for `CommandBuffer` |
| `Reconstruct` | executing the commands of a buffer, in order or source by source |
| `ReconstructProofs` | the theorems about `Reconstruct` |
| `MCReconstruct` | the commands TLC uses for `Reconstruct` |
| `Differ` | the rolling checksum, the hash, and the search of a window |
| `ChecksumProofs` | the theorems about the rolling checksum of `Differ` |
| `HashProofs` | the theorems about the buckets of `Differ` |
| `DifferProofs` | the theorems about the searches of `Differ` |
| `MCDiffer` | the files TLC uses for `Differ` |
| `Formats` | writers and readers of gdiff 4 and 5, switching, bdiff and bdelta |
| `MCFormats` | the commands TLC uses for `Formats` |
| `Posix` | external: the calls `tree.c` makes on a directory |
| `SetInduction` | induction over the naturals in the form the proofs use |
| `Tree` | writing a patch between two directory trees and applying it |
| `TreeProofs` | the theorems about `Tree` |
| `MCTree` | the trees TLC uses for `Tree` |

Definitions marked `MISTAKE` are not part of a specification: each is a plausible
wrong version of the definition after it. Putting it in the place of the right
one makes TLC refute the property `PROJECT.json` pairs it with, which is how we
know that the property says something about the code.

### CFile

A byte is named by its position in the file, so that a buffer is described by
`origin`, the position its first byte was really read from; `offset` says what
the handle takes it for. `kpos` is the position of the descriptor as the kernel
keeps it, `last` and `handle_count` the two fields of `lseek_info.parent`.

| action | code |
|---|---|
| `Open`, `Dup` | `copen_child_cfh`, `copen_dup_cfh`, `internal_copen`, `internal_copen_no_comp` |
| `Close` | `cclose` of a child; it leaves `last` alone, as the code does |
| `Seek` | `cseek` (all four offset types come to one target) and `cseek_no_comp` |
| `ExposePage`, `NextPage`, `PrevPage` | the page interface of `OneHalfPassCorrecting` and `copy_cfile_block` |
| `ReadStart`, `ReadTurn` | `cread`, one step per turn of its loop |
| `Crefill`, `EnsureLseekPosition`, `FlagLseekNeeded` | `crefill_no_comp`, `ensure_lseek_position`, `flag_lseek_needed` |

`Cursors` has no `last`, no ids and no descriptor: its handles read at their own
position. `CFile` implements it (`PrivateCursors`) by mapping `base`, `len`,
`page` and `cursor` to the fields of the handle; `shown`, the bytes a step gave
the caller and where they really came from, is a variable of both.

`size` is the default buffer size or the whole window, the two sizes the callers
ask for. That a child's window ends in the file is a duty of the callers:
`copen_child_cfh` does not check it, and windows past the end are left out.

`PrevPage` may be called from any place in a page but page 0 (`NeedsPrevPage`). Its
only caller in the library, the walk back of `OneHalfPassCorrecting`, keeps counters of
its own and leaves the handle where a `cseek` put it. The function seeks a buffer's
length back from there (`PrevTarget`): to a byte before the page as a rule, so that the
new page overlaps the old one; from the end of a full page, to the first byte of the page
itself, which is then kept and followed by a refill, so that the call goes *forward*. The
caller cannot be there, as `cseek` never leaves a handle at the end of a page that
is not empty; the model allows it. It is `Private!NextPage` then, otherwise
`Private!PrevPage`, which leaves no gap to the old page. The loop that goes on refilling until
the old page is reached is for `multifile` and is not entered on one file. At offset
0 the function empties the buffer without saying that the descriptor is elsewhere, and no
caller asks for that.

### MatchList

The linked list is the sequence of its nodes from `main_head` on and `main` an
index in it, 0 for NULL. Positions in the reference file are left out, as no
decision here depends on them; what the hash finds in a window is therefore any
match inside it (`Match`), including one that was grown backwards over matches
that the pass had already recorded (`DCB_llm_truncate`).

| action | code |
|---|---|
| `ArchiveFile` | `diffball.c`, the loop over tar entries that both archives have |
| `Match`, `PassEnds` | `OneHalfPassCorrecting` on one window, `DCB_llm_truncate`, `DCB_llm_finalize` |
| `MultiPass`, `BeginSeed` | the call of `MultiPassAlg` and the head of its loop over seed lengths |
| `CountGap`/`Counted`, `HashGap`/`Hashed`, `FillGap`/`Filled` | its three walks with `DCB_get_next_gap`, and what follows each |
| `GetNext` | `DCB_llm_get_next`, as every encoder calls it |

`Delta` states the promise with sets of bytes only. `MatchList` implements it
(`KeepsPromise`): `covered` is what the list covers, `window` the gap being
filled, `emitted` the `reconstruct_pos` of the encoder.

### CommandBuffer

There are no files between the patches of a chain. A copy of a later patch names
a stretch of a version that exists only as the commands in the buffer before;
these are copied over, cut at both ends, and their sources are registered with the
new buffer, which takes over the handles it has to close. A bsdiff patch adds to
bytes it copies: its commands are *overlays*, a chain of a mask and the commands
for the bytes under it, and a later patch may lay a mask over a stretch of overlays.

| action | code |
|---|---|
| `BeginPatch` | the head of the loop of `simple_reconstruct`: initialise the buffer, register the previous one (`create_DCBSearch_index`), the sources the reader registers |
| `NoIndex` | `create_DCBSearch_index` has no index for a version of no bytes |
| `AddCopy`, `AddAdd`, `AddOverlay` | `DCB_full_add_copy`, `DCB_full_add_add`, `DCB_add_overlay` as a reader calls them |
| `CopyRange`, `Translate`, `SeekIn`, `Mask` | `DCB_rec_copy_from_DCB_src`, recursive over chains |
| `EndPatch`, `PatchFails` | the reader returns; `DCBufferFree` of the buffer before, or of both |
| `Finish`, `ExecutionFails` | after the last patch: `reconstructFile` and `DCBufferFree`, or neither |

`Collapse` is `DCB_collapse_commands`, a function of a buffer. A byte of a version
is the bag of the file bytes summed up in it, so that applying patches one after the
other (`Patches`) and summing in any order can be compared. `asked` is the command
the reader met last, as the patch says it: which stretch of the version before, which bytes
of which part of the patch. No action looks at it. `Patches` says what such a command makes of
the version before (`Stretch`), and each step of `CommandBuffer` has to add just that: a
lookup, a cut or a mask that is off by one gives a stretch that is well formed and not the one
that was asked for, and refutes `ImplementsPatches`. Three things are
abstracted. A reader is known by the sources it registers ("plain": the reference
and the patch; "xdelta": a handle that it opens; "bsdiff": two of those), and
takes the bytes it adds one after the other. The bytes of a handle are
positions. `DCB_full_truncate`, the `matches` buffers (`bdelta`, read by
`convert_delta`) and the bufferless ones are left out.

### Reconstruct

One action is one turn of a loop of `reconstructFile` and `read_seq_write_rand`.
The commands are an input: any that satisfy `GoodInput`, which is what
`EachByteOnce` of `CommandBuffer` promises and `qsort` leaves. The target holds
for each place the byte that was written there and the set of bytes that were
added to it.

| action | code |
|---|---|
| `CopyNext`, `AllCopied` | the loop that executes in order, `copy_cfile_block` |
| `NextSource`, `AllRead` | the two loops over the sources, ordinary ones first |
| `SourceRead`, `StartAfterGap`, `StartHere` | the head of the loop of `read_seq_write_rand` and its two branches |
| `Skip`, `Skipped` | passing commands that belong to the run before |
| `Extend`, `Extended` | gathering a run |
| `ReadPiece`, `RunRead` | one buffer of the run, to all commands that need some of it |

### Differ

What `MatchList` takes as a choice. A case is a reference file, a version file and
the gaps to search, with the kind of hash `MultiPassAlg` would use: a bucket hash of
the reference file while nothing is found yet (and for the files of an archive), a
reverse one of the gaps, to which a walk over the reference file gives offsets, after
that. Pages are not named: a read takes any number of the bytes that are left.

| action | code |
|---|---|
| `ReadBlock`, `Insert`, `TooShort`, `NoPage` | `internal_loop_block`, with `base_rh_bucket_hash_insert` or `rh_rbucket_insert_match` |
| `EndBlock` | what `MultiPassAlg` does next: another gap, `RHash_find_matches`, `RHash_cleanse`, the search |
| `ReadWindow`, `NoMatch`, `Match`, `SearchEnds` | one turn each of the loop of `OneHalfPassCorrecting` |
| `Roll`, `Rolled`, `Afresh`, `Update` | `update_adler32_seed`: a byte, some bytes, a whole seed, and the choice |
| `HashInsert`, `InsertMatch`, `Cleansed` | `RHash_insert`, `RHash_insert_match`, `RHash_cleanse` |

The two searches of a bucket (one by one, or by halving from 32 on) are one operator,
the order they rely on is in `TypeOK`. `FindsHashed` names what the hash cannot give;
three of its exceptions are the code's: offset 0 stands for none, the first of two
byte strings with one checksum stays, and a bucket is empty again when its depth,
an unsigned char, comes back to 0.

### Formats

A patch is a sequence of bytes, but for the bytes adds bring, which are one item with a
place and a length, and for the magic. Class borders and the starts of
classes are the numbers of the code; the integer encodings are modelled byte by byte.

| action | code |
|---|---|
| `WriteHeader`, `WriteEnd` | the header of each format (with the add block of switching and bdelta) and its end |
| `GdiffEncode`, `BdiffEncode`, `BdeltaEncode`, `SwitchingEncode` | one turn of the loop of each encoder |
| `WriteStops` | the writer ends early: a write fails, the disk is full |
| `ReadHeader`, `GdiffReadAdd`, `GdiffReadCopy`, `BdiffRead`, `BdeltaRead`, `SwitchingReadAdd`, `SwitchingReadCopy`, `ReadEnd` | the readers, one command each |

`Misread` is the state of a reader that did not look at what `cread` returned and goes
on with whatever is in its buffer; nothing is said of it but that a whole patch does
not lead there.

### Tree and Posix

Two trees are given; `delta_tree` lists them, in order of their names, hard links
found by inode, and writes manifests, the table of owners and modes and
the commands; `delta_patcher` checks the source, builds the regular files in a
temporary directory and executes the commands. The delta of the contents is taken to
rebuild them. `Posix` holds the calls with their errors, a link followed once; where the
model has no path, nothing stands.

`DryWalk` is `generate_unlinks` with `dry_run`: where it is after each entry and how many it
has come past; the writer's own walk is `Stop` and `Passed`, entry by entry.
`TreeAssumption` says what a file system is (what stands somewhere stands in a directory),
`OrderAssumption` that names are not empty and that `strcmp` is an order of them.

Two variables say what does not come to the disk. `kept` is how many of the commands
written are whole in the patch that is read, `NoHeader` if not even what precedes them is:
the cut itself may be anywhere, in the next command too, and what the reader makes of it
is decided there. Most reads answer a cut with `PATCH_TRUNCATED` (`EndChain`). A
name does not: `relative_encoder_cread_path` then returns 0 and no name (`tree.c:309-319`),
and the directory, hard link and unlink commands, which read nothing more, use it at once
(`NameCut`, which ends in `crashed`). A manifest that is cut off gives `PATCH_TRUNCATED`,
but that of the target is freed twice (`HeaderCut`). `unflushed` is how many of the
rebuilt files, which are written through one handle one after the other, are at their
end still in a page that could not be flushed when the commands begin: `ReadHeader` takes
any number, as the result of the flush is not looked at, and `ApplyReg` moves such files
with the content `Unflushed`.

| action | code |
|---|---|
| `List`, `WriteHeader` | `copen_multifile_directory` twice, `treeEncodeDCBuffer` to the count of commands |
| `EncodeNext`, `EncodeTail`, `WriteFails` | its loop, with `generate_unlinks` and `encode_fs_entry`, the unlinks at the end; a page of the patch that cannot be written |
| `ReadHeader`, `HeaderCut`, `SourceDiffers`, `NoTempDir`, `RebuildFails` | `treeReconstruct` up to the commands, and its early ends: a manifest cut off, a source that is not as it was, no temporary directory (`Returns` what err is, or `Crashes`), files that cannot be created or rebuilt |
| `ApplyReg`, `ApplyHardlink`, `ApplyDir`, `ApplyNode`, `ApplyUnlink` | `consume_command_chain`, one command |
| `EndChain`, `NameCut`, `Cleanup` | after the last command, or the patch's end, or in a name that ends with the patch; `cleanup:` |

## 3. Runs

| run | configuration | instance | shows |
|---|---|---|---|
| `handles` | `MCCFile.cfg` | a root and one child opened up to twice, a file of 4 bytes, pages of 2, windows that overlap, start apart and end apart, and an empty one | types, ownership of the descriptor, buffers hold what they are taken for, reads end, and end short only at the end, and `CFile` implements `Cursors` |
| `id_wraps` | `MCCFileIds.cfg` | ids below 4, five opens | a finding, see below |
| `child_of_child` | `MCCFileNested.cfg` | a root, a child, a child of it | a finding, see below |
| `gaps` | `MCMatchList.cfg` | a version file of 8 bytes, archive seed 2, seeds 4, 2, 1 | all properties of `MatchList`, and that it implements `Delta` |
| `patch_chain` | `MCCommandBuffer.cfg` | a reference of 2 bytes; three patches, plain or bsdiff, that build up to 2, 3 and 3 bytes; two, plain or xdelta, of up to 5 and 2 | all invariants of `CommandBuffer`, and that it implements `Patches`: each command of a patch adds the bytes it names and no others, also when they are looked up in an index of several slots |
| `reconstruct` | `MCReconstruct.cfg` | targets of 4 bytes, three sources, one of them an overlay, buffers of 2 | all properties of `Reconstruct` |
| `overlay_output` | `MCReconstructOverlay.cfg` | the same, the output only written to | a finding, see below |
| `differ` | `MCDiffer.cfg` | all files of two different bytes of 5 or 6 against all of 5 to 7, seeds of 3, sample rates below, between and above; some longer ones | that the seed is that of its place, matches copy what they stand for, none is missed that could be found |
| `formats` | `MCFormats.cfg` | lengths and offsets on both sides of every border, in lists of one or two; all lists of up to four of four commands | what was written is read back; what was cut off is read as a beginning |
| `tree` | `MCTree.cfg` | every pair of trees of two names at the top, each of which may be a file, old or new, a device, a symlink, a directory with a file or without; hard links of both kinds; in place or not, the temporary directory on the same file system or on another | that the reader is in step with the writer, a chain makes the one tree the other, its count is right, no command of it fails but in the cases stated, nothing is lost |
| `tree_wiped` | `MCTreeWiped.cfg` | the same, on one file system | a finding, see below |
| `tree_flush` | `MCTreeFlush.cfg` | the same, on one file system | a finding, see below |

Why the bounds are enough. In `CFile` a hazard needs two handles that take turns,
a window with at least two pages so that a refill continues a previous one, and
a handle that is closed while `last` holds its id and another one opened
after it; all of these happen with 2 handles, 4 bytes and pages of 2. What it does
with more handles, longer files and larger pages is proved.
In `MatchList` 8 bytes hold three matches with gaps on both sides and between
them, gaps that are smaller than, equal to and longer than a seed length, and three
passes so that a gap is refilled twice.
In `CommandBuffer` three patches use both buffers of `simple_reconstruct` and the
first of them again, so that a source is carried over twice and a handle changes
owner twice; 3 bytes are enough to cut a chain in front, behind and on both sides,
and for an overlay over an overlay over two copies. The index needs four commands
for a second slot; the chains of two patches have five. In `Reconstruct` the commands of a
4-byte target are cut and placed in all ways in the first 6 bytes of two sources:
they overlap, nest, adjoin, start alike and leave gaps, and a run is up to three
buffers long. In `Differ` two matches need two seeds, which 6 bytes hold; two longer
pairs of files are there for a match that takes over two others, or one and part of another.
The hash is scaled down with the files (2 buckets, 4 checksums, a depth
below 3) so that checksums collide and buckets wrap. `Formats` takes its borders from
the code, and of each the value before; `Mixed` brings every change from add to copy
and back. In `Tree` the names `a`, `a-`, `a/` and `a/x` are the smallest for which the
order of names is not that of paths; each pair of kinds of entries meets under
one name, alone and beside the other name.

Bounds that stop the models and not the program: `MaxOpens` (the `handle_count`
of `CFile`; the program may open any number), `VerSize` and `FileLen` (the
length of the files), the length of the chains and of their versions (`Chains`), of
the target (`VerLen`), and the last position a command reads from (`MaxPos` of
`MCReconstruct`); the files of `Differ` (`Cases`), the commands of `Formats` (`Lists`),
the trees of `Tree` (`Trees`). Deadlock is not checked where a model stops
in states in which the program is done or has failed (`MatchList` at the end of
the version file, `CFile` whenever the program makes no more calls); `Differ` and
`Formats` say where they may stop (`Stay`), so there it is.

Fairness. `CFile` assumes weak fairness of `ReadTurn` only: a `cread` that has
begun is a loop of one thread and takes its next turn. Nothing makes the program
open, seek or begin a read. `MatchList` assumes weak fairness of `Next`: one
thread runs the whole of it and never waits, so it takes its next step
while there is one. The same holds for `Reconstruct`. `CommandBuffer` has no
liveness property and no fairness: what a patch holds is not the program's choice.
`Differ`, `Formats` and `Tree` state safety only.

## 4. Proofs

`CFileProofs` proves, for files, windows, page sizes and sets of handles of any
size, and any bound `MaxOpens < IdMod`:

* `Invariance`: `IInv` is an invariant;
* `TypeCorrect`, `PositionOwned`, `BuffersCorrect`: `TypeOK`, `LastOwnsPosition`
  and `BufferIsWindow`;
* `ShortReads`: the action property `ShortReadOnlyAtEnd`;
* `Refinement`: `Spec => PrivateCursors`, that handles which share a descriptor
  implement cursors with one each.

None of the safety properties is inductive alone. `LastOwnsPosition` is kept
by a refill only if the id in `last` singles out one handle: `IInv` adds that ids
of open handles are distinct, that they are all between 1 and `handle_count`,
that `last` is 0 or one of the ids given out so far, and that a handle with a new
id can therefore not find its id in `last`. It also adds that a page lies in its
window's limit and `pos` in the page, so that a
refill that brings nothing means the end of the window and not a window left
behind; and that a page is not longer than the buffer, so that the seek of `prev_page` never
ends up behind the start of the page it leaves (`PrevTargetPlace`).

All of this is about the calls the model has: `prev_page` at offset 0, a window past the end
of the file, and calls on a handle that is written to are not among them.

The assumption `MaxOpens < IdMod` is the one thing the code does not check: an id
is an unsigned short, the counter it is cut from an unsigned int. The theorems
are false without it, and run `id_wraps` shows the step at which they fail.

`ReconstructProofs` proves, for any number of sources, any commands that satisfy
`GoodInput`, any target, buffer size and length of the sources:

* `Invariance`: its `IInv` is an invariant;
* `TypeCorrect`, `NothingLeftBehind`, `TargetCorrect`: `TypeOK`, `TakenSoFar` and
  `Correct`; `RunsClosed`, that what a piece leaves aside needs nothing of the run;
* `MasksAddedOnce`, `SourcesReadOnce`: the action properties `AddedOnce` and `OnePass`.

`Correct` says nothing before the end, so its invariant is `TakenSoFar`, split into
what is written (`BaseTaken`) and what is added (`MasksTaken`). A piece keeps these only
if `start..end - 1` holds all commands that need a byte of it (`TakersOfPiece`); that
in turn rests on `RunPlace`, which follows `start`, `end`, `pos` and `max_pos` through
the states between two pieces, and on the order `qsort` leaves. A write erases
nothing because no overlay has been read before the last ordinary source
(`SourcesInOrder`). `GoodInput` is an assumption here; that the buffers of a chain
satisfy it is `EachByteOnce` of `CommandBuffer`, which is model-checked.

`MatchListProofs` proves, for a version file of any size, any archive, any seed
lengths and any result of the searches:

* `Invariance`: its `IInv` is an invariant;
* `TypeCorrect`, `Ordered`, `PassWhereLinked`, `TruncatesOwn`, `WalksReturnAll`,
  `TotalExact`: `TypeOK`, `ListInOrder`, `WindowAtMain`, `BuffReachesVs`, `NoGapMissed`
  and `TotalIsExact`;
* `EachGapOnce`: the action property `GapsOnce`;
* `Refinement`: `Spec => KeepsPromise`, that the list and the encoder's walk keep
  what `Delta` promises.

A pass's matches are linked behind `main_head`, wherever that is: the list stays in
order only because the window of the pass lies in the gap behind it (`WindowAtMain`).
That in turn needs `WalkPlace`, where `main` is when a walk has just started, has just
returned a gap, or has seen a pass put nodes between. `NoGapMissed` speaks of the end of
a walk; its invariant is `GivenGaps`, an exact account of the bytes given so far: of the
gaps of the list the walk began with, in its order, those long enough for the seed, and
none behind `main`. That there is a next gap, and that a walk that found none has
passed them all, takes a least index.

`SetInduction` is what the other modules use for that. `Least`, that a nonempty set of
naturals has a least element, follows from the library's `WFMin`; `UpTo`, induction up to a
bound, from `Least`; `Recursion`, that a function exists which is given for 0 and for x
from what it is for x - 1, from `UpTo`. None of them has an operator as parameter, so the
provers can use them, and what a loop of the code computes can be proved where it is
written as a recursive function.

`ChecksumProofs` proves, for any length of a seed, any multiplier and any bytes:

* `Updated`: `update_adler32_seed`, in both branches, leaves a checksum that is that of the
  bytes the seed remembers (what computing it afresh gives), and these are the last bytes
  it was given.

The loop over `LastMulti` gives 1 + Multi + ... (`Weights`); one byte that goes and one that
comes change both sums as `Roll` does (`Shifted`, by induction over the bytes, then `RollOnce`);
the bytes are in a ring, and `tail` is where the oldest is (`Ring`).

`HashProofs` proves, for any number of buckets and keys and any depth:

* `Inserted`: `RHash_insert` leaves the buckets sorted, each checksum with an offset; the
  first offset of a checksum stays, a new one comes in, all others keep theirs, unless
  the depth of the bucket is back at 0;
* `Answered`, `CleansedAll`: the same for the answers of the reverse hash and for what is
  left of it when those without an answer are gone.

`DifferProofs` proves, for any files and gaps (`CaseAssumption`), any sample rate, seed and
hash:

* `Invariance`: its `IInv` is an invariant;
* `TypeCorrect`, `SeedsAreTrue`, `CopiesAreTrue`, `NothingMissed`: `TypeOK`, `SeedOfPlace`,
  `CopiesTrue` and `FindsHashed`.

`SeedOfPlace` speaks of the states in which a seed is used; in between it is only partly
read, and `CharsRead` says which of its bytes are already those of the file, in a block and
in a window. `WindowPlace` bounds how far the reads are ahead of `vc`: the search after
a match must not count bytes as read that the match took over. `CopiesTrue` needs that
matches are apart for every two, not only neighbours, as one truncation may take
several away (`Copies`). `FindsHashed` needs to know exactly what the hash holds, and that
differs by phase (`Account`): while the reference is hashed, under each checksum the least
offset that was handed in and nothing else (`RefAccount`); while the gaps are, what they
ask for without an offset (`GapAccount`); in the walk, what was asked for with its least
offset or still waiting (`WalkAccount`); in the search, what can be found (`Known`). A bucket that
was emptied is no part of it. `PassedOver` then says of every byte before `vc` that it
is a match's, or begins a seed that the hash does not give.

`TreeProofs` proves, for any two trees of any names and any order of them that satisfies
`TreeAssumption`, `OrderAssumption` and `InodeAssumption`, in place or not, with the temporary
directory on the same file system or on another, wherever the patch is cut off and
whatever of the rebuilt files is flushed:

* `Invariance`: its `IInv` is an invariant;
* `TypeCorrect`, `CountIsKept`, `ReaderInStep`: `TypeOK`, `CountKept` and `InStep`;
* `NothingLost`: `NeverLost`: the old content, or the new one, or, where the last page was
  not flushed, neither;
* `Fitting`: `FitInv` is an invariant; from it `TreeRebuilt` and `ChainApplies`: `Rebuilt` and
  `Applies`.

Three of them carry conditions, which are part of the property. `Rebuilt` is about a chain that
ran to its end with all contents flushed, in a new tree without two names of one symlink. `Applies`
is about commands that are whole in the patch, and excepts (`CannotApply`) a directory that
becomes something else, a hard link where something stands, and every file when the
temporary directory is on another file system than the target - which it is whenever
`TMPDIR`, or `/tmp`, is, as `rename` then answers `EXDEV` (`tree.c:1283`, `1625`). `InStep` is about commands
that are whole. `kept` is bounded by `OnDisk`, so that a command that is read was written
(`KeptRead`); the content of the next file is the one meant, or it is not flushed (`Filled`).

A name is read back as it was written if the reader is at the same directory (`PathBack`,
`NamesBack`), a time if it is at the same last time (`TimesBack`); what the two are at after
each command is the function `P` of `Chained`, which `EntryTurn` and `GoneTurns` extend for
the writer and `ReadTurn` follows for the reader. Which command is whose is the dry walk:
the i-th entry's is the one of number i + `DryWalk[i].n` (`Placed`, `Among`), so that the
count kept in the header is the number of commands (`CountOfWalk`), and the files of the
manifest are met in its order (`Counting`, `FilesListed`). That an unlinked name is not in
the new tree needs both lists to be sorted (`ListingSorted`, `AheadOfWalk`, `UnlinkedGone`).
That what stands in the target stands in directories is a fact about each call
(`PlaceStands` and the lemmas behind it).

For `NothingLost`: a command could reach a file of both trees in two ways. It could follow a symlink into
another directory: then a directory of either tree, whose own name comes before the names
in it (`DirFirst`, by the slash at its end), would have become a symlink after its command,
and `NoSymlink` says that none has: its command made it a directory, or removed it, or
failed, and the command of the symlink, whose name has no slash, came before (`SlashLater`).
That commands are in the order of the names, one for each name of either tree, is
`NamesAscend`, `NamedOnce` and `NamedSome`. So a command changes what it is about
and what is below it (`OnTheWay`, `Under`). Or it could be about the file or its directory:
both are in both trees, so that they are never unlinked, the directory is only ever made,
which leaves what is in it, and the file is only ever renamed over (`KeptFacts`).
`NoSymlink` and `Saved`, which is `NeverLost` for every entry of the new tree, are
inductive together with `IInv` (`SafeInv`).

`Rebuilt` speaks of the end of a chain and `Applies` of its failure. What leads there is
`FitInv`: while commands are executed, each path whose entry's command is past is a copy of
the new tree's node (`Grown`), what else stands there stood there before and is unchanged
(`Kept`), and what was unlinked is gone (`Cleared`). The two properties need each other.
That a command does not fail needs what those before it made: the directory a name is in is
past and hence a directory (`EntryWalk`), the name a hard link is to is past and hence a file
(`LinkedMade`); only what is `Kept` can be in the way, and `CannotApply` names the two
cases in which that matters, besides the other file system (`RegFits`, `HardlinkFits`, `DirStays`). That a command undoes
nothing needs the order of names: when what is in a directory is made, no command about the
directory is to come (`NotAbove`); of the two names a path can have, with a slash and without,
the unlink of the old one comes first, or fails since no directory stands there any more
(`NotAgain`). At the end all names are past (`AllPast`). A file's new inode is named by the
first name of its old one (`Origin`), which every link goes back to (`LinkFacts`), so that
files are one file exactly when they were. The owner comes back through the table
(`OwnerBack`), which is in order of use (`Arranged`).

`InodeAssumption` says of the trees what a file system keeps: all names of an inode show
the same node, and a directory, a pipe or a socket has no content.

Only model-checked: the liveness properties `ReadReturns`, `DeltaDone` and `Finishes`
(the prover does not do liveness under fairness); everything about `Formats`, whose files
and values are made with `FoldLeft` and `SelectSeq`, which take an operator as a parameter
that the provers cannot instantiate (as recursive functions they could be reasoned about);
`CommandBuffer`, whose operators are recursive, and that it implements `Patches`.

## 5. Findings

* **Ids wrap** (`include/cfile.h:105`, `libcfile/cfile.c:106-108`). The differ
  opens a child per gap and pass, so that a large file pair can use up the 65535
  ids. The handle that gets id 0 is indistinguishable from "the descriptor
  belongs to nobody"; its seeks do not make it `lseek`.
* **A child of a child** (`libcfile/cfile.c:94-97`). The comment says that the
  request is made to fit the *parent's* range. The code adds the window offset of
  the root. The two agree when the parent is the root.
* **Overlays need a readable output** (`apply-patch.c:217`, `api.c:217`). The comment
  says that several bsdiff patches are supported by reordering. The masks are then
  added in a page read back from the output, and `patcher` opens that for writing
  only: the first mask is an I/O error. With a handle that can be read
  (`OutReadable`) the algorithm is right, which is what `reconstruct` shows.

* **A failed chain returns 0** (`tree.c:1936`). The commands that remove what only the old
  tree has come last (`tree.c:803`). When an earlier one fails, `cleanup:` replaces `err`
  by the result of removing the temporary directory; `delta_patcher` reports success.
  In TLC's trace a directory becomes a file: its command is the first, `rename` answers `EISDIR`,
  the chain ends there, `treeReconstruct` returns 0 and what the later commands should have
  unlinked is still there (`RestWiped`).
* **A flush whose error is dropped** (`tree.c:1868-1869`). "Ensure all content is on disk" says
  the comment, but the result of `cflush` is overwritten at line 1886. If the last page
  of the rebuilt files cannot be written, they are renamed over the old ones without their
  content, the chain runs to its end and 0 is returned (`ContentOnDisk`): the one way a file
  of both trees loses its old content and does not get its new one (`NeverLost`).

Not findings of a run, but seen while modelling: `treeEncodeDCBuffer` writes the uid where
the gid belongs (`tree.c:483`) and `st_dev` for the number of a device; the second `link`
of `enforce_hardlink` has its paths swapped; a directory cannot become a file, as `rename`
does not replace it; further names of one symlink come out as symlinks to the first.
`Rebuilt` and `Applies` name these as exceptions. A patch that ends in a name is a null
pointer to three of the commands (`tree.c:309`), and one that ends in the manifest of the target
frees it twice. `make_tempdir` returns `NULL`, and `err` stays 0, only when there is no memory
for the name (`tree.c:1639`); when `mkdtemp` fails it frees the name and goes on to write to it and
return it (`tree.c:1646-1654`). A patch that builds a file of no
bytes cannot be followed by another: there is no index of nothing (`dcbuffer.c:1648`), which is a
`MEM_ERROR`, or an assertion that fails in a `DEV_VERSION`. `switching` encodes a copy of
0x10101010 bytes or an add of 0x40404040 into its class bits without an error
(`ListAssumption`), and neither it nor `bdelta` looks at what `cread` returns (`Misread`).
gdiff and bdiff take a patch that ends between two commands for a whole one.

## 6. Not modelled

* Write handles (`cwrite`, `cflush`), files opened for reading and writing, the
  handle on memory. The programs write one file through one handle from its start
  to its end; that `cwrite` never ends when `write(2)` keeps failing (`cfile.c:452`) is the
  one hazard, and it is seen without a model. `lseek` and `read` that fail: an error path
  everywhere ends the program.
* Allocation failures (but for that of the name of the temporary directory), messages, option parsing, format names: no state.
* Compressed streams: what can go wrong there depends on what a call of zlib, bzlib or
  liblzma leaves behind, which is not in the repository. Tar headers. `ctest.c`.
* Truncation of a full buffer, the `matches` buffers and bufferless execution.
* Commands without bytes. No encoder writes them; on a foreign patch that has one
  `read_seq_write_rand` does not get on, and a collapse that begins with one is taken
  for a failure.
* How bsdiff, xdelta1 and fdtu patches are decoded. What their readers do with a buffer
  is in `CommandBuffer`.
* In `Differ`: growth of buckets, a full hash (its count cannot be reached, as the depth
  wraps at 256 and the bound is 1024), positions of 4 GiB and more, the walk back over
  pages (`CFile` has `prev_page`).
* In `Formats`: values of 2^31 and more (the gdiff copy with an 8-byte offset among them),
  commands that no encoder writes. gdiff puts a copy together in an array of five bytes, of
  which opcodes 251 to 254 need up to nine (`gdiff.c:67`): the model has them read back as
  they were written, or the writer stop (`WriteStops`), and no other outcome.
* In `Tree`: excludes, the delta itself, the times of directories, more than one level of
  directories; calls of the chain that fail for want of space, of rights or of memory
  (`chown` and `chmod` among them), and a temporary directory that cannot be removed; a flush
  that fails before the commands and is made good when the files are closed, after they were
  moved (`tree.c:1956`); `multifile` as a stream of bytes.

## 7. Plan

Modelled: `Cursors`/`CFile`, `Delta`/`MatchList`, `Patches`/`CommandBuffer`,
`Reconstruct`, `Differ`, `Formats`, `Posix`/`Tree`. Proved: `CFile`, `Reconstruct`,
`MatchList`, `Differ` and `Tree`, with all their safety properties.

What would come next:

1. Proofs about `Formats`, its folds as recursive functions: the integer encodings, then
   `ReadsBack`.
2. `CommandBuffer` without recursive operators, for `EachByteOnce`.
