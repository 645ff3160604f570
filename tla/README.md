# A TLA+ model of linux-headers

The repository holds the user-space headers of a longterm Linux kernel, the
script and the workflow that fetch them, and two ways of installing them. This
directory has TLA+ modules for the script, the workflow and the installers, and
for those headers whose macros and inline functions make up a protocol or an
algorithm. TLC checks the modules on small instances; TLAPS proves the most
important properties for every value of the constants.

## The system

| part | state | operations | what makes it hard |
|---|---|---|---|
| `update_headers.sh` | `.version`, `arch/`, `include/`, two temporary directories | one command after the other | any command fails or is cut off; some failures are ignored; the next run starts from what is left |
| `.github/workflows/update.yml` | the main branch, a working directory for each job | checkout, script, commit and push | jobs run at the same time, releases come out meanwhile |
| `GNUmakefile`, `meson.build` | the tree, the prefix and their time stamps | install a file, in any order | the tree changes, architectures change, copies are cut off |
| `virtio_ring.h` | two indexes and two event indexes shared by driver and device | add, use, notify, sleep | lost wakeups, wrapping indexes |
| `soundcard.h` | a buffer and the device | events, system exclusive messages, patches, dumps | events of two sizes at the end of the buffer, patches that bypass it |
| `netlink.h`, `rtnetlink.h`, `nfnetlink_compat.h`, `fanotify.h`, `tipc_config.h`, `x_tables.h`, `ebtables.h`, ARM `setup.h` | a list in a buffer, a reader's position | put, nest, end, cancel; OK and NEXT; loops with callbacks | lists cut anywhere, bytes beyond their end, lengths of 16 bits |
| `cec.h`, `cec-funcs.h` | a message struct that is used again and again | pack, deliver, unpack, answer, abort | optional operands, messages cut short, answers built in place |
| `perf_event.h` | a page shared by the kernel and a thread, a counter, a clock | update; read in a loop, compute | updates between any two reads, counters and clocks that wrap |
| ia64 `rse.h` | a backing store | spill and fill; count, skip | every 64th slot is not a register |
| `swab.h`, `byteorder/`, `bcache.h`, `nilfs2_ondisk.h`, `target_core_user.h`, `xt_sctp.h`, `phonet.h`, Alpha `fpu.h`, SPARC `psrcompat.h` | a word | setters and getters of its fields | neighbouring fields, byte orders, instruction sequences of eleven architectures |

The workflow runs the script; the installers read the tree the script has made.
The headers are independent of each other. Nearly all the other files declare
structures, constants and ioctl numbers and have no behaviour of their own;
"Not modelled" below says more of them.

## Modules

| module | code | correspondence |
|---|---|---|
| `UpdateHeaders` | `update_headers.sh` | `pc` is the next command of the run in a directory, and each command (or group of commands that nothing tells apart) is an action. `Abort` is a failing command under `set -e`; `CleanCut` and `CopyCut` are an `rm -rf` and a `cp -rl` cut off in the middle. A command followed by `\|\| true` may do a part of its work, which `lost` records. |
| `HeaderMirror` | (abstract) | What the branch promises: it goes from one release to a later one in a step, and never mixes two. |
| `HeaderRepo` | `update.yml` | Extends `UpdateHeaders`: the script runs in the directory of a job. A push is rejected when the branch has moved. |
| `HeaderInstall` | `GNUmakefile`, `meson.build` | `newer` has the sources modified since their target was written, all that make's comparison of times tells. The tree may change at any time, also between two copies (`moved`) and during one (`CopyTorn`). |
| `VirtRing` | `virtio_ring.h` | `vring_init`, `vring_size` and `vring_need_event`, used by a driver and a device that are external. An index is a number below `Mod`. |
| `SeqBuf` | `soundcard.h` | `seqbuf` has the first `_seqbufptr` bytes of `_seqbuf`; `fd` is what the device got. A patch starts with its key (`patchkey.h`), stored in the machine's byte order. |
| `AttrList` | eight list headers | A list is the set of the offsets of its records. `Fields` is the length field a reader finds: anything in `Junk` where there is no data. `Break` is a callback that does not return 0. `overlong` records that `NFA_NEST_END` has stored a length that 16 bits do not hold. |
| `CecMsg`, `CecExchange` | `cec-funcs.h`, `cec.h` | `Table` has the messages with fixed operands; the others have operators with the names of their functions. |
| `PerfPage` | `perf_event.h` | `at` is the reader's place in `Order`, the reads of the loop in program order; `got` has its local variables. `Update`, `Count` and `Tick` are the kernel, the counter and the clock. `truth` keeps what was true when the hardware was read. |
| `RegStack` | ia64 `rse.h` | The functions with their names, on slot numbers; the engine that fills the backing store is external. |
| `ByteOrder` | `swab.h`, `byteorder/`, `arch/*/asm/swab.h` | A word is the set of its one bits. The instruction sequences are written out; `Archs` has every architecture with functions of its own, and two without. |
| `StoredFields` | the headers with packed words | `word` is a word of one `kind`, each setter an action, `stored` what was last stored in each field. |

`MC...` modules give the constants their values. `...Proofs` modules hold the
theorems.

## Runs

Runs that pass:

| run | shows | bounds |
|---|---|---|
| `update` | the tree never mixes releases; a run without ignored failures is complete | one directory, three releases (one of which `grep` mistakes for another), two architectures with different headers and one with none; runs are unbounded |
| `publish` | what is pushed is sound; the workflow implements `HeaderMirror`, whose branch only gets newer; an undisturbed job publishes | two jobs at a time, three releases, one failure |
| `install` | what `make install` and `meson install` leave in a prefix | two architectures, one header of each kind, two contents; the tree changes between runs, between the copies of a run and during a copy |
| `ring` | no lost wakeup; buffers come back; `vring_init` and `vring_size` agree | one and two descriptors, indexes modulo 8, so that they wrap many times; two alignments |
| `sequencer` | order, whole events, patches alone, and the rules the comments of the header state | a buffer of 12 bytes, which no sequence of events fits evenly; 24 bytes sent; a patch of three bytes |
| `lists` | the loops visit exactly the whole records, and end; those of ebtables report a table that is not whole | four records, data of 0, 3 and 4 bytes, every place to cut; TLVs that together, and a nested attribute that by itself, exceed 65535 bytes |
| `cec` | operands arrive, nothing is read beyond the message, answers go back, the status tells the truth | every message, two values for each operand, texts and lists on both sides of every limit |
| `perf` | the loop accepts one state of the page; counts, times and scaling are exact; calls return | two updates, so that one pass meets none, one or two; a lock of six values that starts before its wrap; words of five bits, and a counter and a clock of two, which go around; a clock slower and one faster than a cycle in a ns, at values whose product with the multiplier needs more than a word; three sets of capabilities |
| `regstack` | counting, finding and walking back agree with where the engine put the registers | starts before, on and after the slot with NaT bits; 130 registers, more than two groups |
| `words` | each field reads back what was stored in it, on every machine | all kinds of word; 24 machines; every single bit and words whose bytes differ; values one bit too wide |

Two jobs are enough for a race between pushes, since a push only tells the
branch having moved from its not having moved. Two descriptors let the device
be ahead, level and a whole ring behind.

Runs that are expected to fail show a disagreement between the code and what
the repository says of it. `PROJECT.json` quotes the lines.

| run | shows |
|---|---|
| `update_uptodate` | `.version` is written first, so a failed run makes the next ones say "already up to date" |
| `cec_operands` | operands that come out other than they were packed: the upper bits of a channel's major number (wrong shift), `enc_func_state` (the bits of `host_func_state`), Set State (the opcode of Inquire State) |

Other behaviours that may surprise a reader, seen in the code and not the
subject of a run:

- a failing `headers_install` or `cp` is ignored, so that the script exits with
  0 with headers missing (`update_headers.sh:60` and `:77`);
- `make install` for a second architecture into the same prefix keeps the
  `asm/` headers of the first, which are not older (`GNUmakefile:34`); it also keeps a
  target that was copied while its source was being written;
- `NFA_NEST_END` stores a length of 16 bits (`nfnetlink_compat.h:51`): a nested
  attribute above 65535 bytes is completed with a length that ends inside it,
  and the outer loop goes on there;
- the meson choices `c6x` and `unicore32` have no directory below `arch/`
  (`meson_options.txt:9` and `:26`);
- the command of `README.rst:31` has `make -n`, which only prints what it
  would do;
- the schedule of the workflow is commented out (`update.yml:2`), while
  `README.rst:4` has the headers "automatically fetched by GitHub Actions";
- `pmc` is cleared before the loop of `perf_event.h:528` and not in it, so a
  pass that finds no index adds what an earlier pass has read; `running` may be
  0 when it is divided by (`:605`); `rem * enabled` may exceed 64 bits (`:607`); the texts write `cap_usr_time` for
  `cap_user_time`;
- the chunk map of `xt_sctp.h:25` has 64 words where 8 would do, so a map whose
  256 types were set one by one is not `IS_ALL_SET`, and `ARRAY_SIZE` is not
  defined in the headers. `ChunkMapTrue` says that a map which tests as all set,
  or as clear, is so, and not the converse;
- `tcmu_hdr_set_len`, `KEY` and `MAKE_PTR` do not mask what they are given;
- the underflow trap enable of the Alpha is lost while underflows are mapped to
  zero (`fpu.h:103`), and the extended condition codes of SPARC in a frame
  without the `PSR_V8PLUS` mark (`psrcompat.h:41`);
- the second loop of `cec_ops_report_features` (`cec-funcs.h:875`) starts at a
  byte without the extension bit and never advances.

What all these are about is left out of the passing properties by name:
`PublishedSound` and `CleanRunIsComplete` speak of runs without ignored
failures, `MakeInstallsAll` exempts targets from another architecture or from a
copy cut off or torn, it and `MesonInstallsAll` runs during which the tree
changed (the next one is held to its promise), `OperandsArrive` exempts the three CEC cases, `ResultTrue` and
`ResultsMonotone` a stale `pmc`, `AllWholeRecords` lists of TLVs above 65535
bytes, it and `OnlyWholeRecords` lists with an attribute longer than its length
field can say (`WalkEnds` has them too). Channel numbers above 255 are sampled for Tune Function only; the same shift in
`cec_get_digital_service_id` is not sampled.

## Fairness

- `JobFairness`: a job that has started goes on. The service that runs the jobs
  ends a job that hangs, which is a failure and not fairness of the script.
  Nothing is assumed about pushes, releases or failures.
- `VirtRing`: each of the two sides goes on when it can. Submitting buffers is
  not fair: nobody has to.
- `AttrList`: the loop goes on. The function it calls may end it, but nothing
  relies on that.
- `PerfPage`: the thread goes on within a call. Updates are not fair and, in
  the model, finitely many: a loop that met an update in every pass would not
  end, in the model or in the code.

## Proofs

| module | theorems | inductive invariant |
|---|---|---|
| `HeaderRepoProofs` | of the script: `TypeCorrect`, `NeverMixed`, `CleanRunComplete` | Per directory: before `clean` the tree is of one release; after it, everything in the tree and staged is of `$VERSION`, and each architecture that has been dealt with is complete unless `lost`. The property alone says nothing of what is staged. |
| | of the workflow: `RepoTypes`, `PublishedIsSound`, `BranchOnlyAdvances`, `RepoImplementsMirror` | The invariant of the script, and: a job whose branch has not moved has checked out the head, and a changed directory at the commit step has a later release. |
| `HeaderInstallProofs` | `InstallTypes`, `MakeComplete`, `MesonComplete` | As long as the tree stays the same, every source of the run is still to be looked at or settled. `StaleIsSeen`: a completed copy that no longer has the contents of its source is older than it. It holds however the tree changes, and is why a run after a disturbed one repairs what that has left. A target was copied from a source of its name. |
| `VirtRingProofs` | `RingTypes`, `NeedEventMeaning`, `KicksNotLost`, `InterruptsNotLost`, `LayoutAlwaysFits` | A sleeping side has published its own position, and either nothing is new or a notification is on its way or about to be decided on from that position. |
| `SeqBufProofs` | `BufferTypes`, `BufferInBounds`, `EventsInOrder`, `EventsNotSplit`, `PatchesAlone`, `EventsDelimited`, `SysexInFragments` | What has been written ends where an event ends. For `PatchesAlone` and `EventsDelimited`, `Cut`: every event that has begun ends where its first byte says, and what lies between two neighbouring starts is one event. The properties alone do not say that no start lies inside an event. For `SysexInFragments`, `Fragments`: what is left of a message ends with the end mark and has none before; a fragment is all data, or holds the end mark and is padded behind it; and one that is all data is followed by another, unless it is the last event and something is left to be sent. |
| `AttrListProofs` | `VisitsOnlyWhole`, `VisitsAllWhole`, `TableVerdictTrue` | All of it as long as not `overlong`, which never ends (`Told`). `ListInv`: the open nests enclose each other, and at each level the records are a chain: each begins where the one before it, padded, ends, the first at the start of the level and the last before its end. So a reader that goes from record to record cannot leave the chain. `WalkInv`: the reader is at the start of a record of its level or at the end of the chain, its remaining length is what lies behind, and it has visited the records before it. `Few`: there are finitely many records, so that those passed can be counted, which is how the x_tables loops skip the first ones. |
| `PerfPageProofs` | `Snapshot` | `SeqInv`: lock shows how many updates there were since it was read, and if there were none the fields read so far are those of the page. |
| | `TrueResults`, `MonotoneResults`, `SampleClockExact` | `KernelInv`: counter and times go on from what the page says. `HardwareInv`: what was read from counter and clock goes with the page if there was no update since. `ResultInv`: the last result is not ahead of what is true, nor of what the reader has found since. The rest is arithmetic modulo powers of two. |
| `CecExchangeProofs` | `AnswersGoBack`, `AbortsNameMessage`, `StatusIsTrue` | `ExchangeInv`: the struct has 16 bytes and an address byte in `msg[0]`, which nothing but a broadcast or a swap changes; a struct that has just been initialised is not an answer. What the packing functions do to `reply` is looked up in each of them. |
| `MachineProofs` | of `StoredFields`: `EverySwab`, `KeepsWidth`, `ReadsBack`, `DiskOrder`, `AllSwabsAgree`, `ChunksAnswered`, `ControlsSurvive` | The properties themselves, and for each kind of word the bits that belong to no field. |
| | of `RegStack`: `StackTypes`, `Counts`, `Skips` (from `Finds` and `Walks`), `FindsNat` | The k-th register lies in the slot that division by 63 gives, and the NaT bits stored are those of the full groups. |

The assumptions are the named `ASSUME`s of the modules: releases are numbers,
`grep` finds a version in itself, a ring is smaller than the range of its
indexes, a buffer has room for the longest event, a system exclusive message
begins with F0, ends with F7 and has bytes below 128 between (the comment on
`SEQ_SYSEX` asks for that), lock has more than two values and fewer than half
of them pass in a round of the loop, a clock's multiplier times its remainder
fits into a word and counts, the clock and times are each below 2^64 (their products with the
multiplier need not be), the data of one TLV or attribute fit its 16 bit length, a CEC message is one of the header's and addresses have four
bits, and the like.

The library's theorems of induction cannot be used. Where a proof needs one
(powers of two in `PerfPageProofs`), it comes from the least number of a set,
which `WellFoundedInduction` gives without an operator as a parameter. The
chains of `AttrListProofs` avoid it: they say of each record which one is the
next, and need no sum over the records.

Model-checked only:

- liveness (`JobPublishes`, `BuffersComeBack`, `WalkEnds`, `ReadEnds`), which
  the prover does not do;
- `TypeOK`, `ReadsInFrame` and `OperandsArrive` of `CecExchange`. They rest on
  the entries of `Table`, which `@@` puts together, and on the bytes
  `FlattenSeq` puts one after the other; the provers expand neither.

Proved only: the type invariants of the modules with proofs other than
`PerfPage`, `AttrList` and `CecExchange`, `NeverDowngrades` (what
`HeaderMirror` allows, said of the branch) and `InBounds`. No run repeats them.
The type invariants of `PerfPage` and `AttrList` are conjuncts of `ResultTrue`
and `OnlyWholeRecords`.

## Abstractions

- Contents of headers are pairs of a release and a name. A partial download is
  not told from none.
- `HeaderRepo` has jobs of pushes to the main branch only, not those of pull
  requests, and no tags.
- Memory accesses of `VirtRing` take effect in program order: the barriers are
  the driver's. The device signals before it has gone once around the ring.
- A write to the sequencer is complete or fails. The run's patches are three
  bytes long, of one kind and of a little-endian machine.
- `cec-funcs.h` is called with operands in their ranges.
- An update of the perf page is one step: the kernel writes it on the processor
  of the thread, which does not run meanwhile. Fewer than 2^31 updates happen
  in a pass of the loop, a counter is interrupted before it runs from its
  largest value to its smallest, and a short clock is read again before it has
  gone around.
- Lists in `AttrList` are those their builders make. Netlink and fanotify lists
  may reach the reader cut anywhere, ebtables tables between the headers the
  loop reads; the others arrive whole. The data of records are zeros to a reader
  that gets there, and no rule of x_tables is longer than its 16 bit
  `next_offset` can say.
- A copy during which the source is written is one step, and leaves
  a target that is not whole.
- `nilfs_segment_usage_set_clean` also clears two other fields of the segment,
  which are not part of the word. The compiler's own byte swap, and
  instructions that swap in one step, are taken to do so.
- A setter of `StoredFields` is one step: nothing in the headers makes two of
  them safe on a word that is shared.

## Not modelled

The repository has some 217000 lines in 1770 files, of which the modules stand
for about one in a hundred. The rest has no behaviour to model: structures,
enumerations, constants, ioctl and system call numbers, lists of names, and
comments that describe code of the kernel. What a field or a number means is
decided there, so a module about them would have nothing of this repository to
be faithful to. Of the code that is left:

- inline assembler for atomic operations and barriers (ia64, alpha): its
  meaning is the processor's;
- accessors of constant structures (USB and UVC descriptors), macros that
  compute constants (DRM formats and modifiers, `_IOC`), and predicates that
  are a mask or a comparison: no state, and a property of them would repeat
  their text;
- rings whose use is described in words only (the data buffer of
  `perf_event.h`, `io_uring.h`, `if_packet.h`, the TCMU ring): the code is
  elsewhere;
- of the modelled headers: the loop over ebtables watchers (the same text as
  the one over matches), `TCM_SET`, a list of TLVs without its last padding,
  which no builder of the header makes, jobs of pull requests, and short writes
  of `seqbuf_dump`, which is a sample in a comment.
